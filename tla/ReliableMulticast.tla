------------------------- MODULE ReliableMulticast -------------------------
(***************************************************************************)
(* rmcast: one sending engine (SendTransportEngine with McSendTransport,   *)
(* AsyncBackupSendServerT and one BackupSendSessionT per connection) and   *)
(* the receiving engines it multicasts to (RecvTransportEngine with        *)
(* McRecvTransport and BackupRecvSessionT, arbitrated by SeqArb).          *)
(*                                                                         *)
(* Messages are numbered by their place in the sender's ring, whose cursor *)
(* 0 follows the multicast and whose cursor 1 trails the slowest receiver. *)
(* Datagrams may be lost, duplicated and reordered.  A receiver that sees  *)
(* a gap asks for it over its TCP connection and waits; an alert that the  *)
(* sender multicasts when it has nothing else to send shows gaps at the    *)
(* end.  A connection may break at any time; the next advertisement makes  *)
(* the receiver open a new one.                                            *)
(*                                                                         *)
(* Connection c is one of the connections that receiver Owner[c] may make. *)
(* Threads: producers (queue), the sending engine (spc) and one engine per *)
(* receiver.  Engines share only the network, so a step of an engine is    *)
(* one round of one of its loops.                                          *)
(***************************************************************************)
EXTENDS Integers, Sequences, FiniteSets, FiniteSetsExt

CONSTANTS Receivers,        \* receiving engines
          MayHang,          \* receivers that may stop running at any time
          Conns,            \* connections, positive integers
          Owner,            \* the receiver that opens a connection
          MayBreak,         \* connections the network may break
          Tags,             \* type tags the sender advertises
          Script,           \* bound on the tags of each message
          AttTags,          \* tags of messages with a memory attachment
          Subs,             \* the tags subscribed to on each connection
          Cap,              \* capacity of the sender's ring
          MaxSeq,           \* bound on the messages queued
          SEQ_MAX,          \* numeric_limits<HMBDC_SEQ_TYPE>::max()
          MaxSendBatch,     \* maxSendBatch, messages in a datagram
          ReplyBatch,       \* messages at most in one sendmsg of a session
          ReplayHistory,    \* replayHistoryForNewRecv
          MinRecvToStart,   \* minRecvToStart
          WaitForSlow,      \* the settings of waitForSlowReceivers to look at
          UpCap             \* reports of the timer on a connection at a time

ASSUME MulticastAssumption ==
    /\ MayHang \subseteq Receivers
    /\ Conns \subseteq Nat \ {0}
    /\ Owner \in [Conns -> Receivers]
    /\ MayBreak \subseteq Conns
    /\ Script \in [1..MaxSeq -> SUBSET Tags]
    /\ AttTags \subseteq Tags
    /\ Subs \in [Conns -> (SUBSET Tags) \ {{}}]
    /\ {Cap, MaxSendBatch, ReplyBatch, UpCap} \subseteq Nat \ {0}
    /\ {MaxSeq, ReplayHistory, MinRecvToStart} \subseteq Nat
    /\ SEQ_MAX \in Nat /\ SEQ_MAX > MaxSeq
    /\ WaitForSlow \subseteq BOOLEAN

VARIABLES waitForSlow,    \* waitForSlowReceivers, fixed when the engine starts
          log,            \* the tags of the messages queued so far
          readSeq,        \* cursors of the ring: 0 multicast, 1 backup
          toSend,         \* the datagram composed and not sent yet
          expectSeq,      \* what the next alert will say
          started,        \* enough receivers came up
          lastBackupSeq,  \* cursor 1 when cullSlow looked last
          toCleanup,      \* toCleanupAttQueue_
          released,       \* messages whose attachment was given back
          spc,            \* where the sending engine is in runOnce
          todo,           \* sessions it has yet to serve in this round
          cur,            \* the session whose requests it answers, or 0
          tx,             \* sessions on the sending side
          rx,             \* sessions on the receiving side
          up, down,       \* data in flight on each connection
          cut,            \* connections that broke or were closed
          sess,           \* the session of each receiver, or 0
          sent,           \* the datagrams multicast so far
          held,           \* the datagram each receiver is working on
          hung            \* receivers that stopped running

ringVars == <<log, readSeq>>
attVars == <<toCleanup, released>>
mcVars == <<toSend, expectSeq>>
cullVars == <<waitForSlow, started, lastBackupSeq>>
loopVars == <<spc, todo, cur>>
senderVars == <<ringVars, attVars, mcVars, cullVars, loopVars, tx>>
netVars == <<up, down, cut, sent>>
recvVars == <<rx, sess, held, hung>>
vars == <<senderVars, netVars, recvVars>>

----------------------------------------------------------------------------
\* Data

Seqs == 0..MaxSeq

\* One datagram: an alert, or (alert = -1) the messages lo .. hi - 1.
Packets == [lo : Seqs, hi : Seqs, alert : Seqs \cup {-1}]
NoPacket == [lo |-> 0, hi |-> 0, alert |-> -1]

\* What a receiver writes to its connection: its subscriptions, or a report:
\* "=seq,len", which asks for len messages from seq on.
Subscribe == [op |-> "+", seq |-> 0, len |-> 0]
Request(s, n) == [op |-> "=", seq |-> s, len |-> n]
Requests == [op : {"+", "="}, seq : Seqs, len : Seqs]
Reports == {q \in Requests : q.op = "="}

\* What a session writes to its connection: the number to start from, a
\* message, or an empty header in place of a message nobody subscribes to.
First(s) == [op |-> "min", seq |-> s]
Message(s) == [op |-> "msg", seq |-> s]
Flush == [op |-> "flush", seq |-> 0]
Writes == [op : {"min", "msg", "flush"}, seq : Seqs]

NoTx == [st |-> "none", next |-> 0, subs |-> {}, reqs |-> <<>>,
         relic |-> <<>>, after |-> 0]
TxStates == [st : {"none", "backlog", "live", "gone"}, next : Seqs, subs : SUBSET Tags,
             reqs : Seq(Requests), relic : Seq(Seqs \cup {-1}), after : Seqs]
\* gapSeq is the last message of the gap that is pending, -1 when none is.
NoRx == [st |-> "none", min |-> SEQ_MAX, expecting |-> SEQ_MAX, gapSeq |-> -1,
         out |-> <<>>]
RxStates == [st : {"none", "connecting", "open", "gone"}, min : Seqs \cup {SEQ_MAX},
             expecting : Seqs \cup {SEQ_MAX}, gapSeq : Seqs \cup {-1}, out : Seq(Seqs)]

SeqRange(a, b) == [i \in 1..(b - a) |-> a + i - 1]
\* The elements of q that are in S, in their order: SelectSeq for a set.
Among(q, S) ==
    LET kept[i \in 0..Len(q)] ==
            IF i = 0 THEN <<>>
            ELSE IF q[i] \in S THEN Append(kept[i - 1], q[i]) ELSE kept[i - 1]
    IN kept[Len(q)]
Prefix(s, n) == SubSeq(s, 1, n)
Rest(s, n) == SubSeq(s, n + 1, Len(s))

----------------------------------------------------------------------------
\* The sender's ring

head == Len(log)
TagOf(s) == log[s + 1]
WithAttachment == {s \in 0..head - 1 : TagOf(s) \in AttTags}

\* The message in the slot of message s: a later one once s is overwritten.
InSlotOf(s) == s + Cap * ((head - 1 - s) \div Cap)

isFull == head >= Cap + Min({readSeq[0], readSeq[1]})
Live == {c \in Conns : tx[c].st = "live"}

\* A producer queues a message of tag t.  With nobody subscribed the message
\* is dropped; while the ring is full queue waits and tryQueue fails.
queue(t) ==
    /\ head < MaxSeq /\ t \in Script[head + 1]
    /\ \E c \in Live : t \in tx[c].subs
    /\ ~isFull
    /\ log' = Append(log, t)
    /\ UNCHANGED <<readSeq, attVars, mcVars, cullVars, loopVars, tx, netVars,
                   recvVars>>

----------------------------------------------------------------------------
\* The sending engine: timers and the backup server

Close(c) ==
    /\ tx' = [tx EXCEPT ![c] = [NoTx EXCEPT !.st = "gone"]]
    /\ cut' = [cut EXCEPT ![c] = TRUE]
    /\ up' = [up EXCEPT ![c] = <<>>]

\* The session that holds the ring back most is dropped.
killSlowestSession(c) ==
    /\ \A d \in Live : tx[c].next <= tx[d].next
    /\ Close(c)

\* Somebody is too slow when the ring is full and the backup cursor is where it
\* was last time.
TooSlow == isFull /\ readSeq[1] = lastBackupSeq

\* The advertising timer, between two rounds.
cullSlow ==
    /\ spc = "idle"
    /\ ~waitForSlow /\ started
    /\ lastBackupSeq' = readSeq[1]
    /\ IF TooSlow /\ Live # {}
       THEN \E c \in Live : killSlowestSession(c)
       ELSE UNCHANGED <<tx, cut, up>>
    /\ UNCHANGED <<ringVars, attVars, mcVars, waitForSlow, started, loopVars, down, sent,
                   recvVars>>

\* runOnce begins: sending starts once enough receivers are ready (the check
\* comes before the sessions run), and one waiting connection is accepted.
\* A session starts from the backup cursor, which it tells its receiver; on a
\* connection that broke meanwhile that may fail.
doAccept(c) ==
    /\ tx[c].st = "backlog"
    /\ \/ /\ tx' = [tx EXCEPT ![c] = [NoTx EXCEPT !.st = "live",
                                                  !.next = readSeq[1]]]
          /\ down' = [down EXCEPT ![c] = <<First(readSeq[1])>>]
       \/ /\ cut[c]
          /\ tx' = [tx EXCEPT ![c].st = "gone"]
          /\ UNCHANGED down

BeginRun ==
    /\ spc = "idle"
    /\ started' = (started \/ Cardinality({c \in Live : tx[c].subs # {}})
                                 >= MinRecvToStart)
    /\ \/ \E c \in Conns : doAccept(c)
       \/ /\ \A c \in Conns : tx[c].st # "backlog"
          /\ UNCHANGED <<tx, down>>
    /\ spc' = "serve"
    /\ todo' = {c \in Conns : tx'[c].st = "live"}
    /\ UNCHANGED <<ringVars, attVars, mcVars, waitForSlow, lastBackupSeq, cur, up, cut, sent,
                   recvVars>>

----------------------------------------------------------------------------
\* The sending engine: one session's runOnce

\* The session returns; its state is t.
Return(c, t) ==
    /\ tx' = [tx EXCEPT ![c] = t]
    /\ cur' = 0
    /\ todo' = todo \ {c}

\* The session goes on with its next request, if there is one.
GoOn(c, t) ==
    IF t.reqs = <<>> /\ t.relic = <<>>
    THEN Return(c, t)
    ELSE /\ tx' = [tx EXCEPT ![c] = t]
         /\ cur' = c
         /\ UNCHANGED todo

\* toSendQueue_ is circular: when full it forgets the oldest request.
\* Mutant of Push: the newest is forgotten.
PushIfRoom(q, more) == Prefix(q \o more, Min({Cap, Len(q \o more)}))
Push(q, more) == LET all == q \o more IN Rest(all, Max({0, Len(all) - Cap}))

\* doRead: as many requests as have arrived.
doRead(c, n) ==
    LET got == Prefix(up[c], n)
        t == [tx[c] EXCEPT
                !.subs = IF \E i \in 1..n : got[i].op = "+"
                         THEN Subs[c] ELSE @,
                !.reqs = Push(@, Among(got, Reports))]
    IN /\ spc = "serve" /\ cur = 0 /\ c \in todo
       /\ up' = [up EXCEPT ![c] = Rest(@, n)]
       /\ GoOn(c, t)
       /\ UNCHANGED <<ringVars, attVars, mcVars, cullVars, spc, down, cut, sent,
                      recvVars>>

\* The session's next request asks for what it may not.
BadData(c) ==
    LET q == tx[c].reqs[1]
    IN \/ q.seq < tx[c].next
       \/ q.len > Cap
       \/ q.seq + q.len > readSeq[0]

\* The session ends: its peer is gone or sends bad data.
MustDrop(c) == cut[c] \/ (cur = c /\ tx[c].relic = <<>> /\ BadData(c))

Drop(c) ==
    /\ spc = "serve" /\ cur \in {0, c} /\ c \in todo
    /\ MustDrop(c)
    /\ Close(c)
    /\ cur' = 0
    /\ todo' = todo \ {c}
    /\ UNCHANGED <<ringVars, attVars, mcVars, cullVars, spc, down, sent, recvVars>>

\* What is written for the messages of a batch: pointers into the ring, read
\* when the kernel takes them.
Written(batch) == [i \in 1..Len(batch) |->
                     IF batch[i] = -1 THEN Flush
                     ELSE Message(InSlotOf(batch[i]))]

Write(c, batch) == down' = [down EXCEPT ![c] = @ \o Written(batch)]

\* The rest of a batch that the socket did not take; k = 0: it is not ready.
SendRelic(c, k) ==
    LET r == tx[c].relic
    IN /\ spc = "serve" /\ cur = c /\ r # <<>>
       /\ k <= Len(r)
       /\ Write(c, Prefix(r, k))
       /\ IF k < Len(r)
          THEN Return(c, [tx[c] EXCEPT !.relic = Rest(r, k)])
          ELSE GoOn(c, [tx[c] EXCEPT !.relic = <<>>, !.after = 0, !.next = tx[c].after])
       /\ UNCHANGED <<ringVars, attVars, mcVars, cullVars, spc, up, cut, sent,
                      recvVars>>

\* A progress report.
Progress(c) ==
    LET q == tx[c].reqs[1]
    IN /\ spc = "serve" /\ cur = c /\ tx[c].relic = <<>>
       /\ ~BadData(c)
       /\ q.len = 0
       /\ GoOn(c, [tx[c] EXCEPT !.next = q.seq, !.reqs = Tail(@)])
       /\ UNCHANGED <<ringVars, attVars, mcVars, cullVars, spc, netVars, recvVars>>

\* Mutant of Resend: the session moves on before the socket took the batch.
ResendEager(c, n, k) ==
    LET q == tx[c].reqs[1]
        batch == [i \in 1..n |-> IF TagOf(q.seq + i - 1) \in tx[c].subs
                                 THEN q.seq + i - 1 ELSE -1]
        t == [tx[c] EXCEPT
                !.reqs = IF n = q.len THEN Tail(@)
                         ELSE <<Request(q.seq + n, q.len - n)>> \o Tail(@),
                !.after = q.seq + n, !.next = q.seq + n]
    IN /\ spc = "serve" /\ cur = c /\ tx[c].relic = <<>>
       /\ ~BadData(c)
       /\ n \in 1..q.len /\ k <= n
       /\ Write(c, Prefix(batch, k))
       /\ IF k < n
          THEN Return(c, [t EXCEPT !.relic = Rest(batch, k)])
          ELSE GoOn(c, [t EXCEPT !.after = 0, !.next = t.after])
       /\ UNCHANGED <<ringVars, attVars, mcVars, cullVars, spc, up, cut, sent,
                      recvVars>>

\* A request for messages: n of them fit in one sendmsg (a segment of an
\* attachment takes two of its entries), of which the socket takes k.  The
\* request is shortened by n.
Resend(c, n, k) ==
    LET q == tx[c].reqs[1]
        batch == [i \in 1..n |-> IF TagOf(q.seq + i - 1) \in tx[c].subs
                                 THEN q.seq + i - 1 ELSE -1]
        t == [tx[c] EXCEPT
                !.reqs = IF n = q.len THEN Tail(@)
                         ELSE <<Request(q.seq + n, q.len - n)>> \o Tail(@),
                !.after = q.seq + n]
    IN /\ spc = "serve" /\ cur = c /\ tx[c].relic = <<>>
       /\ ~BadData(c)
       /\ n \in 1..q.len /\ k <= n
       /\ Write(c, Prefix(batch, k))
       /\ IF k < n
          THEN Return(c, [t EXCEPT !.relic = Rest(batch, k)])
          ELSE GoOn(c, [t EXCEPT !.after = 0, !.next = t.after])
       /\ UNCHANGED <<ringVars, attVars, mcVars, cullVars, spc, up, cut, sent,
                      recvVars>>

\* The socket takes nothing at all: the request stays where it is.
ResendLater(c) ==
    /\ spc = "serve" /\ cur = c /\ tx[c].relic = <<>>
    /\ ~BadData(c)
    /\ tx[c].reqs[1].len > 0
    /\ Return(c, tx[c])
    /\ UNCHANGED <<ringVars, attVars, mcVars, cullVars, spc, netVars, recvVars>>

Serve(c) ==
    \/ \E n \in 0..Len(up[c]) : doRead(c, n)
    \/ Drop(c)
    \/ \E k \in 0..ReplyBatch : SendRelic(c, k)
    \/ \E n \in 1..ReplyBatch, k \in 0..ReplyBatch : Resend(c, n, k)
    \/ Progress(c)
    \/ ResendLater(c)

\* The entries of toCleanup that go when the backup cursor comes to newSeq.
\* Mutant of Cleanable: those that were multicast.
CleanableSent(newSeq) ==
    {i \in 1..Len(toCleanup) : \A j \in 1..i : toCleanup[j] < readSeq[0]}
Cleanable(newSeq) ==
    {i \in 1..Len(toCleanup) : \A j \in 1..i : toCleanup[j] < newSeq}

\* All sessions have run: the backup cursor follows the slowest, less the
\* history kept for newcomers, and attachments behind it are given back.
Trail ==
    LET least == Min({readSeq[0]} \cup {tx[c].next : c \in Live})
        newSeq == IF ReplayHistory < least THEN least - ReplayHistory ELSE 0
        done == Cleanable(newSeq)
    IN /\ spc = "serve" /\ todo = {} /\ cur = 0
       /\ released' = released \cup {toCleanup[i] : i \in done}
       /\ toCleanup' = Rest(toCleanup, Cardinality(done))
       /\ readSeq' = [readSeq EXCEPT ![1] = Max({@, newSeq})]
       /\ spc' = "mcast"
       /\ UNCHANGED <<log, mcVars, cullVars, todo, cur, tx, netVars, recvVars>>

----------------------------------------------------------------------------
\* The sending engine: resumeSend

\* What alerts say after a datagram of n messages from q on.
\* Mutant of AlertAfter: the number of its last message.
AlertAfterLast(q, n) == IF n = 0 THEN expectSeq ELSE q + n - 1
AlertAfter(q, n) == IF n = 0 THEN expectSeq ELSE q + n

\* The next datagram, with the multicast cursor at q: up to MaxSendBatch
\* messages, of which the rate limiter and the mtu let k through; without
\* sessions they are skipped.  In the first datagram of a round an alert may be
\* due (the flush timer fires between rounds); it goes out unless messages do.
Compose(q, k, due) ==
    LET avail == IF started THEN Min({MaxSendBatch, head - q}) ELSE 0
        n == IF Live = {} THEN 0 ELSE k
    IN /\ k <= avail
       /\ Live = {} => k = avail
       /\ due => spc = "mcast"
       /\ readSeq' = [readSeq EXCEPT ![0] = IF Live = {} THEN q + avail ELSE q]
       /\ toSend' = [lo |-> IF n = 0 THEN 0 ELSE q,
                     hi |-> IF n = 0 THEN 0 ELSE q + n,
                     alert |-> IF due /\ n = 0 THEN expectSeq ELSE -1]
       /\ expectSeq' = AlertAfter(q, n)
       /\ toCleanup' = toCleanup \o Among(SeqRange(q, q + n), WithAttachment)
       /\ spc' = IF toSend' = NoPacket THEN "idle" ELSE "more"
       /\ UNCHANGED <<log, released, cullVars, todo, cur, tx, up, down, cut, recvVars>>

\* Nothing is waiting to be sent.
ComposeFirst(k, due) ==
    /\ spc = "mcast" /\ toSend = NoPacket
    /\ Compose(readSeq[0], k, due)
    /\ UNCHANGED sent

\* The datagram goes out.  From now on each receiver may get it at any time,
\* more than once, after later ones or not at all.
Transmit(k, due) ==
    /\ spc \in {"mcast", "more"} /\ toSend # NoPacket
    /\ sent' = sent \cup {toSend}
    /\ Compose(readSeq[0] + (toSend.hi - toSend.lo), k, due)

\* The socket is not ready.
SendLater ==
    /\ spc \in {"mcast", "more"} /\ toSend # NoPacket
    /\ spc' = "idle"
    /\ UNCHANGED <<ringVars, attVars, mcVars, cullVars, todo, cur, tx, netVars,
                   recvVars>>

resumeSend ==
    \/ \E k \in 0..MaxSendBatch, due \in BOOLEAN :
          ComposeFirst(k, due) \/ Transmit(k, due)
    \/ SendLater

----------------------------------------------------------------------------
\* A receiving engine

\* handleMessageCb(TypeTagBackupSource): an advertisement, which the sender
\* multicasts over and over, makes a receiver without a session connect.
HandleAd(r) ==
    LET free == {c \in Conns : Owner[c] = r /\ rx[c].st = "none"}
    IN /\ sess[r] = 0 /\ free # {}
       /\ sess' = [sess EXCEPT ![r] = Min(free)]
       /\ rx' = [rx EXCEPT ![Min(free)].st = "connecting"]
       /\ tx' = [tx EXCEPT ![Min(free)].st = "backlog"]
       /\ UNCHANGED <<ringVars, attVars, mcVars, cullVars, loopVars, netVars, held, hung>>

\* A write to a connection is lost once the other end has closed it.
Send(c, q) == up' = [up EXCEPT ![c] = IF tx[c].st = "gone" THEN @ ELSE Append(@, q)]

\* initializeConn: the subscriptions are sent before anything is read.
initializeConn(c) ==
    /\ rx[c].st = "connecting"
    /\ ~cut[c]
    /\ rx' = [rx EXCEPT ![c].st = "open"]
    /\ Send(c, Subscribe)
    /\ UNCHANGED <<senderVars, down, cut, sent, sess, held, hung>>

GapPending(c) == rx[c].gapSeq # -1
Subscribed(c, s) == TagOf(s) \in Subs[c]
Wanted(c) == {s \in 0..head - 1 : Subscribed(c, s)}

\* doRead of the receiver: the starting number, then messages that fill gaps.
\* A message on the connection has no number: it counts as the next one.
ReadMin(c) ==
    /\ rx[c].st = "open"
    /\ down[c] # <<>>
    /\ rx[c].expecting = SEQ_MAX
    /\ rx' = [rx EXCEPT ![c].min = Head(down[c]).seq,
                        ![c].expecting = Head(down[c]).seq]
    /\ down' = [down EXCEPT ![c] = Tail(@)]
    /\ UNCHANGED <<senderVars, up, cut, sent, sess, held, hung>>

ReadBackup(c) ==
    LET m == Head(down[c])
        e == rx[c].expecting
    IN /\ rx[c].st = "open"
       /\ down[c] # <<>>
       /\ e # SEQ_MAX
       /\ rx' = [rx EXCEPT ![c].out = IF m.op = "msg" /\ Subscribed(c, m.seq)
                                      THEN Append(@, m.seq) ELSE @,
                           ![c].expecting = e + 1,
                           ![c].gapSeq = IF @ = e THEN -1 ELSE @]
       /\ down' = [down EXCEPT ![c] = Tail(@)]
       /\ UNCHANGED <<senderVars, up, cut, sent, sess, held, hung>>

\* sendGapReport by the timer, at most UpCap reports on the way.
\* Mutant of Report: also while a gap is pending.
ReportAlways(c) ==
    /\ rx[c].st = "open"
    /\ rx[c].expecting # SEQ_MAX
    /\ Len(up[c]) < UpCap
    /\ Send(c, Request(rx[c].expecting, 0))
    /\ UNCHANGED <<senderVars, down, cut, sent, recvVars>>

Report(c) ==
    /\ rx[c].st = "open"
    /\ rx[c].expecting # SEQ_MAX /\ ~GapPending(c)
    /\ Len(up[c]) < UpCap
    /\ Send(c, Request(rx[c].expecting, 0))
    /\ UNCHANGED <<senderVars, down, cut, sent, recvVars>>

\* sendGapReport for the messages from the expected one up to upto - 1.
GapReport(c, upto) ==
    /\ Send(c, Request(rx[c].expecting, upto - rx[c].expecting))
    /\ rx' = [rx EXCEPT ![c].gapSeq = upto - 1]

Deliver(c, upto) ==
    /\ rx' = [rx EXCEPT ![c].out = @ \o Among(SeqRange(rx[c].expecting, upto), Wanted(c)),
                        ![c].expecting = upto]
    /\ UNCHANGED up

Hold(r, p) == held' = [held EXCEPT ![r] = p]

\* A message has to wait while a gap is pending or the session has no starting
\* number.
\* Mutant of MustWait: only for the latter.
MustWaitForMin(c) == rx[c].expecting = SEQ_MAX
MustWait(c) == GapPending(c) \/ rx[c].expecting = SEQ_MAX

\* accept and arb for the messages of datagram p: they all wait or none
\* does; old ones are discarded; the expected one and its successors are
\* delivered; a later one is a gap.
AcceptData(r, c, p) ==
    LET e == rx[c].expecting
    IN \/ /\ MustWait(c)
          /\ Hold(r, p)
          /\ UNCHANGED <<rx, up>>
       \/ /\ ~MustWait(c) /\ p.hi <= e
          /\ Hold(r, NoPacket)
          /\ UNCHANGED <<rx, up>>
       \/ /\ ~MustWait(c) /\ p.lo <= e /\ e < p.hi
          /\ Hold(r, NoPacket)
          /\ Deliver(c, p.hi)
       \/ /\ ~MustWait(c) /\ e < p.lo
          /\ Hold(r, p)
          /\ GapReport(c, p.lo)

\* The same for an alert, which also has to wait for a pending gap.
AcceptAlert(r, c, p) ==
    \/ /\ GapPending(c)
       /\ Hold(r, p)
       /\ UNCHANGED <<rx, up>>
    \/ /\ ~GapPending(c)
       /\ Hold(r, NoPacket)
       /\ IF rx[c].expecting < p.alert
          THEN GapReport(c, p.alert)
          ELSE UNCHANGED <<rx, up>>

\* Works on a datagram until it is done with it or has to wait.
Process(r, p) ==
    /\ \/ /\ sess[r] = 0
          /\ Hold(r, NoPacket)
          /\ UNCHANGED <<rx, up>>
       \/ sess[r] # 0 /\ p.alert = -1 /\ AcceptData(r, sess[r], p)
       \/ sess[r] # 0 /\ p.alert # -1 /\ AcceptAlert(r, sess[r], p)
    /\ UNCHANGED <<senderVars, down, cut, sent, sess, hung>>

ResumeHeld(r) ==
    /\ held[r] # NoPacket
    /\ Process(r, held[r])

\* A datagram is received.
Receive(r, p) ==
    /\ held[r] = NoPacket
    /\ p \in sent
    /\ Process(r, p)

\* The session ends when its connection is found broken.
RecvDropped(c) ==
    /\ rx[c].st \in {"connecting", "open"}
    /\ cut[c]
    /\ rx' = [rx EXCEPT ![c] = [NoRx EXCEPT !.st = "gone"]]
    /\ sess' = [sess EXCEPT ![Owner[c]] = 0]
    /\ down' = [down EXCEPT ![c] = <<>>]
    /\ UNCHANGED <<senderVars, up, cut, sent, held, hung>>

Recv(r) ==
    /\ r \notin hung
    /\ \/ HandleAd(r)
       \/ ResumeHeld(r)
       \/ \E p \in sent : Receive(r, p)
       \/ \E c \in Conns :
             /\ Owner[c] = r
             /\ \/ initializeConn(c) \/ ReadMin(c) \/ ReadBackup(c) \/ Report(c)
                \/ RecvDropped(c)

\* A receiving process hangs: its kernel keeps the connection alive.
Hang(r) ==
    /\ r \in MayHang \ hung
    /\ hung' = hung \cup {r}
    /\ UNCHANGED <<senderVars, netVars, rx, sess, held>>

----------------------------------------------------------------------------
\* A connection breaks: a network failure, or either process is restarted.
Break(c) ==
    /\ c \in MayBreak
    /\ rx[c].st \in {"connecting", "open"}
    /\ ~cut[c]
    /\ cut' = [cut EXCEPT ![c] = TRUE]
    /\ UNCHANGED <<senderVars, up, down, sent, recvVars>>

Init ==
    /\ waitForSlow \in WaitForSlow
    /\ log = <<>>
    /\ readSeq = [i \in 0..1 |-> 0]
    /\ toSend = NoPacket
    /\ expectSeq = 0
    /\ started = FALSE
    /\ lastBackupSeq = SEQ_MAX
    /\ toCleanup = <<>> /\ released = {}
    /\ spc = "idle" /\ todo = {} /\ cur = 0
    /\ tx = [c \in Conns |-> NoTx]
    /\ rx = [c \in Conns |-> NoRx]
    /\ up = [c \in Conns |-> <<>>]
    /\ down = [c \in Conns |-> <<>>]
    /\ cut = [c \in Conns |-> FALSE]
    /\ sess = [r \in Receivers |-> 0]
    /\ sent = {}
    /\ held = [r \in Receivers |-> NoPacket]
    /\ hung = {}

SenderStep ==
    \/ BeginRun
    \/ \E c \in Conns : Serve(c)
    \/ Trail
    \/ resumeSend

Next ==
    \/ \E t \in Tags : queue(t)
    \/ cullSlow
    \/ SenderStep
    \/ \E r \in Receivers : Recv(r) \/ Hang(r)
    \/ \E c \in Conns : Break(c)

Spec == Init /\ [][Next]_vars

----------------------------------------------------------------------------
\* Safety

\* Every variable has its type; a session remembers at most Cap requests.
TypeOK ==
    /\ waitForSlow \in BOOLEAN
    /\ log \in Seq(Tags) /\ head <= MaxSeq
    /\ readSeq \in [0..1 -> Seqs]
    /\ toSend \in Packets /\ expectSeq \in Seqs
    /\ started \in BOOLEAN
    /\ lastBackupSeq \in Seqs \cup {SEQ_MAX}
    /\ toCleanup \in Seq(Seqs) /\ released \subseteq Seqs
    /\ spc \in {"idle", "serve", "mcast", "more"}
    /\ todo \subseteq Conns /\ cur \in Conns \cup {0}
    /\ tx \in [Conns -> TxStates]
    /\ \A c \in Conns : Len(tx[c].reqs) <= Cap
    /\ rx \in [Conns -> RxStates]
    /\ up \in [Conns -> Seq(Requests)]
    /\ down \in [Conns -> Seq(Writes)]
    /\ cut \in [Conns -> BOOLEAN]
    /\ sess \in [Receivers -> Conns \cup {0}]
    /\ sent \subseteq Packets
    /\ held \in [Receivers -> Packets]
    /\ hung \subseteq MayHang

\* A session hands over every message its receiver subscribes to from the
\* number it started with up to the one it expects, each once and in order,
\* whichever of multicast and backup connection brought it and whatever the
\* network lost, repeated or reordered: BackupRecvSessionT trusts the order
\* on the connection ("just punch the card") and the number in a datagram.
InOrderOnce ==
    \A c \in Conns : rx[c].expecting # SEQ_MAX =>
        /\ rx[c].expecting <= head
        /\ rx[c].out = Among(SeqRange(rx[c].min, rx[c].expecting), Wanted(c))

\* A receiver that follows the protocol is never thrown out for "bad data":
\* its requests arrive in the order of their numbers, ask for no more than the
\* ring holds and only for what was multicast (BackupSendSessionT::runOnce).
NeverBadData ==
    \A c \in Live : tx[c].relic = <<>> /\ tx[c].reqs # <<>> => ~BadData(c)

Connected(c) == tx[c].st = "live" /\ rx[c].st = "open" /\ ~cut[c]

\* Whatever a connected receiver has not read yet is on its connection or
\* still in the ring, although the session advances as soon as the kernel has
\* taken a batch and the ring is overwritten behind the backup cursor.
Recoverable ==
    /\ \A c \in Live : head <= tx[c].next + Cap
    /\ \A c \in Conns : Connected(c) /\ rx[c].expecting # SEQ_MAX =>
          tx[c].next <= rx[c].expecting + Len(down[c])

\* The requests of a receiver that its session has not dealt with: queued, on their way.
asked(c) == tx[c].reqs \o up[c]
LastAsked(c) == IF asked(c) = <<>> THEN 0 ELSE asked(c)[Len(asked(c))].len

\* A receiver that waits for a gap to be filled does not wait in vain: what it
\* lacks is on the connection, left over from a partial write, or asked for by
\* the last of its requests, on its way or queued; the circular queue of requests
\* never drops that one.
GapCovered ==
    \A c \in Conns : Connected(c) /\ GapPending(c) =>
        rx[c].gapSeq + 1 = rx[c].expecting + Len(down[c]) + Len(tx[c].relic) + LastAsked(c)

\* An attachment is given back to its owner only when no datagram and no
\* session can refer to its memory any more, a session that starts later
\* included.
AttachmentKept ==
    \A s \in released :
        /\ s < readSeq[0] /\ s < readSeq[1]
        /\ \A c \in Live : s < tx[c].next

----------------------------------------------------------------------------
\* The inductive invariant behind these properties

\* The sender's counters: its ring holds no more than its capacity, and what it multicast
\* or announced lies behind its cursor.
SenderInv ==
    /\ readSeq[1] <= readSeq[0] /\ head <= readSeq[1] + Cap
    /\ toSend.lo <= toSend.hi /\ toSend.alert <= readSeq[0]
    /\ toSend.lo < toSend.hi => toSend.lo = readSeq[0] /\ toSend.alert = -1
    /\ toSend.lo = toSend.hi => toSend.lo = 0
    /\ readSeq[0] + (toSend.hi - toSend.lo) <= head
    /\ expectSeq <= readSeq[0] + (toSend.hi - toSend.lo)
    /\ \A p \in sent : /\ p.alert <= readSeq[0] /\ p.hi <= readSeq[0]
                       /\ p.alert = -1 => p.lo < p.hi
    /\ \A r \in Receivers : held[r] \in sent \cup {NoPacket}

\* The sessions the sending engine serves are live, and the one it is at has work.
LoopInv ==
    /\ todo \subseteq Live
    /\ spc # "serve" => todo = {}
    /\ cur # 0 => cur \in todo /\ (tx[cur].reqs # <<>> \/ tx[cur].relic # <<>>)

\* A receiver's session is a connection of its own.
SessInv ==
    \A r \in Receivers : sess[r] # 0 =>
        Owner[sess[r]] = r /\ rx[sess[r]].st \in {"connecting", "open"}

\* What the two ends of a connection are before they have met and after they parted.
StageInv(c) ==
    /\ rx[c].st = "none" => tx[c].st = "none"
    /\ rx[c].st # "open" => rx[c] = [NoRx EXCEPT !.st = rx[c].st]
    /\ rx[c].st \in {"none", "connecting"} => up[c] = <<>>
    /\ tx[c].st # "live" => tx[c] = [NoTx EXCEPT !.st = tx[c].st]
    /\ tx[c].st \in {"none", "backlog"} => down[c] = <<>> /\ rx[c].expecting = SEQ_MAX
    /\ tx[c].st \in {"backlog", "live"} /\ tx[c].subs # Subs[c] =>
          /\ tx[c].reqs = <<>> /\ tx[c].relic = <<>>
          /\ IF up[c] = <<>> THEN rx[c].st # "open" ELSE up[c][1].op = "+"
    /\ tx[c].st = "backlog" => up[c] \in {<<>>, <<Subscribe>>}

\* Requests come in the order of their numbers, none behind the session's own number,
\* and only the last may ask for messages, which the ring has.
AskedInv(c) ==
    LET ask == asked(c)  t == tx[c] IN tx[c].st = "live" =>
        /\ readSeq[1] <= t.next /\ t.next <= readSeq[0]
        /\ \A i \in 1..Len(ask) :
              IF ask[i].op = "+" THEN i = 1 /\ t.reqs = <<>> /\ ask[i] = Subscribe
              ELSE /\ t.next <= ask[i].seq /\ (t.relic # <<>> => t.after <= ask[i].seq)
                   /\ ask[i].len <= Cap /\ ask[i].seq + ask[i].len <= readSeq[0]
        /\ \A i, j \in 1..Len(ask) :
              i < j => ask[i].len = 0 /\ ask[i].seq <= ask[j].seq
        /\ t.relic # <<>> => t.after <= readSeq[0] /\ t.next <= t.after - Len(t.relic)
        /\ \A j \in 1..Len(t.relic) : LET s == t.after - Len(t.relic) + (j - 1) IN
              t.relic[j] = IF Subscribed(c, s) THEN s ELSE -1

\* A receiver that does not know its starting number will read it first, and has
\* asked for nothing.
StartInv(c) ==
    rx[c].st \in {"connecting", "open"} /\ rx[c].expecting = SEQ_MAX =>
        /\ rx[c].out = <<>> /\ rx[c].gapSeq = -1
        /\ down[c] # <<>> => Len(down[c]) = 1 /\ down[c][1].op = "min" /\ down[c][1].seq <= readSeq[0]
        /\ tx[c].st = "live" =>
              /\ down[c] # <<>> /\ down[c][1].seq = tx[c].next
              /\ tx[c].relic = <<>> /\ tx[c].reqs = <<>>
              /\ up[c] \in {<<>>, <<Subscribe>>}

\* What is on a connection continues what its receiver has, without a hole up to the last
\* message of the gap that is pending.
StreamInv(c) ==
    LET e == rx[c].expecting  d == Len(down[c]) IN e # SEQ_MAX =>
        /\ rx[c].min <= e /\ e <= readSeq[0]
        /\ rx[c].out = Among(SeqRange(rx[c].min, e), Wanted(c))
        /\ IF GapPending(c) THEN e <= rx[c].gapSeq /\ e + d <= rx[c].gapSeq + 1 ELSE d = 0
        /\ rx[c].gapSeq < readSeq[0]
        /\ \A i \in 1..d : LET s == e + (i - 1) IN
              down[c][i] = IF Subscribed(c, s) THEN Message(s) ELSE Flush

\* What the session of a live connection holds and was asked for continues it.
LinkInv(c) ==
    LET e == rx[c].expecting  d == Len(down[c])  t == tx[c]  ask == asked(c) IN
    e # SEQ_MAX /\ tx[c].st = "live" =>
        /\ t.next <= e + d
        /\ t.relic # <<>> => t.after = e + d + Len(t.relic)
        /\ ~GapPending(c) => t.relic = <<>> /\ LastAsked(c) = 0
        /\ GapPending(c) => rx[c].gapSeq + 1 = e + d + Len(t.relic) + LastAsked(c)
        /\ \A i \in 1..Len(ask) :
              IF ask[i].len = 0 THEN ask[i].seq <= e
              ELSE ask[i].seq = e + d + Len(t.relic)

ConnInv(c) == StageInv(c) /\ AskedInv(c) /\ StartInv(c) /\ StreamInv(c) /\ LinkInv(c)

MulticastInv ==
    /\ TypeOK /\ SenderInv /\ LoopInv /\ SessInv
    /\ \A c \in Conns : ConnInv(c)
    /\ AttachmentKept

----------------------------------------------------------------------------
\* Liveness

\* The round of a receiving engine that needs nobody's help.
Runs(c) == Owner[c] \notin hung
RecvWork(r) ==
    /\ r \notin hung
    /\ \/ HandleAd(r)
       \/ ResumeHeld(r)
       \/ \E c \in Conns :
             /\ Owner[c] = r
             /\ initializeConn(c) \/ ReadMin(c) \/ ReadBackup(c) \/ RecvDropped(c)

\* Engines keep running, timers keep firing, and a network that is used again
\* and again works at times: a socket takes data, what was sent on a
\* connection is read, a broken one is noticed, an alert gets through, the
\* rate limiter lets a message pass.
Fairness ==
    /\ WF_vars(SenderStep)
    /\ SF_vars(cullSlow)
    /\ SF_vars(\E k \in 0..MaxSendBatch, due \in BOOLEAN : Transmit(k, due))
    /\ SF_vars(\E k \in 1..MaxSendBatch, due \in BOOLEAN :
                  ComposeFirst(k, due) \/ Transmit(k, due))
    /\ SF_vars(ComposeFirst(0, TRUE))
    /\ \A c \in Conns :
          /\ SF_vars((up[c] # <<>> /\ doRead(c, Len(up[c]))) \/ Drop(c))
          /\ SF_vars(\E n, k \in 1..ReplyBatch : SendRelic(c, k) \/ Resend(c, n, k))
          /\ SF_vars(Runs(c) /\ Report(c))
    /\ \A r \in Receivers :
          /\ WF_vars(RecvWork(r))
          /\ SF_vars(r \notin hung /\ \E p \in sent : p.alert = expectSeq /\ Receive(r, p))

FairSpec == Spec /\ Fairness

\* Whatever was multicast reaches a connected receiver in the end, lost or not
\* (it is handed over or lies before the receiver's starting number), unless
\* its session ends or it hangs.  Alerts reveal the gaps nothing follows
\* (seqAlert_, BackupRecvSessionT::arb).
CaughtUp ==
    \A c \in Conns, s \in 0..(MaxSeq - 1) :
        (rx[c].st = "open" /\ \E p \in sent : p.lo <= s /\ s < p.hi)
            ~> (rx[c].st = "gone" \/ rx[c].expecting > s \/ ~Runs(c))

\* With waitForSlowReceivers off no receiver, hung or slow, keeps the ring full
\* for good: whoever waits in queue goes on (cullSlow, killSlowestSession).
EventuallyRoom == isFull /\ ~waitForSlow ~> ~isFull

\* What holds of a sender and a receiver at each step: the inductive invariant, and a gap
\* that is being filled.
GapInv == MulticastInv /\ GapCovered

\* Receivers catch up and senders find room in the end.
CatchUpAndRoom == CaughtUp /\ EventuallyRoom
=============================================================================
