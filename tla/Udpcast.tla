------------------------------- MODULE Udpcast -------------------------------
(***************************************************************************)
(* The unreliable transport (tips/udpcast).  The sending engine peeks       *)
(* messages from its ring, packs them into datagrams no larger than the mtu *)
(* (iovecs that point into the ring), and sends the datagrams to every      *)
(* destination without retry.  The receiving engine cuts a datagram into    *)
(* messages and puts those of subscribed types into the output buffer.      *)
(*                                                                          *)
(* A message is its position among those queued; queue() is one step, since *)
(* PartitionRing is about its ring.  UDP loses and reorders datagrams.      *)
(* Not modelled: sendmmsg failing with something else than EAGAIN, and      *)
(* eraseDest (both leave udpcastDests_ or its iterator broken), stop().     *)
(***************************************************************************)
EXTENDS Integers, Sequences, FiniteSets, FiniteSetsExt, SequencesExt

CONSTANTS
  UdEndpoints,  \* destinations
  UdCap,        \* slots of the sender's ring
  UdBatch,      \* maxSendBatch
  UdMtu,        \* mtu_ of the sender
  UdSettings    \* what is sent, to whom, and what goes wrong: see UdAssumption

\* sizes: wire size of each message to queue; dests, adds: destinations at first
\* and those added later; hosts: endpoints where an engine receives;
\* ready: the socket can be written from the start; refusals, losses: how often the
\* rater refuses, and datagrams are lost; mtu, room: of the receivers and their
\* output buffers; wanted, late: messages of types subscribed at first, and
\* subscribed at some later time.
ASSUME UdAssumption ==
  /\ UdCap \in Nat \ {0} /\ UdBatch \in Nat \ {0} /\ UdMtu \in Nat
  /\ \A s \in UdSettings :
       /\ s.sizes \in Seq(1..UdMtu) /\ s.ready \in BOOLEAN
       /\ s.dests \in Seq(UdEndpoints) /\ s.dests # <<>> /\ IsInjective(s.dests)
       /\ s.adds \subseteq UdEndpoints /\ s.hosts \subseteq UdEndpoints
       /\ s.refusals \in Nat /\ s.losses \in Nat /\ s.mtu \in Nat /\ s.room \in Nat
       /\ s.wanted \subseteq DOMAIN s.sizes /\ s.late \subseteq DOMAIN s.sizes

VARIABLES
  udSet,    \* the setting explored, chosen once
  udTail,   \* messages queued
  udFree,   \* messages given back to the ring
  udSlot,   \* message in each slot
  udPeeked, \* begin_, it_, end_ as numbers of messages
  udMsgs,   \* toSendMsgs_: the slots pointed to
  udPkts,   \* toSendPkts_: first and last iovec of each datagram
  udBytes,  \* packetBytes
  udRateOk, \* rateOk
  udPc,     \* where resumeSend is: "idle", "waste", "peek", "pack", "send"
  udDests,  \* udpcastDests_
  udTo,     \* the destination that is next in the loop
  udNames,  \* msg_name of each element of toSendPkts_
  udReady,  \* isFdReady()
  udRefused,\* refusals so far
  udLost,   \* losses so far
  udNet,    \* datagrams on their way to each endpoint
  udBuf,    \* messages and bytes left of the datagram each receiver works on
  udGot,    \* ghost: what each receiver put into its output buffer
  udTaken,  \* how much of it was taken out
  udSubs,   \* messages whose type each receiver has subscribed to
  udSent,   \* ghost: what was sent to each endpoint
  udTorn,   \* ghost: messages given back while a datagram still pointed to them
  udWhole   \* ghost: messages each receiver has got whole

udRing == <<udTail, udFree, udSlot>>
udPacking == <<udPeeked, udMsgs, udPkts, udBytes, udRateOk>>
udWire == <<udNet, udSent, udLost>>
udRecv == <<udBuf, udGot, udTaken, udSubs, udWhole>>
udVars == <<udSet, udRing, udPacking, udPc, udDests, udTo, udNames, udReady, udRefused,
            udWire, udRecv, udTorn>>

UdSlotOf(n) == (n - 1) % UdCap
UdDangling == "dangling"    \* a pointer into a vector that was reallocated
UdN == Len(udSet.sizes)
UdSize(n) == udSet.sizes[n]

-----------------------------------------------------------------------------
(* The user of the sending engine.                                          *)

UdRoom == udTail - udFree < UdCap
UdQueue ==
  /\ udTail < UdN /\ UdRoom
  /\ udTail' = udTail + 1 /\ udSlot' = [udSlot EXCEPT ![UdSlotOf(udTail + 1)] = udTail + 1]
  /\ UNCHANGED <<udSet, udFree, udPacking, udPc, udDests, udTo, udNames, udReady, udRefused,
                 udWire, udRecv, udTorn>>

\* Called in the engine's thread, between two rounds.
UdAddDest(d) ==
  /\ udPc = "idle" /\ d \in udSet.adds \ ToSet(udDests)
  /\ udDests' = Append(udDests, d) /\ udNames' = [i \in 1..UdBatch |-> UdDangling]
  /\ UNCHANGED <<udSet, udRing, udPacking, udPc, udTo, udReady, udRefused, udWire, udRecv, udTorn>>

-----------------------------------------------------------------------------
(* resumeSend.                                                              *)

\* A round that finds nothing queued, peeked or packed changes nothing.
UdBegin ==
  /\ udPc = "idle"
  /\ udTail > udPeeked.begin \/ udPkts # <<>>
  /\ udPc' = IF udPeeked.it = udPeeked.end THEN "waste" ELSE "pack"
  /\ udBytes' = 0 /\ udRateOk' = TRUE
  /\ UNCHANGED <<udSet, udRing, udPeeked, udMsgs, udPkts, udDests, udTo, udNames, udReady,
                 udRefused, udWire, udRecv, udTorn>>

\* Mutant of UdGivenBack: what was queued meanwhile is given back as well.
UdGivenBackAll == udTail
UdGivenBack == udPeeked.end
UdWaste ==
  /\ udPc = "waste" /\ udPc' = "peek"
  /\ udFree' = UdGivenBack
  /\ udTorn' = udTorn \cup {udSlot[s] : s \in ToSet(udMsgs)}
  /\ UNCHANGED <<udSet, udTail, udSlot, udPacking, udDests, udTo, udNames, udReady, udRefused,
                 udWire, udRecv>>

UdPeek ==
  /\ udPc = "peek" /\ udPc' = "pack"
  /\ udPeeked' = [begin |-> udPeeked.end, it |-> udPeeked.end,
                  end |-> Min({udTail, udPeeked.end + UdBatch})]
  /\ UNCHANGED <<udSet, udRing, udMsgs, udPkts, udBytes, udRateOk, udDests, udTo, udNames,
                 udReady, udRefused, udWire, udRecv, udTorn>>

UdMorePack == udPeeked.it < udPeeked.end /\ Len(udMsgs) < UdBatch /\ udRateOk
UdClosed == IF udPkts = <<>> THEN 0 ELSE Last(udPkts)[2]    \* toSendMsgsHead_
UdClose == Append(udPkts, <<UdClosed + 1, Len(udMsgs)>>)

UdRefuse ==
  /\ udPc = "pack" /\ UdMorePack /\ udRefused < udSet.refusals
  /\ udRefused' = udRefused + 1 /\ udRateOk' = FALSE
  /\ UNCHANGED <<udSet, udRing, udPeeked, udMsgs, udPkts, udBytes, udPc, udDests, udTo, udNames,
                 udReady, udWire, udRecv, udTorn>>

UdFull(w) == udBytes + w > UdMtu
UdPack ==
  LET s == UdSlotOf(udPeeked.it + 1)
      w == UdSize(udSlot[s])
  IN
  /\ udPc = "pack" /\ UdMorePack
  /\ udPkts' = IF UdFull(w) THEN UdClose ELSE udPkts
  /\ udBytes' = IF UdFull(w) THEN w ELSE udBytes + w
  /\ udMsgs' = Append(udMsgs, s)
  /\ udPeeked' = [udPeeked EXCEPT !.it = @ + 1]
  /\ UNCHANGED <<udSet, udRing, udRateOk, udPc, udDests, udTo, udNames, udReady, udRefused,
                 udWire, udRecv, udTorn>>

\* The last datagram is closed; they are sent, or wait for the socket.
UdWrap ==
  LET pkts == IF udBytes > 0 THEN UdClose ELSE udPkts IN
  /\ udPc = "pack" /\ ~UdMorePack
  /\ udPkts' = pkts /\ udBytes' = 0
  /\ udPc' = IF pkts # <<>> /\ udReady THEN "send" ELSE "idle"
  /\ udTo' = 1
  /\ UNCHANGED <<udSet, udRing, udPeeked, udMsgs, udRateOk, udDests, udNames, udReady, udRefused,
                 udWire, udRecv, udTorn>>

UdNamed(d) ==
  IF udNames[1] = d THEN udNames
  ELSE [i \in 1..UdBatch |-> IF i <= Len(udPkts) THEN d ELSE udNames[i]]

UdContent(i) == [k \in 1..(udPkts[i][2] - udPkts[i][1] + 1) |-> udSlot[udMsgs[udPkts[i][1] + k - 1]]]

\* sendmmsg: all of the datagrams, or some at the front; EAGAIN sends none.
UdSend ==
  /\ udPc = "send" /\ udTo <= Len(udDests)
  /\ LET names == UdNamed(udDests[udTo]) IN
     /\ udNames' = names
     /\ \E k \in 0..Len(udPkts) :
          /\ k < Len(udPkts) => udLost < udSet.losses
          /\ udLost' = IF k < Len(udPkts) THEN udLost + 1 ELSE udLost
          /\ LET to(d) == SelectSeq([i \in 1..k |-> i], LAMBDA i : names[i] = d)
                 pkts(d) == [j \in 1..Len(to(d)) |-> UdContent(to(d)[j])]
             IN /\ udNet' = [d \in UdEndpoints |-> IF d \in udSet.hosts THEN udNet[d] \o pkts(d) ELSE <<>>]
                /\ udSent' = [d \in UdEndpoints |-> udSent[d] \o FlattenSeq(pkts(d))]
  /\ udTo' = udTo + 1
  /\ UNCHANGED <<udSet, udRing, udPacking, udPc, udDests, udReady, udRefused, udRecv, udTorn>>

\* No retry, "to avoid buffer full".
UdSendEnds ==
  /\ udPc = "send" /\ udTo > Len(udDests)
  /\ udMsgs' = <<>> /\ udPkts' = <<>> /\ udTo' = 1
  /\ udPc' = IF ~udRateOk THEN "idle"
             ELSE IF udPeeked.it = udPeeked.end THEN "waste" ELSE "pack"
  /\ UNCHANGED <<udSet, udRing, udPeeked, udBytes, udRateOk, udDests, udNames, udReady, udRefused,
                 udWire, udRecv, udTorn>>

\* A poll finds the socket writable; it stays so, as nothing clears the flag.
UdPoll ==
  /\ ~udReady /\ udReady' = TRUE
  /\ UNCHANGED <<udSet, udRing, udPacking, udPc, udDests, udTo, udNames, udRefused, udWire, udRecv,
                 udTorn>>

-----------------------------------------------------------------------------
(* The receiving engine: resumeRead.                                        *)

UdLose(d) ==
  /\ udLost < udSet.losses /\ udNet[d] # <<>>
  /\ udNet' = [udNet EXCEPT ![d] = Tail(@)] /\ udLost' = udLost + 1
  /\ UNCHANGED <<udSet, udRing, udPacking, udPc, udDests, udTo, udNames, udReady, udRefused,
                 udSent, udRecv, udTorn>>

UdSum(q) == FoldLeft(LAMBDA n, m : n + UdSize(m), 0, q)
UdFits(q) == {q[k] : k \in {j \in DOMAIN q : UdSum(SubSeq(q, 1, j)) <= udSet.mtu}}

\* recvfrom: one datagram, any of those that wait, cut at the receiver's mtu.
UdRead(d) ==
  /\ udBuf[d].msgs = <<>>
  /\ \E i \in DOMAIN udNet[d] :
       /\ udBuf' = [udBuf EXCEPT ![d] = [msgs |-> udNet[d][i],
                                         bytes |-> Min({UdSum(udNet[d][i]), udSet.mtu})]]
       /\ udWhole' = [udWhole EXCEPT ![d] = @ \cup UdFits(udNet[d][i])]
       /\ udNet' = [udNet EXCEPT ![d] = RemoveAt(@, i)]
  /\ UNCHANGED <<udSet, udRing, udPacking, udPc, udDests, udTo, udNames, udReady, udRefused,
                 udSent, udLost, udGot, udTaken, udSubs, udTorn>>

UdNoBuf == [msgs |-> <<>>, bytes |-> 0]
\* Mutant of UdRest: what follows an unwanted message is dropped.
UdRestWanted(d, n) == IF n \in udSubs[d] THEN Tail(udBuf[d].msgs) ELSE <<>>
UdRest(d, n) == Tail(udBuf[d].msgs)
UdEnough(d, n) == udBuf[d].bytes >= UdSize(n)

\* The next message of the datagram; put() waits for room in the output.
UdParse(d) ==
  /\ udBuf[d].msgs # <<>>
  /\ LET n == Head(udBuf[d].msgs) IN
     \/ /\ UdEnough(d, n)
        /\ n \in udSubs[d] => Len(udGot[d]) - udTaken[d] < udSet.room
        /\ udGot' = IF n \in udSubs[d] THEN [udGot EXCEPT ![d] = Append(@, n)] ELSE udGot
        /\ udBuf' = [udBuf EXCEPT ![d] =
                       IF UdRest(d, n) = <<>> THEN UdNoBuf
                       ELSE [msgs |-> UdRest(d, n), bytes |-> @.bytes - UdSize(n)]]
     \/ /\ ~UdEnough(d, n)
        /\ udBuf' = [udBuf EXCEPT ![d] = UdNoBuf] /\ UNCHANGED udGot
  /\ UNCHANGED <<udSet, udRing, udPacking, udPc, udDests, udTo, udNames, udReady, udRefused,
                 udWire, udTaken, udSubs, udWhole, udTorn>>

UdTake(d) ==
  /\ udTaken[d] < Len(udGot[d])
  /\ udTaken' = [udTaken EXCEPT ![d] = @ + 1]
  /\ UNCHANGED <<udSet, udRing, udPacking, udPc, udDests, udTo, udNames, udReady, udRefused,
                 udWire, udBuf, udGot, udSubs, udWhole, udTorn>>

UdSubscribe(d) ==
  /\ ~(udSet.late \subseteq udSubs[d])
  /\ udSubs' = [udSubs EXCEPT ![d] = @ \cup udSet.late]
  /\ UNCHANGED <<udSet, udRing, udPacking, udPc, udDests, udTo, udNames, udReady, udRefused,
                 udWire, udBuf, udGot, udTaken, udWhole, udTorn>>

-----------------------------------------------------------------------------
\* The constructors; every datagram is addressed to the first destination.
UdSenderInit ==
  /\ udTail = 0 /\ udFree = 0 /\ udSlot = [s \in 0..(UdCap - 1) |-> 0]
  /\ udPeeked = [begin |-> 0, it |-> 0, end |-> 0]
  /\ udMsgs = <<>> /\ udPkts = <<>> /\ udBytes = 0 /\ udRateOk = TRUE /\ udPc = "idle"
  /\ udDests = udSet.dests /\ udTo = 1 /\ udNames = [i \in 1..UdBatch |-> udSet.dests[1]]
  /\ udReady = udSet.ready /\ udRefused = 0 /\ udTorn = {}
UdReceiverInit ==
  /\ udGot = [d \in UdEndpoints |-> <<>>] /\ udTaken = [d \in UdEndpoints |-> 0]
  /\ udBuf = [d \in UdEndpoints |-> UdNoBuf]
  /\ udSubs = [d \in UdEndpoints |-> udSet.wanted] /\ udWhole = [d \in UdEndpoints |-> {}]
UdInit ==
  /\ udSet \in UdSettings /\ UdSenderInit /\ UdReceiverInit
  /\ udNet = [d \in UdEndpoints |-> <<>>] /\ udSent = udNet /\ udLost = 0

UdEngine == UdBegin \/ UdWaste \/ UdPeek \/ UdRefuse \/ UdPack \/ UdWrap \/ UdSend \/ UdSendEnds
UdReceiver(d) == UdRead(d) \/ UdParse(d)
UdNext ==
  \/ UdQueue \/ UdEngine \/ UdPoll
  \/ \E d \in UdEndpoints : UdAddDest(d) \/ UdLose(d) \/ UdReceiver(d) \/ UdTake(d) \/ UdSubscribe(d)

\* Both engines are rotated by their threads, the socket becomes writable, and
\* the application sends what it wants to send and takes what it gets.
UdFairness ==
  /\ WF_udVars(UdEngine) /\ WF_udVars(UdPoll) /\ WF_udVars(UdQueue)
  /\ \A d \in UdEndpoints : WF_udVars(UdReceiver(d)) /\ WF_udVars(UdTake(d))
UdSpec == UdInit /\ [][UdNext]_udVars /\ UdFairness

-----------------------------------------------------------------------------
\* Type correctness: the iovecs and datagrams stay within their arrays, datagrams
\* within the mtu, and the ring within its slots.
UdTypeOK ==
  /\ 0 <= udFree /\ udFree <= udTail /\ udTail - udFree <= UdCap
  /\ udPeeked.begin <= udPeeked.it /\ udPeeked.it <= udPeeked.end /\ udPeeked.end <= udTail
  /\ Len(udMsgs) <= UdBatch /\ Len(udPkts) <= UdBatch
  /\ \A i \in DOMAIN udPkts : udPkts[i][1] <= udPkts[i][2] /\ udPkts[i][2] <= Len(udMsgs)
  /\ udPc \in {"idle", "waste", "peek", "pack", "send"} /\ udBytes \in 0..UdMtu
  /\ \A d \in UdEndpoints : udBuf[d].bytes \in 0..udSet.mtu

\* No message was given back to the ring, and overwritten, while a datagram points to it:
\* possible only until the socket is first found writable (SendTransportEngine.hpp:249).
UdUntorn == udSet.ready \/ udTorn = {}

\* Nothing is overtaken, sent twice or left out: unless datagrams are lost, every
\* destination that was there from the start is sent exactly the messages queued, in
\* order, over all the rounds that the socket, the rater, a full batch or a new
\* destination breaks (SendTransportEngine.hpp:243-311).
UdInOrder ==
  (UdUntorn /\ udLost = 0) =>
    \A d \in ToSet(udSet.dests) : \A i \in DOMAIN udSent[d] : udSent[d][i] = i

\* Destinations get the same: at the end of a round none has been sent less than
\* another, though the addresses are shared by all the datagrams
\* (SendTransportEngine.hpp:286-299).
UdSameForAll ==
  (UdUntorn /\ udLost = 0 /\ udPc \in {"idle", "waste"}) =>
    \A d, e \in ToSet(udSet.dests) : udSent[d] = udSent[e]

\* A message cut off by a smaller mtu at the receiver is never delivered, nor one
\* of a type not subscribed (RecvTransportEngine.hpp:139-156).
UdOnlyWhole ==
  \A d \in UdEndpoints : ToSet(udGot[d]) \subseteq udWhole[d] \cap udSubs[d]

\* Whatever happens, the sender's ring is emptied in the end, so that nobody who
\* queues waits for ever.
UdDrains == udFree = UdN

\* A whole message of a subscribed type that arrived is delivered, whatever is
\* before it in its datagram.
UdDelivers ==
  \A d \in UdEndpoints : (udWhole[d] \cap udSet.wanted) \subseteq ToSet(udGot[d])

\* What the udpcast engine keeps true: datagrams hold whole messages, in order, the same
\* ones for every destination.
UdSafety == UdTypeOK /\ UdInOrder /\ UdSameForAll /\ UdOnlyWhole

\* Where queueing leads to in the end.
UdSettled == UdDrains /\ UdDelivers
=============================================================================
