------------------------------ MODULE MCQueues ------------------------------
(* Instances of MemRingBuffer, PartitionRing and BlockingContext for TLC, under  *)
(* the fairness of their threads.  A behaviour is one of the queue that "queue"   *)
(* names: the broadcast ring, the broadcast ring of an ipc Context with its       *)
(* purger, the partition ring, or the queues of a BlockingContext.  They have     *)
(* their variables in common; those a queue does not have stay UNUSED.            *)
EXTENDS Integers, TLC

CONSTANTS p1, p2, c1, c2

VARIABLES
  queue,
  \* senders and readers of all queues
  pc, cpc, cend, cpos,
  \* both rings
  toBeClaimedSeq, slotSeq, slotData, readSeq, pnext, pend, scan, cbegin,
  \* the broadcast ring
  find, readSeqLastPurge, purgePc, purgeAt, purgeSet, purgeFind, intact, last,
  \* the partition ring
  cmode, cmsg, thrown, times,
  \* BlockingContext
  serves, size, seq, store, outstanding, peeked, sent, pmode, pn, pdest, stopped, given, again,
  \* two of the three
  ccount

threadVars == <<queue, pc, cpc, cend, cpos>>
ringVars == <<toBeClaimedSeq, slotSeq, slotData, readSeq, pnext, pend, scan, cbegin>>
broadcastVars == <<find, readSeqLastPurge, purgePc, purgeAt, purgeSet, purgeFind, intact,
                   last>>
partitionVars == <<cmode, cmsg, thrown, times>>
blockingVars == <<serves, size, seq, store, outstanding, peeked, sent, pmode, pn, pdest, stopped,
                  given, again>>
vars == <<threadVars, ringVars, broadcastVars, partitionVars, blockingVars, ccount>>

Broadcast == INSTANCE MemRingBuffer WITH
  Producers <- {p1, p2}, PARALLEL_CONSUMER_COUNT <- 2, CAPACITY <- 2, SEQ_MAX <- 2000,
  MaxSeq <- 4, MaxBatch <- 2, MaxPeek <- 2, InitReaders <- {0, 1}, Joiners <- {},
  Modes <- {"claim"}, HasPurger <- FALSE

Purged == INSTANCE MemRingBuffer WITH
  Producers <- {p1}, PARALLEL_CONSUMER_COUNT <- 2, CAPACITY <- 2, SEQ_MAX <- 2000,
  MaxSeq <- 3, MaxBatch <- 1, MaxPeek <- 1, InitReaders <- {0, 1}, Joiners <- {},
  Modes <- {"claim"}, HasPurger <- TRUE

Partition == INSTANCE PartitionRing WITH
  Producers <- {p1, p2}, Consumers <- {c1, c2}, Started <- {{c1, c2}}, CAPACITY <- 2,
  MaxSeq <- 3, MaxBatch <- 2, MaxTryBatch <- 0, MaxPeek <- 2,
  ReadModes <- {"peek", "tryTake"}, ThrowOutcomes <- {}

\* Each client has a queue of its own, or the two share one.
Blocking == INSTANCE BlockingContext WITH
  Senders <- {p1, p2}, Clients <- {c1, c2}, Queues <- {1, 2},
  Deployments <- {(c1 :> 1) @@ (c2 :> 2), (c1 :> 1) @@ (c2 :> 1)},
  Routes <- {{1, 2}}, capacity <- 2, SIZE_MAX <- 15, MaxSeq <- 3, Lengths <- {2},
  Throwers <- {}, MayStop <- FALSE

UNUSED == "unused"

NoRing ==
  /\ toBeClaimedSeq = UNUSED /\ slotSeq = UNUSED /\ slotData = UNUSED /\ readSeq = UNUSED
  /\ pnext = UNUSED /\ pend = UNUSED /\ scan = UNUSED /\ cbegin = UNUSED
NoBroadcast ==
  /\ find = UNUSED /\ readSeqLastPurge = UNUSED /\ purgePc = UNUSED /\ purgeAt = UNUSED
  /\ purgeSet = UNUSED /\ purgeFind = UNUSED /\ intact = UNUSED /\ last = UNUSED
NoPartition == cmode = UNUSED /\ cmsg = UNUSED /\ thrown = UNUSED /\ times = UNUSED
NoBlocking ==
  /\ serves = UNUSED /\ size = UNUSED /\ seq = UNUSED /\ store = UNUSED
  /\ outstanding = UNUSED /\ peeked = UNUSED /\ sent = UNUSED /\ pmode = UNUSED
  /\ pn = UNUSED /\ pdest = UNUSED /\ stopped = UNUSED /\ given = UNUSED
  /\ again = UNUSED

Init ==
  \/ /\ queue = "broadcast" /\ Broadcast!Init
     /\ NoPartition /\ NoBlocking
  \/ /\ queue = "purged" /\ Purged!Init
     /\ NoPartition /\ NoBlocking
  \/ /\ queue = "partition" /\ Partition!Init
     /\ NoBroadcast /\ NoBlocking /\ ccount = UNUSED
  \/ /\ queue = "blocking" /\ Blocking!Init
     /\ NoRing /\ NoBroadcast /\ NoPartition

\* What a step of each queue leaves alone.
OfBroadcast == UNCHANGED <<queue, partitionVars, blockingVars>>
OfPartition == UNCHANGED <<queue, broadcastVars, blockingVars, ccount>>
OfBlocking == UNCHANGED <<queue, ringVars, broadcastVars, partitionVars>>

Next ==
  \/ queue = "broadcast" /\ Broadcast!Next /\ OfBroadcast
  \/ queue = "purged" /\ Purged!PurgedNext /\ OfBroadcast
  \/ queue = "partition" /\ Partition!Next /\ OfPartition
  \/ queue = "blocking" /\ Blocking!Next /\ OfBlocking

\* A sender, and a reader, of the queue there is.  Clients of a ring with a purger are
\* not obliged to go on.
Sending(p) ==
  \/ queue = "broadcast" /\ Broadcast!SendStep(p) /\ OfBroadcast
  \/ queue = "purged" /\ p = p1 /\ Purged!SendStep(p) /\ OfBroadcast
  \/ queue = "partition" /\ Partition!SendStep(p) /\ OfPartition
  \/ queue = "blocking" /\ Blocking!SendStep(p) /\ OfBlocking

Cursor(c) == IF c = c1 THEN 0 ELSE 1
Reading(c) ==
  \/ queue = "broadcast" /\ Broadcast!ConsumeStep(Cursor(c)) /\ OfBroadcast
  \/ queue = "partition" /\ Partition!ReadStep(c) /\ OfPartition
  \/ queue = "blocking" /\ Blocking!ClientStep(c) /\ OfBlocking

Spec ==
  /\ Init /\ [][Next]_vars
  /\ \A p \in {p1, p2} : WF_vars(Sending(p))
  /\ \A c \in {c1, c2} :
       /\ WF_vars(Reading(c))
       /\ SF_vars(queue = "partition" /\ Partition!Grab(c) /\ OfPartition)
  /\ WF_vars(queue = "purged" /\ Purged!purge /\ OfBroadcast)

-----------------------------------------------------------------------------
\* The ring with a purger is a broadcast log too: a client that was purged has left.
Log == INSTANCE BroadcastLog WITH
  Members <- {0, 1}, OFF <- -1, MaxSeq <- 3, NONE <- Purged!NONE,
  claimed <- IF queue = "purged" THEN toBeClaimedSeq ELSE 0,
  published <- IF queue # "purged" THEN {}
               ELSE {s \in 0 .. toBeClaimedSeq - 1 : s \notin Purged!Unpublished(p1)},
  next <- [c \in {0, 1} |-> IF queue # "purged" \/ ~Purged!Member(c) THEN -1
                            ELSE IF cpc[c] = "handle" THEN cpos[c] ELSE readSeq[c]],
  got <- [c \in {0, 1} |-> IF queue = "purged" /\ Purged!Member(c) THEN last[c]
                           ELSE Purged!NONE]

\* What threads that keep running lead to: everything sent is handled, every call of a
\* sender returns, and a purger gets a ring going again that a stuck client has filled,
\* without a message lost to or repeated for the clients it leaves alone.
QueuesGuarantees ==
  /\ Log!Spec
  /\ <>[](/\ queue = "broadcast" => Broadcast!Settled
          /\ queue = "purged" => Purged!StaysHealthy
          /\ queue = "partition" => Partition!Settled
          /\ queue = "blocking" => Blocking!Settled)
=============================================================================
