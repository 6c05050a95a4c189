--------------------------- MODULE PartitionRing ---------------------------
(***************************************************************************)
(* The partition ring of hmbdc/pattern/MemRingBuffer2.hpp (MemRingBuffer   *)
(* with no parallel consumers), the buffer of a partition Context and the  *)
(* consumer queues of the pools: every message goes to one of several      *)
(* consumers, which share a single cursor.                                 *)
(*                                                                         *)
(* A consumer moves the cursor over the messages it takes before it looks  *)
(* at them, so the cursor does not say when their slots are free again: a  *)
(* slot's header does.  It holds FREE, or the number of the message in it, *)
(* and a sender waits for both the cursor and the header.                  *)
(*                                                                         *)
(* One action is one access to shared memory (or one access together with  *)
(* the thread-local work around it); accesses are sequentially consistent. *)
(* A message is identified with the sequence number claimed for it.        *)
(***************************************************************************)
EXTENDS Integers

CONSTANTS
  Producers,      \* sender threads
  Consumers,      \* consumer threads
  Started,        \* the sets of consumers that may be running at first
  CAPACITY,       \* slots in the ring
  MaxSeq,         \* bound: sequence numbers ever claimed
  MaxBatch,       \* bound: n of claim(n), 0 when nobody calls it
  MaxTryBatch,    \* bound: n of tryClaim(n), 0 when nobody calls it
  MaxPeek,        \* maxPeekSize of peek (Client::maxBatchMessageCount)
  ReadModes,      \* reading calls in use: peek, take and tryTake
  ThrowOutcomes   \* what a client that throws does: leave, back

ASSUME PartitionAssumption ==
  /\ Started \subseteq SUBSET Consumers
  /\ CAPACITY \in Nat \ {0}
  /\ MaxSeq \in Nat
  /\ MaxBatch \in 0 .. CAPACITY
  /\ MaxTryBatch \in 0 .. CAPACITY
  /\ MaxPeek \in Nat \ {0}
  /\ ReadModes \subseteq {"peek", "take", "tryTake"}
  /\ ThrowOutcomes \subseteq {"leave", "back"}

VARIABLES
  toBeClaimedSeq,  \* next sequence number to hand out
  readSeq,         \* the shared cursor
  slotSeq,         \* header of each slot
  slotData,        \* the message bytes in each slot (TORN while written)
  pc,              \* what each sender is doing
  pnext, pend,     \* its claim: numbers pnext .. pend-1 are unpublished
  scan,            \* the next number whose slot it waits for
  cpc,             \* what each consumer thread is doing
  cmode,           \* the reading call it is in
  cbegin, cend,    \* the range it has found
  cpos,            \* its next message or slot
  cmsg,            \* what take or tryTake copied out
  times,           \* history: how often each message was handed to a client
  thrown           \* history: has a client thrown, alone or among running clients?

sendVars == <<pc, pnext, pend, scan>>
readVars == <<cpc, cmode, cbegin, cend, cpos, cmsg>>
vars == <<toBeClaimedSeq, readSeq, slotSeq, slotData, sendVars, readVars, times, thrown>>

FREE == -1      \* numeric_limits<Sequence>::max(), which nobody claims
TORN == -2      \* bytes of a slot somebody may be writing
NONE == -3      \* no message

Slots == 0 .. CAPACITY - 1
Idx(seq) == seq % CAPACITY          \* seq & MASK, CAPACITY a power of two

readyToWriteOver(seq) == slotSeq[Idx(seq)] = FREE

-----------------------------------------------------------------------------
(***************************************************************************)
(* Senders: put and claim(n), tryPut and tryClaim(n).                      *)
(***************************************************************************)
Claim(p) ==
  /\ pc[p] = "idle"
  /\ \E n \in 1 .. MaxBatch :
       /\ toBeClaimedSeq + n <= MaxSeq
       /\ pend' = [pend EXCEPT ![p] = toBeClaimedSeq + n]
       /\ toBeClaimedSeq' = toBeClaimedSeq + n
  /\ pnext' = [pnext EXCEPT ![p] = toBeClaimedSeq]
  /\ scan' = [scan EXCEPT ![p] = toBeClaimedSeq]
  /\ pc' = [pc EXCEPT ![p] = "room"]
  /\ UNCHANGED <<readSeq, slotSeq, slotData, readVars, times, thrown>>

\* Mutant of HasRoom: one slot too many.
HasRoomOneMore(p) == pend[p] <= CAPACITY + readSeq + 1

HasRoom(p) == pend[p] <= CAPACITY + readSeq

\* The cursor has passed the previous occupants of all claimed slots ...
Room(p) ==
  /\ pc[p] = "room"
  /\ HasRoom(p)
  /\ pc' = [pc EXCEPT ![p] = "ready"]
  /\ UNCHANGED <<toBeClaimedSeq, readSeq, slotSeq, slotData, pnext, pend, scan, readVars,
                 times, thrown>>

\* Mutant of Ready: the cursor alone decides.
ReadyByCursor(p) ==
  /\ pc[p] = "ready"
  /\ scan[p] < pend[p]
  /\ scan' = [scan EXCEPT ![p] = @ + 1]
  /\ UNCHANGED <<toBeClaimedSeq, readSeq, slotSeq, slotData, pc, pnext, pend, readVars,
                 times, thrown>>

\* ... and one after the other the slots are free.
Ready(p) ==
  /\ pc[p] = "ready"
  /\ scan[p] < pend[p]
  /\ readyToWriteOver(scan[p])
  /\ scan' = [scan EXCEPT ![p] = @ + 1]
  /\ UNCHANGED <<toBeClaimedSeq, readSeq, slotSeq, slotData, pc, pnext, pend, readVars,
                 times, thrown>>

\* From here on the sender may write to the slots it claimed at any moment.
StartWriting(p) ==
  /\ pc' = [pc EXCEPT ![p] = "fill"]
  /\ slotData' = [i \in Slots |->
       IF \E s \in pnext[p] .. pend[p] - 1 : Idx(s) = i THEN TORN ELSE slotData[i]]

Granted(p) ==
  /\ pc[p] = "ready"
  /\ scan[p] = pend[p]
  /\ StartWriting(p)
  /\ UNCHANGED <<toBeClaimedSeq, readSeq, slotSeq, pnext, pend, scan, readVars, times, thrown>>

TryLoad(p) ==
  /\ pc[p] = "idle"
  /\ \E n \in 1 .. MaxTryBatch :
       /\ toBeClaimedSeq + n <= MaxSeq
       /\ pend' = [pend EXCEPT ![p] = toBeClaimedSeq + n]
  /\ pnext' = [pnext EXCEPT ![p] = toBeClaimedSeq]
  /\ scan' = [scan EXCEPT ![p] = toBeClaimedSeq]
  /\ pc' = [pc EXCEPT ![p] = "tryRoom"]
  /\ UNCHANGED <<toBeClaimedSeq, readSeq, slotSeq, slotData, readVars, times, thrown>>

TryRoom(p) ==
  /\ pc[p] = "tryRoom"
  /\ HasRoom(p)
  /\ pc' = [pc EXCEPT ![p] = "tryReady"]
  /\ UNCHANGED <<toBeClaimedSeq, readSeq, slotSeq, slotData, pnext, pend, scan, readVars,
                 times, thrown>>

\* Mutant of TryReady: the cursor alone decides.
TryReadyByCursor(p) ==
  /\ pc[p] = "tryReady"
  /\ pc' = [pc EXCEPT ![p] = "cas"]
  /\ UNCHANGED <<toBeClaimedSeq, readSeq, slotSeq, slotData, pnext, pend, scan, readVars,
                 times, thrown>>

\* readyToWriteOver(seq, n) looks n times at the slot of seq.
TryReady(p) ==
  /\ pc[p] = "tryReady"
  /\ readyToWriteOver(pnext[p])
  /\ pc' = [pc EXCEPT ![p] = "cas"]
  /\ UNCHANGED <<toBeClaimedSeq, readSeq, slotSeq, slotData, pnext, pend, scan, readVars,
                 times, thrown>>

\* The call returns: its locals are gone.
Return(p) ==
  /\ pc' = [pc EXCEPT ![p] = "idle"]
  /\ pnext' = [pnext EXCEPT ![p] = 0]
  /\ pend' = [pend EXCEPT ![p] = 0]
  /\ scan' = [scan EXCEPT ![p] = 0]

\* tryPut returns false, tryClaim an empty iterator.
TryFull(p) ==
  /\ \/ pc[p] = "tryRoom" /\ ~HasRoom(p)
     \/ pc[p] = "tryReady" /\ ~readyToWriteOver(pnext[p])
  /\ Return(p)
  /\ UNCHANGED <<toBeClaimedSeq, readSeq, slotSeq, slotData, readVars, times, thrown>>

TryGranted(p) ==
  /\ pc[p] = "cas"
  /\ toBeClaimedSeq = pnext[p]
  /\ toBeClaimedSeq' = pend[p]
  /\ StartWriting(p)
  /\ UNCHANGED <<readSeq, slotSeq, pnext, pend, scan, readVars, times, thrown>>

\* compare_exchange_weak fails (it may do so spuriously): reload, try again.
TryReload(p) ==
  /\ pc[p] = "cas"
  /\ toBeClaimedSeq + (pend[p] - pnext[p]) <= MaxSeq
  /\ pnext' = [pnext EXCEPT ![p] = toBeClaimedSeq]
  /\ scan' = [scan EXCEPT ![p] = toBeClaimedSeq]
  /\ pend' = [pend EXCEPT ![p] = toBeClaimedSeq + (pend[p] - pnext[p])]
  /\ pc' = [pc EXCEPT ![p] = "tryRoom"]
  /\ UNCHANGED <<toBeClaimedSeq, readSeq, slotSeq, slotData, readVars, times, thrown>>

Fill(p) ==
  /\ pc[p] = "fill"
  /\ pc' = [pc EXCEPT ![p] = "commit"]
  /\ slotData' = [i \in Slots |->
       IF \E s \in pnext[p] .. pend[p] - 1 : Idx(s) = i
         THEN CHOOSE s \in pnext[p] .. pend[p] - 1 : Idx(s) = i
         ELSE slotData[i]]
  /\ UNCHANGED <<toBeClaimedSeq, readSeq, slotSeq, pnext, pend, scan, readVars, times, thrown>>

\* commit(from, n) publishes one slot after the other.
Commit(p) ==
  /\ pc[p] = "commit"
  /\ slotSeq' = [slotSeq EXCEPT ![Idx(pnext[p])] = pnext[p]]
  /\ \/ pnext[p] + 1 = pend[p] /\ Return(p)
     \/ /\ pnext[p] + 1 < pend[p]
        /\ pnext' = [pnext EXCEPT ![p] = @ + 1]
        /\ UNCHANGED <<pc, pend, scan>>
  /\ UNCHANGED <<toBeClaimedSeq, readSeq, slotData, readVars, times, thrown>>

SendStep(p) ==
  \/ Room(p) \/ Ready(p) \/ Granted(p)
  \/ TryRoom(p) \/ TryReady(p) \/ TryFull(p) \/ TryGranted(p) \/ TryReload(p)
  \/ Fill(p) \/ Commit(p)

-----------------------------------------------------------------------------
(***************************************************************************)
(* Consumers: peek, hand the messages to the client and wasteAfterPeek     *)
(* (runOnceImpl); or take and tryTake, which copy one message out.         *)
(***************************************************************************)
LoadCursor(c) ==
  /\ cpc' = [cpc EXCEPT ![c] = "look"]
  /\ cbegin' = [cbegin EXCEPT ![c] = readSeq]
  /\ cend' = [cend EXCEPT ![c] = readSeq]
  /\ UNCHANGED <<toBeClaimedSeq, readSeq, slotSeq, slotData, sendVars, cpos, cmsg, times, thrown>>

Read(c, mode) ==
  /\ cpc[c] = "idle"
  /\ mode \in ReadModes
  /\ cmode' = [cmode EXCEPT ![c] = mode]
  /\ LoadCursor(c)

Found(c) == slotSeq[Idx(cend[c])] = cend[c]

PeekMore(c) == Found(c) /\ cend[c] - cbegin[c] < MaxPeek

PeekNext(c) ==
  /\ cpc[c] = "look" /\ cmode[c] = "peek"
  /\ PeekMore(c)
  /\ cend' = [cend EXCEPT ![c] = @ + 1]
  /\ UNCHANGED <<toBeClaimedSeq, readSeq, slotSeq, slotData, sendVars, cpc, cmode, cbegin,
                 cpos, cmsg, times, thrown>>

PeekEnd(c) ==
  /\ cpc[c] = "look" /\ cmode[c] = "peek"
  /\ ~PeekMore(c)
  /\ cpc' = [cpc EXCEPT ![c] = "cas"]
  /\ UNCHANGED <<toBeClaimedSeq, readSeq, slotSeq, slotData, sendVars, cmode, cbegin, cend,
                 cpos, cmsg, times, thrown>>

\* take, tryTake: copy the message out before anybody else is kept from it.
CopyOut(c) ==
  /\ cpc[c] = "look" /\ cmode[c] \in {"take", "tryTake"}
  /\ Found(c)
  /\ cmsg' = [cmsg EXCEPT ![c] = slotData[Idx(cend[c])]]
  /\ cend' = [cend EXCEPT ![c] = @ + 1]
  /\ cpc' = [cpc EXCEPT ![c] = "cas"]
  /\ UNCHANGED <<toBeClaimedSeq, readSeq, slotSeq, slotData, sendVars, cmode, cbegin, cpos,
                 times, thrown>>

\* begin, end, count and the copy go out of scope.
Forget(c) ==
  /\ cmode' = [cmode EXCEPT ![c] = "none"]
  /\ cbegin' = [cbegin EXCEPT ![c] = 0]
  /\ cend' = [cend EXCEPT ![c] = 0]
  /\ cpos' = [cpos EXCEPT ![c] = 0]
  /\ cmsg' = [cmsg EXCEPT ![c] = NONE]

TakeNothing(c) ==
  /\ cpc[c] = "look" /\ cmode[c] = "tryTake"
  /\ ~Found(c)
  /\ cpc' = [cpc EXCEPT ![c] = "idle"]
  /\ Forget(c)
  /\ UNCHANGED <<toBeClaimedSeq, readSeq, slotSeq, slotData, sendVars, times, thrown>>

\* A client is given message m (a torn one counts as none).
Given(m) ==
  times' = IF m \in DOMAIN times THEN [times EXCEPT ![m] = @ + 1] ELSE times

\* Mutant of Grab: a plain store in place of the compare-and-swap.
GrabStore(c) ==
  /\ cpc[c] = "cas"
  /\ readSeq' = cend[c]
  /\ cpos' = [cpos EXCEPT ![c] = cbegin[c]]
  /\ \/ /\ cmode[c] = "peek"
        /\ cpc' = [cpc EXCEPT ![c] = "handle"]
        /\ UNCHANGED times
     \/ /\ cmode[c] # "peek"
        /\ cpc' = [cpc EXCEPT ![c] = "waste"]
        /\ Given(cmsg[c])
  /\ UNCHANGED <<toBeClaimedSeq, slotSeq, slotData, sendVars, cmode, cbegin, cend, cmsg,
                 thrown>>

\* compare_exchange of the cursor succeeds: the range is this consumer's.
Grab(c) ==
  /\ cpc[c] = "cas"
  /\ readSeq = cbegin[c]
  /\ readSeq' = cend[c]
  /\ cpos' = [cpos EXCEPT ![c] = cbegin[c]]
  /\ \/ /\ cmode[c] = "peek"
        /\ cpc' = [cpc EXCEPT ![c] = "handle"]
        /\ UNCHANGED times
     \/ /\ cmode[c] # "peek"
        /\ cpc' = [cpc EXCEPT ![c] = "waste"]
        /\ Given(cmsg[c])
  /\ UNCHANGED <<toBeClaimedSeq, slotSeq, slotData, sendVars, cmode, cbegin, cend, cmsg,
                 thrown>>

\* It fails (it may do so spuriously): load the cursor again.
GrabFailed(c) ==
  /\ cpc[c] = "cas"
  /\ LoadCursor(c)
  /\ UNCHANGED cmode

Handle(c) ==
  /\ cpc[c] = "handle"
  /\ cpos[c] < cend[c]
  /\ Given(slotData[Idx(cpos[c])])
  /\ cpos' = [cpos EXCEPT ![c] = @ + 1]
  /\ UNCHANGED <<toBeClaimedSeq, readSeq, slotSeq, slotData, sendVars, cpc, cmode, cbegin,
                 cend, cmsg, thrown>>

Handled(c) ==
  /\ cpc[c] = "handle"
  /\ cpos[c] = cend[c]
  /\ cpc' = [cpc EXCEPT ![c] = "waste"]
  /\ cpos' = [cpos EXCEPT ![c] = cbegin[c]]
  /\ UNCHANGED <<toBeClaimedSeq, readSeq, slotSeq, slotData, sendVars, cmode, cbegin, cend,
                 cmsg, times, thrown>>

\* Mutant of markAsToWriteOver: ++it in place of it++.
WasteNext(c) ==
  /\ cpc[c] = "waste"
  /\ cpos[c] < cend[c]
  /\ slotSeq' = [slotSeq EXCEPT ![Idx(cpos[c] + 1)] = FREE]
  /\ cpos' = [cpos EXCEPT ![c] = @ + 1]
  /\ UNCHANGED <<toBeClaimedSeq, readSeq, slotData, sendVars, cpc, cmode, cbegin, cend, cmsg,
                 times, thrown>>

\* wasteAfterPeek, and the end of take: free the slots one after the other.
markAsToWriteOver(c) ==
  /\ cpc[c] = "waste"
  /\ cpos[c] < cend[c]
  /\ slotSeq' = [slotSeq EXCEPT ![Idx(cpos[c])] = FREE]
  /\ cpos' = [cpos EXCEPT ![c] = @ + 1]
  /\ UNCHANGED <<toBeClaimedSeq, readSeq, slotData, sendVars, cpc, cmode, cbegin, cend, cmsg,
                 times, thrown>>

Wasted(c) ==
  /\ cpc[c] = "waste"
  /\ cpos[c] = cend[c]
  /\ cpc' = [cpc EXCEPT ![c] = "idle"]
  /\ Forget(c)
  /\ UNCHANGED <<toBeClaimedSeq, readSeq, slotSeq, slotData, sendVars, times, thrown>>

NoteThrow(c) ==
  thrown' = IF thrown # "among" /\ \A d \in Consumers \ {c} : cpc[d] = "off"
              THEN "alone" ELSE "among"

\* A callback throws after it was given a message.  The client is dropped, and
\* its thread ends with reset(); or droppedCb puts it back in its loop.
Throw(c) ==
  /\ cpc[c] = "handle"
  /\ cpos[c] > cbegin[c]
  /\ \/ "leave" \in ThrowOutcomes /\ cpc' = [cpc EXCEPT ![c] = "reset"]
     \/ "back" \in ThrowOutcomes /\ cpc' = [cpc EXCEPT ![c] = "idle"]
  /\ Forget(c)
  /\ NoteThrow(c)
  /\ UNCHANGED <<toBeClaimedSeq, readSeq, slotSeq, slotData, sendVars, times>>

\* reset() frees every slot ...
ResetSlot(c) ==
  /\ cpc[c] = "reset"
  /\ cpos[c] \in Slots
  /\ slotSeq' = [slotSeq EXCEPT ![cpos[c]] = FREE]
  /\ cpos' = [cpos EXCEPT ![c] = @ + 1]
  /\ UNCHANGED <<toBeClaimedSeq, readSeq, slotData, sendVars, cpc, cmode, cbegin, cend, cmsg,
                 times, thrown>>

\* ... and moves the cursor to the next number to be claimed.
ResetLoad(c) ==
  /\ cpc[c] = "reset"
  /\ cpos[c] = CAPACITY
  /\ cbegin' = [cbegin EXCEPT ![c] = toBeClaimedSeq]
  /\ cpc' = [cpc EXCEPT ![c] = "store"]
  /\ UNCHANGED <<toBeClaimedSeq, readSeq, slotSeq, slotData, sendVars, cmode, cend, cpos,
                 cmsg, times, thrown>>

ResetStore(c) ==
  /\ cpc[c] = "store"
  /\ readSeq' = cbegin[c]
  /\ cpc' = [cpc EXCEPT ![c] = "off"]
  /\ Forget(c)
  /\ UNCHANGED <<toBeClaimedSeq, slotSeq, slotData, sendVars, times, thrown>>

\* Another client is started.
Start(c) ==
  /\ cpc[c] = "off"
  /\ cpc' = [cpc EXCEPT ![c] = "idle"]
  /\ thrown' = IF \E d \in Consumers : cpc[d] \in {"reset", "store"}
                 THEN "among" ELSE thrown
  /\ UNCHANGED <<toBeClaimedSeq, readSeq, slotSeq, slotData, sendVars, cmode, cbegin, cend,
                 cpos, cmsg, times>>

ReadStep(c) ==
  \/ \E mode \in ReadModes : Read(c, mode)
  \/ PeekNext(c) \/ PeekEnd(c) \/ CopyOut(c) \/ TakeNothing(c) \/ Grab(c) \/ GrabFailed(c)
  \/ Handle(c) \/ Handled(c) \/ markAsToWriteOver(c) \/ Wasted(c)
  \/ ResetSlot(c) \/ ResetLoad(c) \/ ResetStore(c)

-----------------------------------------------------------------------------
Init ==
  /\ toBeClaimedSeq = 0
  /\ readSeq = 0
  /\ slotSeq = [i \in Slots |-> FREE]
  /\ slotData = [i \in Slots |-> NONE]
  /\ pc = [p \in Producers |-> "idle"]
  /\ pnext = [p \in Producers |-> 0]
  /\ pend = [p \in Producers |-> 0]
  /\ scan = [p \in Producers |-> 0]
  /\ \E S \in Started : cpc = [c \in Consumers |-> IF c \in S THEN "idle" ELSE "off"]
  /\ cmode = [c \in Consumers |-> "none"]
  /\ cbegin = [c \in Consumers |-> 0]
  /\ cend = [c \in Consumers |-> 0]
  /\ cpos = [c \in Consumers |-> 0]
  /\ cmsg = [c \in Consumers |-> NONE]
  /\ times = [s \in 0 .. MaxSeq - 1 |-> 0]
  /\ thrown = "never"

Next ==
  \/ \E p \in Producers : Claim(p) \/ TryLoad(p) \/ SendStep(p)
  \/ \E c \in Consumers : ReadStep(c) \/ Throw(c) \/ Start(c)

Spec == Init /\ [][Next]_vars

\* Threads keep running, and a compare-and-swap that is tried again and again while
\* nobody interferes succeeds; nobody is obliged to send, to throw or to start.
FairSpec ==
  /\ Spec
  /\ \A p \in Producers : WF_vars(SendStep(p))
  /\ \A c \in Consumers : WF_vars(ReadStep(c)) /\ SF_vars(Grab(c))

-----------------------------------------------------------------------------
Writing == {"fill", "commit"}

Waiting == {"room", "ready"}

\* What p has claimed and not published.
Unpublished(p) == IF pc[p] \in Waiting \cup Writing THEN pnext[p] .. pend[p] - 1 ELSE {}

\* What c has grabbed and not yet handed to its client.
Held(c) == IF cpc[c] = "handle" THEN cpos[c] .. cend[c] - 1 ELSE {}

\* The slots c works on between its peek and its wasteAfterPeek.
Busy(c) == CASE cpc[c] = "handle" -> cbegin[c] .. cend[c] - 1
             [] cpc[c] = "waste" -> cpos[c] .. cend[c] - 1
             [] OTHER -> {}

RingTypes ==
  /\ toBeClaimedSeq \in 0 .. MaxSeq
  /\ readSeq \in 0 .. MaxSeq
  /\ slotSeq \in [Slots -> 0 .. MaxSeq - 1 \cup {FREE}]
  /\ slotData \in [Slots -> 0 .. MaxSeq - 1 \cup {TORN, NONE}]
  /\ times \in [0 .. MaxSeq - 1 -> Nat]
  /\ thrown \in {"never", "alone", "among"}

SenderTypes ==
  /\ pc \in [Producers -> {"idle", "tryRoom", "tryReady", "cas"} \cup Waiting \cup Writing]
  /\ pnext \in [Producers -> 0 .. MaxSeq]
  /\ pend \in [Producers -> 0 .. MaxSeq]
  /\ scan \in [Producers -> 0 .. MaxSeq]

ReaderTypes ==
  /\ cpc \in [Consumers ->
                {"idle", "look", "cas", "handle", "waste", "reset", "store", "off"}]
  /\ cmode \in [Consumers -> ReadModes \cup {"none"}]
  /\ cbegin \in [Consumers -> 0 .. MaxSeq]
  /\ cend \in [Consumers -> 0 .. MaxSeq]
  /\ cpos \in [Consumers -> 0 .. MaxSeq + CAPACITY]
  /\ cmsg \in [Consumers -> 0 .. MaxSeq - 1 \cup {TORN, NONE}]

\* Every variable has its type.
TypeOK == RingTypes /\ SenderTypes /\ ReaderTypes

\* As long as no client throws no message gets lost: whatever was claimed is still its
\* sender's, or whole in its slot and ahead of the cursor or in the hands of one
\* consumer, or was given to a client (claim(n), tryClaim(n), commit, peek, take,
\* wasteAfterPeek).
NothingLost ==
  thrown = "never" => \A s \in 0 .. toBeClaimedSeq - 1 :
    \/ \E p \in Producers : s \in Unpublished(p)
    \/ /\ slotSeq[Idx(s)] = s /\ slotData[Idx(s)] = s
       /\ s >= readSeq \/ \E c \in Consumers : s \in Held(c)
    \/ times[s] > 0

\* "Each message is sent to one and only one of the clients": none is given twice, to
\* the same or to two consumers racing for the cursor.
OneAndOnlyOne == \A s \in 0 .. MaxSeq - 1 : times[s] <= 1

\* The same as long as no ring is reset while other consumers run (for that see
\* OneAndOnlyOne): a lone client may throw and stay, or leave with a reset of the ring
\* and be followed by another, and no message is given twice.
NoneTwice == thrown # "among" => OneAndOnlyOne

\* No sender writes to a slot that another sender writes to or that a consumer has
\* not given back yet, as long as no client throws and resets the ring.
NoDataRace ==
  thrown = "never" => \A p \in Producers : pc[p] \in Writing =>
    \A s \in pnext[p] .. pend[p] - 1 :
      /\ \A c \in Consumers, t \in 0 .. MaxSeq - 1 : t \in Busy(c) => Idx(s) # Idx(t)
      /\ \A q \in Producers \ {p}, t \in 0 .. MaxSeq - 1 :
           pc[q] \in Writing /\ t \in pnext[q] .. pend[q] - 1 => Idx(s) # Idx(t)

\* What the ring keeps for its senders and readers: no header, number or copy that is
\* out of range or torn, and no two threads in one slot (peek, readyToWriteOver).
SlotsExclusive == TypeOK /\ NoDataRace

-----------------------------------------------------------------------------
(***************************************************************************)
(* The inductive invariant behind NothingLost, NoneTwice and NoDataRace.   *)
(* It holds as long as no ring is reset under running consumers, for       *)
(* senders that take one message at a time with tryPut and tryClaim.       *)
(***************************************************************************)
Trying == {"tryRoom", "tryReady", "cas"}
Claimed(p) == pc[p] \in Waiting \cup Writing
Resetting(c) == cpc[c] \in {"reset", "store"}

\* A claim is a non-empty range that fits in the ring, no number is claimed twice and
\* those of a try are only about to be taken.
ClaimInv ==
  /\ \A p \in Producers :
       /\ pc[p] # "idle" => pnext[p] < pend[p] /\ pend[p] <= pnext[p] + CAPACITY
       /\ pc[p] \in Trying => pnext[p] <= toBeClaimedSeq /\ pend[p] - pnext[p] <= MaxTryBatch
       /\ Claimed(p) => pend[p] <= toBeClaimedSeq
       /\ pc[p] = "room" => scan[p] = pnext[p]
       /\ pc[p] = "ready" => pnext[p] <= scan[p] /\ scan[p] <= pend[p]
  /\ \A p, q \in Producers : p # q /\ Claimed(p) /\ Claimed(q) =>
       pend[p] <= pnext[q] \/ pend[q] <= pnext[p]

\* Whoever resets the ring is alone.
ResetInv ==
  /\ readSeq <= toBeClaimedSeq
  /\ \A c \in Consumers : Resetting(c) =>
       /\ thrown # "never"
       /\ \A d \in Consumers \ {c} : cpc[d] = "off"
       /\ cpc[c] = "store" => readSeq <= cbegin[c] /\ cbegin[c] <= toBeClaimedSeq

\* A consumer may still come to read number s: no reset under way skips it.
Live(s) ==
  /\ readSeq <= s
  /\ \A c \in Consumers :
       /\ cpc[c] = "reset" => toBeClaimedSeq <= s
       /\ cpc[c] = "store" => cbegin[c] <= s

\* s is published and ahead of the cursor.
Standing(s) == s < toBeClaimedSeq /\ Live(s) /\ \A p \in Producers : s \notin Unpublished(p)

\* The numbers whose slots p has found free.
Promised(p) ==
  CASE pc[p] = "ready" -> pnext[p] .. scan[p] - 1
    [] pc[p] = "cas" /\ toBeClaimedSeq = pnext[p] -> {pnext[p]}
    [] pc[p] \in Writing -> pnext[p] .. pend[p] - 1
    [] OTHER -> {}

\* A header holds a number of its own slot that was published.
HeaderInv ==
  \A i \in Slots : slotSeq[i] # FREE =>
    /\ Idx(slotSeq[i]) = i
    /\ slotSeq[i] < toBeClaimedSeq
    /\ \A p \in Producers : slotSeq[i] \notin Unpublished(p)

\* A reset skips a claim as a whole or not at all; what stands is within one lap of the
\* cursor, as is a claim that found room, and its slot is not free.
StandInv ==
  /\ \A p \in Producers :
       /\ \A s, t \in Unpublished(p) : Live(s) => Live(t)
       /\ pc[p] \in {"ready", "tryReady", "cas"} \cup Writing => HasRoom(p)
  /\ \A s \in 0 .. MaxSeq - 1 : Standing(s) =>
       s < readSeq + CAPACITY /\ slotSeq[Idx(s)] # FREE

\* The slots that are promised, stand or are busy are different slots.
BusyInv ==
  \A c \in Consumers : \A t \in Busy(c) :
    /\ t < readSeq
    /\ slotSeq[Idx(t)] # FREE
    /\ \A d \in Consumers : \A u \in Busy(d) : (c = d /\ t = u) \/ Idx(u) # Idx(t)
    /\ \A s \in 0 .. MaxSeq - 1 : Standing(s) => Idx(s) # Idx(t)
    /\ \A p \in Producers : \A s \in Promised(p) : Live(s) => Idx(s) # Idx(t)

\* What a consumer has found stands as long as the cursor is where it read it.
RangeInv ==
  \A c \in Consumers :
    /\ cpc[c] \in {"look", "cas"} =>
         /\ cmode[c] \in ReadModes
         /\ cbegin[c] <= readSeq /\ cbegin[c] <= cend[c]
         /\ cbegin[c] = readSeq => \A t \in cbegin[c] .. cend[c] - 1 : Standing(t)
         /\ cpc[c] = "look" /\ cmode[c] # "peek" => cend[c] = cbegin[c]
         /\ cpc[c] = "cas" /\ cmode[c] # "peek" => cend[c] = cbegin[c] + 1
    /\ cpc[c] \in {"handle", "waste"} => cbegin[c] <= cpos[c] /\ cpos[c] <= cend[c]

\* The message in a slot was not given to a client yet.
Unspent(m) == m \in DOMAIN times => times[m] = 0

\* Nothing has been made of number s yet.
Unwritten(s) ==
  /\ times[s] = 0
  /\ \A i \in Slots : slotData[i] # s
  /\ \A c \in Consumers : cmsg[c] # s

\* What may still be read is unspent, whichever sender wrote it.
DataInv ==
  /\ \A i \in Slots : slotData[i] \in Nat => Idx(slotData[i]) = i
  /\ \A s \in 0 .. MaxSeq - 1 :
       /\ times[s] <= 1
       /\ toBeClaimedSeq <= s => Unwritten(s)
       /\ Standing(s) => Unspent(slotData[Idx(s)])
  /\ \A p \in Producers : \A s \in Unpublished(p) :
       /\ pc[p] # "commit" => Unwritten(s)
       /\ pc[p] = "commit" /\ Live(s) => Unspent(slotData[Idx(s)])
  /\ \A c \in Consumers :
       /\ \A s \in Held(c) : Unspent(slotData[Idx(s)])
       /\ cpc[c] = "cas" /\ cmode[c] # "peek" /\ cbegin[c] = readSeq =>
            Unspent(cmsg[c]) /\ (cmsg[c] \in Nat => Idx(cmsg[c]) = Idx(cbegin[c]))

\* As long as no client throws, what was published is whole and was given or is held.
WholeInv ==
  /\ \A p \in Producers : Claimed(p) =>
       /\ readSeq <= pnext[p]
       /\ pc[p] = "commit" => \A s \in pnext[p] .. pend[p] - 1 : slotData[Idx(s)] = s
  /\ \A s \in 0 .. MaxSeq - 1 :
       /\ Standing(s) => slotSeq[Idx(s)] = s /\ slotData[Idx(s)] = s
       /\ s < readSeq => times[s] > 0 \/ \E c \in Consumers : s \in Held(c)
  /\ \A c \in Consumers :
       /\ \A s \in Held(c) : slotSeq[Idx(s)] = s /\ slotData[Idx(s)] = s
       /\ cpc[c] = "cas" /\ cmode[c] # "peek" /\ cbegin[c] = readSeq => cmsg[c] = cbegin[c]

CoreInv == ResetInv /\ HeaderInv /\ StandInv /\ BusyInv /\ RangeInv /\ DataInv

PartInv ==
  /\ ClaimInv
  /\ thrown # "among" => CoreInv
  /\ thrown = "never" => WholeInv

-----------------------------------------------------------------------------
\* Every message claimed is in the end given to a client.
AllHandled == \A s \in 0 .. toBeClaimedSeq - 1 : times[s] > 0

\* A sender in put or claim(n) is given its slots.
AllGranted == \A p \in Producers : pc[p] \notin Waiting

\* Where senders and consumers that keep running lead to in the end.
Settled == AllHandled /\ AllGranted
=============================================================================
