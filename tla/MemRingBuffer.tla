--------------------------- MODULE MemRingBuffer ---------------------------
(***************************************************************************)
(* The broadcast ring of hmbdc/pattern/MemRingBuffer.hpp: any number of    *)
(* sender threads claim sequence numbers from one shared counter, fill the *)
(* slots they claimed and publish each slot by storing its sequence number *)
(* in the slot's header; every parallel consumer reads every message and   *)
(* keeps a cursor of its own.  There is no lock.  A sender may reuse a     *)
(* slot once the slowest cursor has moved past it, and a cursor can be     *)
(* parked at READ_SEQ_MAX (markDead) so that nobody waits for it.          *)
(*                                                                         *)
(* One action is one access to shared memory (or one access together with  *)
(* the thread-local work around it); accesses are sequentially consistent. *)
(* A message is identified with the sequence number claimed for it.        *)
(***************************************************************************)
EXTENDS Integers, FiniteSets

CONSTANTS
  Producers,                \* sender threads
  PARALLEL_CONSUMER_COUNT,  \* number of read cursors
  CAPACITY,                 \* slots in the ring
  SEQ_MAX,                  \* numeric_limits<Sequence>::max()
  MaxSeq,                   \* bound: sequence numbers ever claimed
  MaxBatch,                 \* bound: n of claim(n), tryClaim(n)
  MaxPeek,                  \* maxPeekSize of peek (Client::maxBatchMessageCount)
  InitReaders,              \* cursors in use before the first claim
  Joiners,                  \* cursors that clients started later may reset
  Modes,                    \* sending calls in use: claim, try and kill
  HasPurger                 \* does the ipc creator run a StuckClientPurger?

Consumers == 0 .. PARALLEL_CONSUMER_COUNT - 1
Slots == 0 .. CAPACITY - 1

\* 1000 "is a safe number yet small for how many threads implement a consumer"
READ_SEQ_MAX == SEQ_MAX - CAPACITY - 1000

ASSUME RingAssumption ==
  /\ PARALLEL_CONSUMER_COUNT \in Nat \ {0}
  /\ CAPACITY \in Nat \ {0}
  /\ SEQ_MAX \in Nat
  /\ MaxSeq \in Nat
  /\ MaxSeq + CAPACITY < READ_SEQ_MAX
  /\ MaxBatch \in 1 .. CAPACITY
  /\ MaxPeek \in Nat \ {0}
  /\ InitReaders \subseteq Consumers
  /\ Joiners \subseteq Consumers
  /\ Modes \subseteq {"claim", "try", "kill"}
  /\ HasPurger \in BOOLEAN

VARIABLES
  toBeClaimedSeq,    \* next sequence number to hand out
  slotSeq,           \* the sequence number in each slot's header
  slotData,          \* the message bytes in each slot (TORN while written)
  readSeq,           \* the cursors
  readSeqLastPurge,  \* the cursors as the last purge() saw them
  pc,                \* what each sender is doing
  pnext, pend,       \* its claim: numbers pnext .. pend-1 are unpublished
  scan,              \* cursors it has compared with
  find,              \* its call of findSlowestReader
  cpc,               \* what the thread behind each cursor is doing
  cbegin, cend,      \* the range its peek returned (begin, end)
  cpos,              \* the next message of that range to hand to the client
  ccount,            \* the count its peek returned
  purgePc,           \* purge(): visiting a cursor, or in findSlowestReader
  purgeAt, purgeSet, \* the cursor it visits next, bits set in res
  purgeFind,         \* its call of findSlowestReader
  intact,            \* history: see the section on intact cursors
  last               \* history: last message handed to each client

ringVars == <<toBeClaimedSeq, slotSeq, slotData>>
prodVars == <<pc, pnext, pend, scan, find>>
consVars == <<cpc, cbegin, cend, cpos, ccount, last>>
purgeVars == <<readSeqLastPurge, purgePc, purgeAt, purgeSet, purgeFind>>
vars == <<ringVars, readSeq, prodVars, consVars, purgeVars, intact>>

TORN == -1      \* bytes of a slot somebody may be writing
NONE == -2      \* no message yet

Idx(seq) == seq % CAPACITY          \* seq & MASK, CAPACITY a power of two

\* Mutant of Wrap: the count of peek is kept in a wide signed integer.
WrapSigned(x) == x

\* Unsigned wrap-around of one addition or subtraction of sequence numbers.
Wrap(x) == IF x < 0 THEN x + SEQ_MAX + 1
           ELSE IF x > SEQ_MAX THEN x - SEQ_MAX - 1 ELSE x

\* findSlowestReader: min_element reads the cursors one by one and keeps the first
\* of the smallest it has read, cursor "at" with the value "seq" it had then.
Finder == [next : 0 .. PARALLEL_CONSUMER_COUNT, at : Consumers, seq : 0 .. SEQ_MAX]

FindStart == [next |-> 0, at |-> 0, seq |-> SEQ_MAX]

findNext(f) ==
  IF readSeq[f.next] < f.seq
    THEN [next |-> f.next + 1, at |-> f.next, seq |-> readSeq[f.next]]
    ELSE [f EXCEPT !.next = @ + 1]

isFull == \E c \in Consumers : toBeClaimedSeq >= CAPACITY + readSeq[c]

Scanning == {"claim", "try", "kill"}
Writing == {"fill", "commit"}

\* p holds sequence numbers that it has not published yet.
InFlight(p) == pc[p] \in {"claim", "kill", "slay", "fill", "commit"}

-----------------------------------------------------------------------------
(***************************************************************************)
(* Senders.  put and claim(n) take their numbers first and then wait;      *)
(* tryPut and tryClaim(n) check first and then compare-and-swap; killPut   *)
(* and killClaim(n) mark the slowest cursors dead instead of waiting.      *)
(***************************************************************************)
FetchAdd(p, n, mode) ==
  /\ pc[p] = "idle"
  /\ toBeClaimedSeq + n <= MaxSeq
  /\ pc' = [pc EXCEPT ![p] = mode]
  /\ pnext' = [pnext EXCEPT ![p] = toBeClaimedSeq]
  /\ pend' = [pend EXCEPT ![p] = toBeClaimedSeq + n]
  /\ scan' = [scan EXCEPT ![p] = 0]
  /\ toBeClaimedSeq' = toBeClaimedSeq + n
  /\ UNCHANGED <<slotSeq, slotData, readSeq, find, consVars, purgeVars, intact>>

Claim(p, n) == "claim" \in Modes /\ FetchAdd(p, n, "claim")
KillClaim(p, n) == "kill" \in Modes /\ FetchAdd(p, n, "kill")

\* tryPut, tryClaim: read the counter without taking anything.
TryLoad(p, n) ==
  /\ "try" \in Modes
  /\ pc[p] = "idle"
  /\ toBeClaimedSeq + n <= MaxSeq
  /\ pc' = [pc EXCEPT ![p] = "try"]
  /\ pnext' = [pnext EXCEPT ![p] = toBeClaimedSeq]
  /\ pend' = [pend EXCEPT ![p] = toBeClaimedSeq + n]
  /\ scan' = [scan EXCEPT ![p] = 0]
  /\ UNCHANGED <<ringVars, readSeq, find, consVars, purgeVars, intact>>

\* Mutant of HasRoom: there is room for the first message of a batch.
HasRoomForFirst(p, c) == pnext[p] < CAPACITY + readSeq[c]

\* readSeqLow() reads the cursors one by one, and the condition on their
\* minimum holds exactly when it holds of each value read.
HasRoom(p, c) == pend[p] <= CAPACITY + readSeq[c]

ScanPass(p) ==
  /\ pc[p] \in Scanning
  /\ scan[p] \in Consumers
  /\ HasRoom(p, scan[p])
  /\ scan' = [scan EXCEPT ![p] = @ + 1]
  /\ UNCHANGED <<ringVars, readSeq, pc, pnext, pend, find, consVars, purgeVars, intact>>

\* put, claim: yield and compute the minimum again.
ClaimRetry(p) ==
  /\ pc[p] = "claim"
  /\ scan[p] \in Consumers
  /\ ~HasRoom(p, scan[p])
  /\ scan' = [scan EXCEPT ![p] = 0]
  /\ UNCHANGED <<ringVars, readSeq, pc, pnext, pend, find, consVars, purgeVars, intact>>

\* The call returns: its locals are gone.
Return(p) ==
  /\ pc' = [pc EXCEPT ![p] = "idle"]
  /\ pnext' = [pnext EXCEPT ![p] = 0]
  /\ pend' = [pend EXCEPT ![p] = 0]
  /\ scan' = [scan EXCEPT ![p] = 0]

\* tryPut returns false, tryClaim an empty iterator.
TryFull(p) ==
  /\ pc[p] = "try"
  /\ scan[p] \in Consumers
  /\ ~HasRoom(p, scan[p])
  /\ Return(p)
  /\ UNCHANGED <<ringVars, readSeq, find, consVars, purgeVars, intact>>

\* killPut, killClaim: the ring is full, so findSlowestReader is called.
KillFind(p) ==
  /\ pc[p] = "kill"
  /\ scan[p] \in Consumers
  /\ ~HasRoom(p, scan[p])
  /\ pc' = [pc EXCEPT ![p] = "slay"]
  /\ scan' = [scan EXCEPT ![p] = 0]
  /\ UNCHANGED <<ringVars, readSeq, pnext, pend, find, consVars, purgeVars, intact>>

KillCompare(p) ==
  /\ pc[p] = "slay"
  /\ find[p].next \in Consumers
  /\ find' = [find EXCEPT ![p] = findNext(@)]
  /\ UNCHANGED <<ringVars, readSeq, pc, pnext, pend, scan, consVars, purgeVars, intact>>

markDead(c) ==
  /\ readSeq' = [readSeq EXCEPT ![c] = READ_SEQ_MAX]
  /\ intact' = [intact EXCEPT ![c] = FALSE]

\* Mutant of Slay: an if where killClaim has a while.
SlayOnce(p) ==
  /\ pc[p] = "slay"
  /\ find[p].next = PARALLEL_CONSUMER_COUNT
  /\ markDead(find[p].at)
  /\ pc' = [pc EXCEPT ![p] = "kill"]
  /\ scan' = [scan EXCEPT ![p] = PARALLEL_CONSUMER_COUNT]
  /\ find' = [find EXCEPT ![p] = FindStart]
  /\ UNCHANGED <<ringVars, pnext, pend, consVars, purgeVars>>

\* The cursor found may have moved on since it was read.
Slay(p) ==
  /\ pc[p] = "slay"
  /\ find[p].next = PARALLEL_CONSUMER_COUNT
  /\ markDead(find[p].at)
  /\ pc' = [pc EXCEPT ![p] = "kill"]
  /\ find' = [find EXCEPT ![p] = FindStart]
  /\ UNCHANGED <<ringVars, pnext, pend, scan, consVars, purgeVars>>

\* From here on the sender may write to the slots it claimed at any moment.
StartWriting(p) ==
  /\ pc' = [pc EXCEPT ![p] = "fill"]
  /\ scan' = [scan EXCEPT ![p] = 0]
  /\ slotData' = [i \in Slots |->
       IF \E s \in pnext[p] .. pend[p] - 1 : Idx(s) = i THEN TORN ELSE slotData[i]]

Granted(p) ==
  /\ pc[p] \in {"claim", "kill"}
  /\ scan[p] = PARALLEL_CONSUMER_COUNT
  /\ StartWriting(p)
  /\ UNCHANGED <<toBeClaimedSeq, slotSeq, readSeq, pnext, pend, find, consVars,
                 purgeVars, intact>>

\* Mutant of TryGranted: a plain store in place of the compare-and-swap.
TryGrantedStore(p) ==
  /\ pc[p] = "try"
  /\ scan[p] = PARALLEL_CONSUMER_COUNT
  /\ toBeClaimedSeq' = pend[p]
  /\ StartWriting(p)
  /\ UNCHANGED <<slotSeq, readSeq, pnext, pend, find, consVars, purgeVars, intact>>

\* compare_exchange_weak succeeds: nobody has claimed since TryLoad.
TryGranted(p) ==
  /\ pc[p] = "try"
  /\ scan[p] = PARALLEL_CONSUMER_COUNT
  /\ toBeClaimedSeq = pnext[p]
  /\ toBeClaimedSeq' = pend[p]
  /\ StartWriting(p)
  /\ UNCHANGED <<slotSeq, readSeq, pnext, pend, find, consVars, purgeVars, intact>>

\* compare_exchange_weak fails (it may do so spuriously): reload, try again.
TryReload(p) ==
  /\ pc[p] = "try"
  /\ scan[p] = PARALLEL_CONSUMER_COUNT
  /\ toBeClaimedSeq + (pend[p] - pnext[p]) <= MaxSeq
  /\ pnext' = [pnext EXCEPT ![p] = toBeClaimedSeq]
  /\ pend' = [pend EXCEPT ![p] = toBeClaimedSeq + (pend[p] - pnext[p])]
  /\ scan' = [scan EXCEPT ![p] = 0]
  /\ UNCHANGED <<ringVars, readSeq, pc, find, consVars, purgeVars, intact>>

\* The bytes of every claimed slot are in place: memcpy of put, or the
\* placement news a caller of claim does before it calls commit.
Fill(p) ==
  /\ pc[p] = "fill"
  /\ pc' = [pc EXCEPT ![p] = "commit"]
  /\ slotData' = [i \in Slots |->
       IF \E s \in pnext[p] .. pend[p] - 1 : Idx(s) = i
         THEN CHOOSE s \in pnext[p] .. pend[p] - 1 : Idx(s) = i
         ELSE slotData[i]]
  /\ UNCHANGED <<toBeClaimedSeq, slotSeq, readSeq, pnext, pend, scan, find, consVars,
                 purgeVars, intact>>

\* commit(from, n) publishes one slot after the other.
Commit(p) ==
  /\ pc[p] = "commit"
  /\ slotSeq' = [slotSeq EXCEPT ![Idx(pnext[p])] = pnext[p]]
  /\ \/ pnext[p] + 1 = pend[p] /\ Return(p)
     \/ /\ pnext[p] + 1 < pend[p]
        /\ pnext' = [pnext EXCEPT ![p] = @ + 1]
        /\ UNCHANGED <<pc, pend, scan>>
  /\ UNCHANGED <<toBeClaimedSeq, slotData, readSeq, find, consVars, purgeVars, intact>>

Send(p) ==
  \/ \E n \in 1 .. MaxBatch : Claim(p, n) \/ KillClaim(p, n) \/ TryLoad(p, n)
  \/ ScanPass(p) \/ ClaimRetry(p) \/ TryFull(p) \/ KillFind(p)
  \/ KillCompare(p) \/ Slay(p)
  \/ Granted(p) \/ TryGranted(p) \/ TryReload(p) \/ Fill(p) \/ Commit(p)

-----------------------------------------------------------------------------
(***************************************************************************)
(* Consumers.  The thread behind a cursor polls: peek, hand the messages   *)
(* to the client, wasteAfterPeek (runOnceImpl).  A cursor that is not in   *)
(* use is READ_SEQ_MAX; reset puts it in use again.                        *)
(***************************************************************************)
\* begin, end and count go out of scope.
ForgetRange(c) ==
  /\ cbegin' = [cbegin EXCEPT ![c] = 0]
  /\ cend' = [cend EXCEPT ![c] = 0]
  /\ cpos' = [cpos EXCEPT ![c] = 0]
  /\ ccount' = [ccount EXCEPT ![c] = 0]

\* Mutant of LoadForReset: one past the next number to be claimed.
LoadPastEnd(c) ==
  /\ cpc' = [cpc EXCEPT ![c] = "reset"]
  /\ cbegin' = [cbegin EXCEPT ![c] = toBeClaimedSeq + 1]
  /\ intact' = [intact EXCEPT ![c] = \A p \in Producers : ~InFlight(p)]
  /\ UNCHANGED <<ringVars, readSeq, prodVars, cend, cpos, ccount, last, purgeVars>>

\* reset, first half: the thread has read toBeClaimedSeq_ but not stored it.
LoadForReset(c) ==
  /\ cpc' = [cpc EXCEPT ![c] = "reset"]
  /\ cbegin' = [cbegin EXCEPT ![c] = toBeClaimedSeq]
  /\ intact' = [intact EXCEPT ![c] = \A p \in Producers : ~InFlight(p)]
  /\ UNCHANGED <<ringVars, readSeq, prodVars, cend, cpos, ccount, last, purgeVars>>

\* The index is one of unusedConsumerIndexes().
ResetStart(c) ==
  /\ c \in Joiners
  /\ cpc[c] = "off"
  /\ readSeq[c] = READ_SEQ_MAX
  /\ LoadForReset(c)

\* Nobody that has already compared with this cursor can be given a slot that
\* the loaded sequence number still needs.
StoreInTime(c) ==
  /\ toBeClaimedSeq <= cbegin[c] + CAPACITY
  /\ \A p \in Producers :
       pc[p] = "try" /\ scan[p] > c => pend[p] <= cbegin[c] + CAPACITY

ResetStore(c) ==
  /\ cpc[c] = "reset"
  /\ readSeq' = [readSeq EXCEPT ![c] = cbegin[c]]
  /\ intact' = [intact EXCEPT ![c] = @ /\ StoreInTime(c)]
  /\ cpc' = [cpc EXCEPT ![c] = "check"]
  /\ last' = [last EXCEPT ![c] = NONE]
  /\ UNCHANGED <<ringVars, prodVars, cbegin, cend, cpos, ccount, purgeVars>>

\* reset loops while the slot it would read first is already published.
ResetAgain(c) ==
  /\ cpc[c] = "check"
  /\ slotSeq[Idx(readSeq[c])] = readSeq[c]
  /\ LoadForReset(c)

ResetDone(c) ==
  /\ cpc[c] = "check"
  /\ slotSeq[Idx(readSeq[c])] # readSeq[c]
  /\ cpc' = [cpc EXCEPT ![c] = "idle"]
  /\ ForgetRange(c)
  /\ UNCHANGED <<ringVars, readSeq, prodVars, last, purgeVars, intact>>

PeekStart(c) ==
  /\ cpc[c] = "idle"
  /\ readSeq[c] < READ_SEQ_MAX
  /\ cpc' = [cpc EXCEPT ![c] = "peek"]
  /\ cbegin' = [cbegin EXCEPT ![c] = readSeq[c]]
  /\ cend' = [cend EXCEPT ![c] = readSeq[c]]
  /\ UNCHANGED <<ringVars, readSeq, prodVars, cpos, ccount, last, purgeVars, intact>>

\* The thread ends and marks its cursor dead (unblock at the end of the loop).
Off(c) ==
  /\ markDead(c)
  /\ cpc' = [cpc EXCEPT ![c] = "off"]
  /\ ForgetRange(c)
  /\ UNCHANGED <<ringVars, prodVars, last, purgeVars>>

\* peek throws DeadConsumer, which stops the client.
PeekDead(c) ==
  /\ cpc[c] = "idle"
  /\ readSeq[c] >= READ_SEQ_MAX
  /\ Off(c)

PeekMore(c) ==
  /\ slotSeq[Idx(cend[c])] = cend[c]
  /\ cend[c] - cbegin[c] < MaxPeek

PeekNext(c) ==
  /\ cpc[c] = "peek"
  /\ PeekMore(c)
  /\ cend' = [cend EXCEPT ![c] = @ + 1]
  /\ UNCHANGED <<ringVars, readSeq, prodVars, cpc, cbegin, cpos, ccount, last,
                 purgeVars, intact>>

\* The count peek returns is computed from the cursor as it is by now.
PeekEnd(c) ==
  /\ cpc[c] = "peek"
  /\ ~PeekMore(c)
  /\ cpc' = [cpc EXCEPT ![c] = "handle"]
  /\ ccount' = [ccount EXCEPT ![c] = Wrap(cend[c] - readSeq[c])]
  /\ cpos' = [cpos EXCEPT ![c] = cbegin[c]]
  /\ UNCHANGED <<ringVars, readSeq, prodVars, cbegin, cend, last, purgeVars, intact>>

Handle(c) ==
  /\ cpc[c] = "handle"
  /\ cpos[c] < cend[c]
  /\ last' = [last EXCEPT ![c] = slotData[Idx(cpos[c])]]
  /\ cpos' = [cpos EXCEPT ![c] = @ + 1]
  /\ UNCHANGED <<ringVars, readSeq, prodVars, cpc, cbegin, cend, ccount, purgeVars,
                 intact>>

wasteAfterPeek(c) ==
  /\ cpc[c] = "handle"
  /\ cpos[c] = cend[c]
  /\ readSeq' = [readSeq EXCEPT ![c] = Wrap(@ + ccount[c])]
  /\ cpc' = [cpc EXCEPT ![c] = "idle"]
  /\ ForgetRange(c)
  /\ UNCHANGED <<ringVars, prodVars, last, purgeVars, intact>>

\* The client stops: the Context is stopped, or a callback throws.
Leave(c) ==
  /\ cpc[c] \in {"idle", "handle"}
  /\ Off(c)

Consume(c) ==
  \/ ResetStart(c) \/ ResetStore(c) \/ ResetAgain(c) \/ ResetDone(c)
  \/ PeekStart(c) \/ PeekDead(c) \/ PeekNext(c) \/ PeekEnd(c)
  \/ Handle(c) \/ wasteAfterPeek(c)

-----------------------------------------------------------------------------
(***************************************************************************)
(* The purger of an ipc Context calls purge() over and over.               *)
(***************************************************************************)
\* One round of the loop: the cursor and, if it has moved, the header it is at.
PurgeVisit ==
  /\ purgePc = "visit"
  /\ purgeAt \in Consumers
  /\ LET seq == readSeq[purgeAt]
         stuck == seq < READ_SEQ_MAX /\ readSeqLastPurge[purgeAt] = seq
         pending == seq < READ_SEQ_MAX /\ slotSeq[Idx(seq)] = seq
     IN \/ stuck /\ purgePc' = "find" /\ UNCHANGED <<readSeqLastPurge, purgeAt>>
        \/ /\ ~stuck
           /\ readSeqLastPurge' = IF pending
                                    THEN [readSeqLastPurge EXCEPT ![purgeAt] = seq]
                                    ELSE readSeqLastPurge
           /\ purgeAt' = purgeAt + 1
           /\ UNCHANGED purgePc
  /\ UNCHANGED <<ringVars, readSeq, prodVars, consVars, purgeSet, purgeFind, intact>>

PurgeCompare ==
  /\ purgePc = "find"
  /\ purgeFind.next \in Consumers
  /\ purgeFind' = findNext(purgeFind)
  /\ UNCHANGED <<ringVars, readSeq, prodVars, consVars, readSeqLastPurge, purgePc,
                 purgeAt, purgeSet, intact>>

PurgeFound ==
  /\ purgePc = "find"
  /\ purgeFind.next = PARALLEL_CONSUMER_COUNT
  /\ purgeSet' = IF purgeFind.at = purgeAt THEN purgeSet \cup {purgeAt} ELSE purgeSet
  /\ purgePc' = "visit"
  /\ purgeAt' = purgeAt + 1
  /\ purgeFind' = FindStart
  /\ UNCHANGED <<ringVars, readSeq, prodVars, consVars, readSeqLastPurge, intact>>

PurgeMark(c) ==
  /\ purgeAt = PARALLEL_CONSUMER_COUNT
  /\ c \in purgeSet
  /\ \A d \in purgeSet : c <= d
  /\ markDead(c)
  /\ purgeSet' = purgeSet \ {c}
  /\ UNCHANGED <<ringVars, prodVars, consVars, readSeqLastPurge, purgePc, purgeAt,
                 purgeFind>>

PurgeReturn ==
  /\ purgeAt = PARALLEL_CONSUMER_COUNT
  /\ purgeSet = {}
  /\ purgeAt' = 0
  /\ UNCHANGED <<ringVars, readSeq, prodVars, consVars, readSeqLastPurge, purgePc,
                 purgeSet, purgeFind, intact>>

purge ==
  /\ HasPurger
  /\ \/ PurgeVisit \/ PurgeCompare \/ PurgeFound
     \/ \E c \in Consumers : PurgeMark(c)
     \/ PurgeReturn

-----------------------------------------------------------------------------
Init ==
  /\ toBeClaimedSeq = 0
  /\ slotSeq = [i \in Slots |-> SEQ_MAX]
  /\ slotData = [i \in Slots |-> NONE]
  /\ readSeq = [c \in Consumers |-> IF c \in InitReaders THEN 0 ELSE READ_SEQ_MAX]
  /\ readSeqLastPurge = [c \in Consumers |-> READ_SEQ_MAX]
  /\ pc = [p \in Producers |-> "idle"]
  /\ pnext = [p \in Producers |-> 0]
  /\ pend = [p \in Producers |-> 0]
  /\ scan = [p \in Producers |-> 0]
  /\ find = [p \in Producers |-> FindStart]
  /\ cpc = [c \in Consumers |-> IF c \in InitReaders THEN "idle" ELSE "off"]
  /\ cbegin = [c \in Consumers |-> 0]
  /\ cend = [c \in Consumers |-> 0]
  /\ cpos = [c \in Consumers |-> 0]
  /\ ccount = [c \in Consumers |-> 0]
  /\ purgePc = "visit"
  /\ purgeAt = 0
  /\ purgeSet = {}
  /\ purgeFind = FindStart
  /\ intact = [c \in Consumers |-> c \in InitReaders]
  /\ last = [c \in Consumers |-> NONE]

Next ==
  \/ \E p \in Producers : Send(p)
  \/ \E c \in Consumers : Consume(c) \/ Leave(c)
  \/ purge

Spec == Init /\ [][Next]_vars

-----------------------------------------------------------------------------
(***************************************************************************)
(* Intact cursors.  A cursor is intact when it was in use before the first *)
(* claim, or when its reset found no claim in flight and stored what it    *)
(* had loaded before CAPACITY more numbers were claimed; and it stays so   *)
(* until somebody marks it dead.  A member is an intact cursor in use.     *)
(***************************************************************************)
Member(c) == intact[c] /\ cpc[c] \in {"check", "idle", "peek", "handle"}

\* What p has claimed and not published.
Unpublished(p) == IF InFlight(p) THEN pnext[p] .. pend[p] - 1 ELSE {}

Readable(s) == slotSeq[Idx(s)] = s /\ slotData[Idx(s)] = s

\* Every variable has its type.
TypeOK ==
  /\ toBeClaimedSeq \in 0 .. MaxSeq
  /\ slotSeq \in [Slots -> 0 .. MaxSeq \cup {SEQ_MAX}]
  /\ slotData \in [Slots -> TORN .. MaxSeq \cup {NONE}]
  /\ readSeq \in [Consumers -> 0 .. SEQ_MAX]
  /\ readSeqLastPurge \in [Consumers -> 0 .. SEQ_MAX]
  /\ pc \in [Producers -> Scanning \cup Writing \cup {"idle", "slay"}]
  /\ pnext \in [Producers -> 0 .. MaxSeq]
  /\ pend \in [Producers -> 0 .. MaxSeq]
  /\ \A p \in Producers : pnext[p] <= pend[p]
  /\ scan \in [Producers -> 0 .. PARALLEL_CONSUMER_COUNT]
  /\ find \in [Producers -> Finder]
  /\ cpc \in [Consumers -> {"off", "reset", "check", "idle", "peek", "handle"}]
  /\ cbegin \in [Consumers -> 0 .. READ_SEQ_MAX]
  /\ cend \in [Consumers -> 0 .. READ_SEQ_MAX]
  /\ cpos \in [Consumers -> 0 .. READ_SEQ_MAX]
  /\ ccount \in [Consumers -> 0 .. SEQ_MAX]
  /\ purgePc \in {"visit", "find"}
  /\ purgeAt \in 0 .. PARALLEL_CONSUMER_COUNT
  /\ purgePc = "find" => purgeAt \in Consumers
  /\ purgeSet \subseteq Consumers
  /\ purgeFind \in Finder
  /\ intact \in [Consumers -> BOOLEAN]
  /\ last \in [Consumers -> TORN .. MaxSeq \cup {NONE}]

\* No message is lost to a member: every number claimed from its cursor on is
\* still owned by the sender that will publish it, or sits in its slot whole,
\* however claims, batches, joins, kills and purges of others interleave
\* (put, claim(n), tryClaim(n) against readSeqLow).
NothingLost ==
  \A c \in Consumers : Member(c) =>
    \A s \in readSeq[c] .. toBeClaimedSeq - 1 :
      (\E p \in Producers : s \in Unpublished(p)) \/ Readable(s)

\* As long as somebody is a member, no two senders write to one slot at a time,
\* and no sender writes to a slot of the range a member is working on between
\* its peek and its wasteAfterPeek.
NoDataRace ==
  \A c \in Consumers, p \in Producers : Member(c) /\ pc[p] \in Writing =>
    /\ cpc[c] = "handle" =>
         \A s \in pnext[p] .. pend[p] - 1, t \in cbegin[c] .. cend[c] - 1 :
           Idx(s) # Idx(t)
    /\ \A q \in Producers \ {p} : pc[q] \in Writing =>
         \A s \in pnext[p] .. pend[p] - 1, t \in pnext[q] .. pend[q] - 1 :
           Idx(s) # Idx(t)

(***************************************************************************)
(* The inductive invariant behind NothingLost and NoDataRace.              *)
(***************************************************************************)
\* A claim is a non-empty range that fits in the ring; numbers taken from the
\* counter are below it, those of a tryClaim are only about to be taken.
ClaimInv(p) ==
  /\ pc[p] # "idle" => pnext[p] < pend[p] /\ pend[p] <= pnext[p] + CAPACITY
  /\ InFlight(p) => pend[p] <= toBeClaimedSeq
  /\ pc[p] = "try" => pnext[p] <= toBeClaimedSeq
  /\ pc[p] = "slay" => scan[p] = 0

\* No number is claimed twice.
DisjointInv ==
  \A p, q \in Producers : p # q /\ InFlight(p) /\ InFlight(q) =>
    pend[p] <= pnext[q] \/ pend[q] <= pnext[p]

\* A header holds a number of its own slot that was claimed and published.
HeaderInv(i) ==
  slotSeq[i] # SEQ_MAX =>
    /\ Idx(slotSeq[i]) = i
    /\ slotSeq[i] < toBeClaimedSeq
    /\ \A p \in Producers : slotSeq[i] \notin Unpublished(p)

\* An intact cursor that is being reset holds the ring back from Low(c) on as if
\* it had been stored, until CAPACITY numbers have been claimed.
Low(c) == IF cpc[c] = "reset" THEN cbegin[c] ELSE readSeq[c]

Guards(c) ==
  /\ intact[c]
  /\ cpc[c] # "off"
  /\ cpc[c] = "reset" => toBeClaimedSeq <= cbegin[c] + CAPACITY

\* What is unpublished lies at or above the cursor, senders past their check lie
\* within one lap of it, and what is published within that lap is whole.
GuardInv(c) ==
  /\ Low(c) <= toBeClaimedSeq
  /\ \A p \in Producers :
       /\ InFlight(p) => Low(c) <= pnext[p]
       /\ pc[p] \in Writing => pend[p] <= Low(c) + CAPACITY
       /\ cpc[c] # "reset" /\ pc[p] \in Scanning /\ scan[p] > c =>
            pend[p] <= Low(c) + CAPACITY
       /\ pc[p] = "commit" =>
            \A s \in pnext[p] .. pend[p] - 1 : slotData[Idx(s)] = s
  /\ \A s \in Low(c) .. toBeClaimedSeq - 1 :
       (\A p \in Producers : s \notin Unpublished(p)) =>
         Readable(s) /\ s < Low(c) + CAPACITY

\* The range a member peeked starts at its cursor and is published.
RangeInv(c) ==
  /\ cpc[c] \in {"peek", "handle"} =>
       /\ cbegin[c] = readSeq[c]
       /\ cbegin[c] <= cend[c] /\ cend[c] <= toBeClaimedSeq
       /\ \A p \in Producers : InFlight(p) => cend[c] <= pnext[p]
  /\ cpc[c] = "handle" =>
       /\ cbegin[c] <= cpos[c] /\ cpos[c] <= cend[c]
       /\ ccount[c] = cend[c] - cbegin[c]

RingInv ==
  /\ \A p \in Producers : ClaimInv(p)
  /\ DisjointInv
  /\ \A i \in Slots : HeaderInv(i)
  /\ \A c \in Consumers : Guards(c) => GuardInv(c) /\ RangeInv(c)

\* The ring implements the broadcast log: members get every message from where
\* they joined on, once, in order and whole.
Log == INSTANCE BroadcastLog WITH
  Members <- Consumers,
  OFF <- -1,
  claimed <- toBeClaimedSeq,
  published <- {s \in 0 .. toBeClaimedSeq - 1 :
                  \A p \in Producers : s \notin Unpublished(p)},
  next <- [c \in Consumers |-> IF ~Member(c) THEN -1
                               ELSE IF cpc[c] = "handle" THEN cpos[c] ELSE readSeq[c]],
  got <- [c \in Consumers |-> IF Member(c) THEN last[c] ELSE NONE]

ImplementsBroadcastLog == Log!Spec

-----------------------------------------------------------------------------
(***************************************************************************)
(* Fairness: every sender and consumer thread keeps running (they poll and *)
(* spin, they never sleep on a condition), except that nobody is obliged   *)
(* to start another call, to join or to leave.                             *)
(***************************************************************************)
SendStep(p) ==
  \/ ScanPass(p) \/ ClaimRetry(p) \/ TryFull(p) \/ KillFind(p)
  \/ KillCompare(p) \/ Slay(p)
  \/ Granted(p) \/ TryGranted(p) \/ TryReload(p) \/ Fill(p) \/ Commit(p)

ConsumeStep(c) ==
  \/ ResetStore(c) \/ ResetAgain(c) \/ ResetDone(c) \/ PeekStart(c) \/ PeekDead(c)
  \/ PeekNext(c) \/ PeekEnd(c) \/ Handle(c) \/ wasteAfterPeek(c)

SenderFairness == \A p \in Producers : WF_vars(SendStep(p))
ConsumerFairness == \A c \in Consumers : WF_vars(ConsumeStep(c))

FairSpec == Spec /\ SenderFairness /\ ConsumerFairness

\* The purger of an ipc Context keeps running.  Here a client whose cursor is
\* marked dead between the two reads of it in one peek is one that crashed there:
\* what happens when it goes on is the subject of DeadUntilReset.
PurgedNext ==
  \/ \E p \in Producers : Send(p)
  \/ \E c \in Consumers :
       /\ cpc[c] = "peek" /\ ~PeekMore(c) => readSeq[c] < READ_SEQ_MAX
       /\ Consume(c) \/ Leave(c)
  \/ purge

PurgedSpec == Init /\ [][PurgedNext]_vars /\ SenderFairness /\ WF_vars(purge)

\* Every number claimed is in the end behind every cursor: the senders publish it
\* and each consumer in use consumes it or is marked dead.
AllConsumed == \A c \in Consumers : toBeClaimedSeq <= readSeq[c]

\* A sender that has claimed is given its slots: the full ring drains and the spin
\* loops of put and claim(n) end.
AllGranted == \A p \in Producers : pc[p] # "claim"

\* Where senders and consumers that keep running lead to in the end.
Settled == AllConsumed /\ AllGranted

\* The purger keeps the transport healthy: clients may be slow, get stuck or crash
\* at any point, and still the ring does not stay full (purge, isFull).
StaysHealthy == ~isFull

\* A cursor that was marked dead stays in the range of dead cursors, late
\* wasteAfterPeek calls included, until a client takes it over with reset.
DeadUntilReset ==
  [][\A c \in Consumers :
       readSeq[c] >= READ_SEQ_MAX /\ readSeq'[c] < READ_SEQ_MAX => ResetStore(c)]_vars
=============================================================================
