--------------------- MODULE MemRingBuffer_proofs ---------------------------
(***************************************************************************)
(* Proofs about MemRingBuffer for every number of senders, cursors and     *)
(* slots: its types, RingInv, an inductive invariant, by which no message  *)
(* is lost to a member and no slot is written while somebody else works on *)
(* it, and that it implements BroadcastLog: each step of a sender, a       *)
(* consumer or the purger is a step of the log or leaves the log as it is. *)
(***************************************************************************)
EXTENDS MemRingBuffer, TLAPS

\* A sequence number is mapped to a slot (seq & MASK is below CAPACITY).
LEMMA IdxType == \A s \in Nat : Idx(s) \in Slots
BY RingAssumption DEF Idx, Slots

\* Two sequence numbers less than one lap apart share no slot.
LEMMA IdxApart ==
  ASSUME NEW a \in Nat, NEW b \in Nat, a # b, a < b + CAPACITY, b < a + CAPACITY
  PROVE  Idx(a) # Idx(b)
<1> DEFINE C == CAPACITY
<1>0. C \in Nat /\ C > 0
  BY RingAssumption
<1>1. SUFFICES ASSUME a % C = b % C PROVE FALSE
  BY DEF Idx
<1>2. a = C * (a \div C) + (a % C) /\ a \div C \in Int /\ a % C \in Int
  BY <1>0
<1>3. b = C * (b \div C) + (a % C) /\ b \div C \in Int
  BY <1>0, <1>1
<1>4. ASSUME NEW q \in Int, NEW k \in Int, NEW r \in Int,
             a = C * q + r, b = C * k + r
      PROVE  FALSE
  <2>1. CASE q = k
    BY <1>4, <2>1
  <2>2. CASE q >= k + 1
    <3>1. C * q >= C * (k + 1)
      BY <1>0, <2>2
    <3>2. C * (k + 1) = C * k + C
      BY <1>0
    <3> QED BY <1>0, <1>4, <3>1, <3>2
  <2>3. CASE k >= q + 1
    <3>1. C * k >= C * (q + 1)
      BY <1>0, <2>3
    <3>2. C * (q + 1) = C * q + C
      BY <1>0
    <3> QED BY <1>0, <1>4, <3>1, <3>2
  <2> QED BY <2>1, <2>2, <2>3
<1> HIDE DEF C
<1> QED BY <1>2, <1>3, <1>4

-----------------------------------------------------------------------------
\* The constants as numbers, for the backends.
LEMMA Consts ==
  /\ PARALLEL_CONSUMER_COUNT \in Nat /\ PARALLEL_CONSUMER_COUNT > 0
  /\ CAPACITY \in Nat /\ CAPACITY > 0
  /\ MaxSeq \in Nat /\ SEQ_MAX \in Nat /\ READ_SEQ_MAX \in Nat
  /\ MaxSeq + CAPACITY < READ_SEQ_MAX
  /\ READ_SEQ_MAX + CAPACITY + 1000 = SEQ_MAX
  /\ MaxBatch \in Nat /\ MaxBatch <= CAPACITY
  /\ InitReaders \subseteq Consumers
  /\ \A c \in Consumers :
       c \in 0 .. PARALLEL_CONSUMER_COUNT /\ c + 1 \in 0 .. PARALLEL_CONSUMER_COUNT
BY RingAssumption DEF READ_SEQ_MAX, Consumers

\* A cursor that is marked dead stays a 64-bit number.
LEMMA markDeadType ==
  ASSUME NEW c, markDead(c), TypeOK
  PROVE  readSeq' \in [Consumers -> 0 .. SEQ_MAX] /\ intact' \in [Consumers -> BOOLEAN]
<1>1. READ_SEQ_MAX \in 0 .. SEQ_MAX
  BY Consts
<1>2. readSeq' \in [Consumers -> 0 .. SEQ_MAX]
  BY <1>1 DEF markDead, TypeOK
<1>3. intact' \in [Consumers -> BOOLEAN]
  BY DEF markDead, TypeOK
<1> QED BY <1>2, <1>3

\* findSlowestReader starts as a search that has read nothing.
LEMMA FindStartType == FindStart \in Finder
BY Consts DEF FindStart, Finder, Consumers

\* One comparison of findSlowestReader keeps the type of the search.
LEMMA findNextType ==
  ASSUME NEW f \in Finder, f.next \in Consumers, readSeq \in [Consumers -> 0 .. SEQ_MAX]
  PROVE  findNext(f) \in Finder
<1>1. f.next + 1 \in 0 .. PARALLEL_CONSUMER_COUNT
  BY Consts
<1>2. readSeq[f.next] \in 0 .. SEQ_MAX
  OBVIOUS
<1> QED BY <1>1, <1>2 DEF findNext, Finder

\* The initial state is well typed.
LEMMA TypeInit == Init => TypeOK
BY Consts, FindStartType
   DEF Init, TypeOK, Slots, Consumers, Scanning, Writing, NONE, TORN

\* A step of a sender keeps the types.
LEMMA TypeSend == ASSUME TypeOK, NEW p \in Producers, Send(p) PROVE TypeOK'
<1> USE Consts DEF TypeOK, ringVars, prodVars, consVars, purgeVars, Scanning, Writing
<1>1. ASSUME NEW n \in 1 .. MaxBatch, Claim(p, n) \/ KillClaim(p, n) \/ TryLoad(p, n)
      PROVE  TypeOK'
  BY <1>1 DEF Claim, KillClaim, TryLoad, FetchAdd
<1>2. CASE ScanPass(p)
  BY <1>2 DEF ScanPass
<1>3. CASE ClaimRetry(p)
  BY <1>3 DEF ClaimRetry
<1>4. CASE TryFull(p)
  BY <1>4 DEF TryFull, Return
<1>5. CASE KillFind(p)
  BY <1>5 DEF KillFind
<1>6. CASE KillCompare(p)
  <2>1. findNext(find[p]) \in Finder
    BY <1>6, findNextType DEF KillCompare
  <2>2. find' \in [Producers -> Finder]
    BY <1>6, <2>1 DEF KillCompare
  <2> QED BY <1>6, <2>2 DEF KillCompare
<1>12. CASE Slay(p)
  <2>1. find' \in [Producers -> Finder]
    BY <1>12, FindStartType DEF Slay
  <2>2. readSeq' \in [Consumers -> 0 .. SEQ_MAX] /\ intact' \in [Consumers -> BOOLEAN]
    BY <1>12, markDeadType DEF Slay
  <2> QED BY <1>12, <2>1, <2>2 DEF Slay
<1>7. CASE Granted(p)
  BY <1>7 DEF Granted, StartWriting, TORN
<1>8. CASE TryGranted(p)
  BY <1>8 DEF TryGranted, StartWriting, TORN
<1>9. CASE TryReload(p)
  <2>1. pend[p] - pnext[p] >= 0
    BY <1>9 DEF TryReload
  <2> QED BY <1>9, <2>1 DEF TryReload
<1>10. CASE Fill(p)
  <2>1. \A i \in Slots :
          (\E s \in pnext[p] .. pend[p] - 1 : Idx(s) = i) =>
            (CHOOSE s \in pnext[p] .. pend[p] - 1 : Idx(s) = i) \in 0 .. MaxSeq
    OBVIOUS
  <2>2. slotData' \in [Slots -> TORN .. MaxSeq \cup {NONE}]
    BY <1>10, <2>1 DEF Fill, TORN
  <2> QED BY <1>10, <2>2 DEF Fill
<1>11. CASE Commit(p)
  <2>1. Idx(pnext[p]) \in Slots /\ pnext[p] \in 0 .. MaxSeq
    BY IdxType
  <2>2. slotSeq' \in [Slots -> 0 .. MaxSeq \cup {SEQ_MAX}]
    BY <1>11, <2>1 DEF Commit
  <2> QED BY <1>11, <2>2 DEF Commit, Return
<1> QED
  BY <1>1, <1>2, <1>3, <1>4, <1>5, <1>6, <1>7, <1>8, <1>9, <1>10, <1>11, <1>12 DEF Send

\* A step of a consumer keeps the types.
LEMMA TypeConsume ==
  ASSUME TypeOK, NEW c \in Consumers, Consume(c) \/ Leave(c) PROVE TypeOK'
<1> USE Consts DEF TypeOK, ringVars, prodVars, consVars, purgeVars
<1>1. CASE ResetStart(c) \/ ResetAgain(c)
  <2> DEFINE quiet == \A p \in Producers : ~InFlight(p)
  <2>1. quiet \in BOOLEAN
    OBVIOUS
  <2>2. intact' = [intact EXCEPT ![c] = quiet]
    BY <1>1 DEF ResetStart, ResetAgain, LoadForReset
  <2> HIDE DEF quiet
  <2>3. intact' \in [Consumers -> BOOLEAN]
    BY <2>1, <2>2
  <2> QED BY <1>1, <2>3 DEF ResetStart, ResetAgain, LoadForReset
<1>2. CASE ResetStore(c)
  BY <1>2 DEF ResetStore, StoreInTime
<1>3. CASE ResetDone(c)
  BY <1>3 DEF ResetDone, ForgetRange
<1>4. CASE PeekStart(c)
  BY <1>4 DEF PeekStart
<1>5. CASE PeekDead(c) \/ Leave(c)
  <2>1. Off(c)
    BY <1>5 DEF PeekDead, Leave
  <2>2. readSeq' \in [Consumers -> 0 .. SEQ_MAX] /\ intact' \in [Consumers -> BOOLEAN]
    <3>1. markDead(c)
      BY <2>1 DEF Off
    <3> HIDE DEF TypeOK
    <3> QED BY <3>1, markDeadType
  <2>3. /\ cbegin' \in [Consumers -> 0 .. READ_SEQ_MAX]
        /\ cend' \in [Consumers -> 0 .. READ_SEQ_MAX]
        /\ cpos' \in [Consumers -> 0 .. READ_SEQ_MAX]
        /\ ccount' \in [Consumers -> 0 .. SEQ_MAX]
    BY <2>1 DEF Off, ForgetRange
  <2>4. cpc' \in [Consumers -> {"off", "reset", "check", "idle", "peek", "handle"}]
    BY <2>1 DEF Off
  <2>5. UNCHANGED <<ringVars, prodVars, last, purgeVars>>
    BY <2>1 DEF Off
  <2> QED BY <2>2, <2>3, <2>4, <2>5
<1>6. CASE PeekNext(c)
  <2>1. Idx(cend[c]) \in Slots
    BY IdxType
  <2>2. cend[c] <= MaxSeq
    BY <1>6, <2>1 DEF PeekNext, PeekMore
  <2> QED BY <1>6, <2>2 DEF PeekNext
<1>7. CASE PeekEnd(c)
  <2>1. cend[c] \in 0 .. SEQ_MAX /\ readSeq[c] \in 0 .. SEQ_MAX
    OBVIOUS
  <2>2. Wrap(cend[c] - readSeq[c]) \in 0 .. SEQ_MAX
    BY <2>1 DEF Wrap
  <2> QED BY <1>7, <2>2 DEF PeekEnd
<1>8. CASE Handle(c)
  <2>1. Idx(cpos[c]) \in Slots
    BY IdxType
  <2> QED BY <1>8, <2>1 DEF Handle
<1>9. CASE wasteAfterPeek(c)
  <2>1. ccount[c] \in 0 .. SEQ_MAX /\ readSeq[c] \in 0 .. SEQ_MAX
    OBVIOUS
  <2>2. Wrap(readSeq[c] + ccount[c]) \in 0 .. SEQ_MAX
    BY <2>1 DEF Wrap
  <2> QED BY <1>9, <2>2 DEF wasteAfterPeek, ForgetRange
<1> QED
  BY <1>1, <1>2, <1>3, <1>4, <1>5, <1>6, <1>7, <1>8, <1>9 DEF Consume

\* A step of the purger keeps the types.
LEMMA TypePurge == ASSUME TypeOK, purge PROVE TypeOK'
<1> USE Consts DEF TypeOK, ringVars, prodVars, consVars, purgeVars
<1>1. CASE PurgeVisit
  BY <1>1 DEF PurgeVisit
<1>2. ASSUME NEW c \in Consumers, PurgeMark(c) PROVE TypeOK'
  BY <1>2 DEF PurgeMark, markDead
<1>3. CASE PurgeReturn
  BY <1>3 DEF PurgeReturn
<1>4. CASE PurgeCompare
  <2>1. purgeFind' \in Finder
    BY <1>4, findNextType DEF PurgeCompare
  <2> QED BY <1>4, <2>1 DEF PurgeCompare
<1>5. CASE PurgeFound
  BY <1>5, FindStartType DEF PurgeFound
<1> QED BY <1>1, <1>2, <1>3, <1>4, <1>5 DEF purge

\* Every step keeps the types.
LEMMA TypeStep == TypeOK /\ [Next]_vars => TypeOK'
<1> SUFFICES ASSUME TypeOK, [Next]_vars PROVE TypeOK'
  OBVIOUS
<1>1. CASE UNCHANGED vars
  BY <1>1 DEF TypeOK, vars, ringVars, prodVars, consVars, purgeVars
<1> QED BY <1>1, TypeSend, TypeConsume, TypePurge DEF Next

\* Every variable of the ring keeps its type: claims stay within the numbers ever
\* handed out and cursors within the range of Sequence, whatever wraps around.
THEOREM TypeCorrect == Spec => []TypeOK
BY TypeInit, TypeStep, PTL DEF Spec

-----------------------------------------------------------------------------
(***************************************************************************)
(* The inductive invariant.                                                *)
(***************************************************************************)
\* The types of the state the invariant is about, element by element.
LEMMA ElementTypes ==
  ASSUME TypeOK
  PROVE  /\ toBeClaimedSeq \in Nat /\ toBeClaimedSeq <= MaxSeq
         /\ \A p \in Producers :
              /\ pnext[p] \in Nat /\ pnext[p] <= MaxSeq
              /\ pend[p] \in Nat /\ pend[p] <= MaxSeq
              /\ scan[p] \in Nat
         /\ \A c \in Consumers :
              /\ c \in Nat /\ readSeq[c] \in Nat /\ cbegin[c] \in Nat
              /\ cend[c] \in Nat /\ cpos[c] \in Nat /\ ccount[c] \in Nat
BY Consts DEF TypeOK, Consumers

\* An empty ring satisfies the invariant: no claim, no published number, no range.
LEMMA RingInit == Init => RingInv
<1> SUFFICES ASSUME Init PROVE RingInv
  OBVIOUS
<1>1. \A p \in Producers : ClaimInv(p) /\ ~InFlight(p) /\ pc[p] = "idle"
  BY DEF Init, ClaimInv, InFlight
<1>2. DisjointInv
  BY <1>1 DEF DisjointInv
<1>3. \A i \in Slots : HeaderInv(i)
  BY DEF Init, HeaderInv
<1>4. ASSUME NEW c \in Consumers, Guards(c) PROVE GuardInv(c) /\ RangeInv(c)
  <2>1. toBeClaimedSeq = 0 /\ readSeq[c] = 0 /\ cpc[c] = "idle"
    BY <1>4 DEF Init, Guards
  <2> QED BY <1>1, <2>1, Consts DEF GuardInv, RangeInv, Low, Scanning, Writing
<1> QED BY <1>1, <1>2, <1>3, <1>4 DEF RingInv

\* A sender's scan and retry loops move nothing but its own position: an
\* elementary step of the check keeps the invariant.
LEMMA ScanPassInv ==
  ASSUME TypeOK, RingInv, NEW p \in Producers, ScanPass(p) PROVE RingInv'
<1> USE ElementTypes, Consts DEF Scanning, Writing
<1>1. /\ UNCHANGED <<toBeClaimedSeq, slotSeq, slotData, readSeq, pc, pnext, pend,
                     cpc, cbegin, cend, cpos, ccount, intact>>
      /\ \A q \in Producers : q # p => scan'[q] = scan[q]
      /\ scan'[p] = scan[p] + 1
      /\ scan[p] \in Consumers /\ pend[p] <= CAPACITY + readSeq[scan[p]]
      /\ pc[p] \in Scanning
  BY DEF ScanPass, HasRoom, ringVars, consVars, TypeOK
<1>2. \A q \in Producers : ClaimInv(q)'
  BY <1>1 DEF RingInv, ClaimInv, InFlight
<1>3. DisjointInv'
  BY <1>1 DEF RingInv, DisjointInv, InFlight
<1>4. \A i \in Slots : HeaderInv(i)'
  BY <1>1 DEF RingInv, HeaderInv, Unpublished, InFlight
<1>5. ASSUME NEW c \in Consumers, Guards(c)' PROVE GuardInv(c)' /\ RangeInv(c)'
  <2>1. GuardInv(c) /\ RangeInv(c) /\ Low(c)' = Low(c)
    BY <1>1, <1>5 DEF RingInv, Guards, Low
  <2>2. GuardInv(c)'
    BY <1>1, <2>1 DEF GuardInv, Unpublished, InFlight, Readable, Low
  <2>3. RangeInv(c)'
    BY <1>1, <2>1 DEF RangeInv, InFlight
  <2> QED BY <2>2, <2>3
<1> QED BY <1>2, <1>3, <1>4, <1>5 DEF RingInv

\* A sender that retries, gives up or reloads holds no slot: ClaimRetry, TryFull,
\* TryLoad, TryReload, KillFind and KillCompare change only what that sender keeps to
\* itself.
LEMMA PrivateInv ==
  ASSUME TypeOK, RingInv, NEW p \in Producers,
         \/ ClaimRetry(p) \/ TryFull(p) \/ TryReload(p)
         \/ KillFind(p) \/ KillCompare(p)
         \/ \E n \in 1 .. MaxBatch : TryLoad(p, n)
  PROVE  RingInv'
<1> USE ElementTypes, Consts DEF Scanning, Writing
<1>1. /\ UNCHANGED <<toBeClaimedSeq, slotSeq, slotData, readSeq,
                     cpc, cbegin, cend, cpos, ccount, intact>>
      /\ \A q \in Producers : q # p =>
           /\ scan'[q] = scan[q] /\ pc'[q] = pc[q]
           /\ pnext'[q] = pnext[q] /\ pend'[q] = pend[q]
  <2>1. CASE KillFind(p)
    BY <2>1 DEF KillFind, ringVars, consVars, TypeOK
  <2>2. CASE KillCompare(p)
    BY <2>2 DEF KillCompare, ringVars, consVars
  <2> QED BY <2>1, <2>2 DEF ClaimRetry, TryFull, TryReload, TryLoad, Return,
                            ringVars, consVars, TypeOK
<1>2. /\ InFlight(p)' => InFlight(p) /\ pnext'[p] = pnext[p] /\ pend'[p] = pend[p]
      /\ Unpublished(p)' = Unpublished(p)
      /\ pc'[p] \notin Writing
      /\ pc'[p] \in Scanning => scan'[p] = 0
  <2>1. CASE ClaimRetry(p)
    BY <2>1 DEF ClaimRetry, TypeOK, InFlight, Unpublished
  <2>2. CASE TryFull(p)
    BY <2>2 DEF TryFull, Return, TypeOK, InFlight, Unpublished
  <2>3. CASE TryReload(p)
    BY <2>3 DEF TryReload, TypeOK, InFlight, Unpublished
  <2>4. CASE KillFind(p)
    BY <2>4 DEF KillFind, TypeOK, InFlight, Unpublished
  <2>5. ASSUME NEW n \in 1 .. MaxBatch, TryLoad(p, n)
        PROVE  <1>2!1 /\ <1>2!2 /\ <1>2!3 /\ <1>2!4
    BY <2>5 DEF TryLoad, TypeOK, InFlight, Unpublished
  <2>6. CASE KillCompare(p)
    BY <2>6 DEF KillCompare, InFlight, Unpublished
  <2> QED BY <2>1, <2>2, <2>3, <2>4, <2>5, <2>6
<1>3. ClaimInv(p)'
  <2>1. CASE ClaimRetry(p)
    BY <2>1, <1>1 DEF ClaimRetry, TypeOK, RingInv, ClaimInv, InFlight
  <2>2. CASE TryFull(p)
    BY <2>2 DEF TryFull, Return, TypeOK, ClaimInv, InFlight
  <2>3. CASE TryReload(p)
    BY <2>3, <1>1 DEF TryReload, TypeOK, RingInv, ClaimInv, InFlight
  <2>4. CASE KillFind(p)
    BY <2>4, <1>1 DEF KillFind, TypeOK, RingInv, ClaimInv, InFlight
  <2>5. ASSUME NEW n \in 1 .. MaxBatch, TryLoad(p, n) PROVE ClaimInv(p)'
    BY <2>5, <1>1 DEF TryLoad, TypeOK, RingInv, ClaimInv, InFlight
  <2>6. CASE KillCompare(p)
    BY <2>6, <1>1 DEF KillCompare, RingInv, ClaimInv, InFlight
  <2> QED BY <2>1, <2>2, <2>3, <2>4, <2>5, <2>6
<1>4. \A q \in Producers : ClaimInv(q)'
  BY <1>1, <1>3 DEF RingInv, ClaimInv, InFlight
<1>5. \A q \in Producers : Unpublished(q)' = Unpublished(q)
  BY <1>1, <1>2 DEF Unpublished, InFlight
<1>6. \A q \in Producers : InFlight(q)' =>
        InFlight(q) /\ pnext'[q] = pnext[q] /\ pend'[q] = pend[q]
  BY <1>1, <1>2 DEF InFlight
<1>7. DisjointInv'
  BY <1>6 DEF RingInv, DisjointInv
<1>8. \A i \in Slots : HeaderInv(i)'
  BY <1>1, <1>5 DEF RingInv, HeaderInv
<1>9. ASSUME NEW c \in Consumers, Guards(c)' PROVE GuardInv(c)' /\ RangeInv(c)'
  <2>1. GuardInv(c) /\ RangeInv(c) /\ Low(c)' = Low(c)
    BY <1>1, <1>9 DEF RingInv, Guards, Low
  <2>2. GuardInv(c)'
    BY <1>1, <1>2, <1>5, <1>6, <2>1 DEF GuardInv, Readable
  <2>3. RangeInv(c)'
    BY <1>1, <1>6, <2>1 DEF RangeInv
  <2> QED BY <2>2, <2>3
<1> QED BY <1>4, <1>7, <1>8, <1>9 DEF RingInv

\* markDead moves one cursor, which then guards nothing; the caller may be a sender
\* in killClaim, which starts its check over.
LEMMA MarkDeadInv ==
  ASSUME TypeOK, RingInv, NEW d \in Consumers, markDead(d),
         UNCHANGED <<toBeClaimedSeq, slotSeq, slotData, pnext, pend>>,
         \A q \in Producers :
           \/ pc'[q] = pc[q] /\ scan'[q] = scan[q]
           \/ pc[q] = "slay" /\ pc'[q] = "kill" /\ scan'[q] = 0,
         \A c \in Consumers : c # d =>
           /\ cpc'[c] = cpc[c] /\ cbegin'[c] = cbegin[c] /\ cend'[c] = cend[c]
           /\ cpos'[c] = cpos[c] /\ ccount'[c] = ccount[c]
  PROVE  RingInv'
<1> USE ElementTypes, Consts DEF Scanning, Writing
<1>1. /\ intact'[d] = FALSE
      /\ \A c \in Consumers : c # d =>
           readSeq'[c] = readSeq[c] /\ intact'[c] = intact[c]
  BY DEF markDead, TypeOK
<1>2. \A q \in Producers : Unpublished(q)' = Unpublished(q) /\ InFlight(q)' = InFlight(q)
  BY DEF Unpublished, InFlight
<1>3. \A q \in Producers : ClaimInv(q)'
  BY <1>2 DEF RingInv, ClaimInv
<1>4. DisjointInv'
  BY <1>2 DEF RingInv, DisjointInv
<1>5. \A i \in Slots : HeaderInv(i)'
  BY <1>2 DEF RingInv, HeaderInv
<1>6. ASSUME NEW c \in Consumers, Guards(c)' PROVE GuardInv(c)' /\ RangeInv(c)'
  <2>1. c # d
    BY <1>1, <1>6 DEF Guards
  <2>2. GuardInv(c) /\ RangeInv(c) /\ Low(c)' = Low(c)
    BY <1>1, <1>6, <2>1 DEF RingInv, Guards, Low
  <2>3. GuardInv(c)'
    BY <1>1, <1>2, <2>1, <2>2 DEF GuardInv, Readable
  <2>4. RangeInv(c)'
    BY <1>1, <1>2, <2>1, <2>2 DEF RangeInv
  <2> QED BY <2>3, <2>4
<1> QED BY <1>3, <1>4, <1>5, <1>6 DEF RingInv

\* killClaim marks its victim dead and checks again.
LEMMA SlayInv ==
  ASSUME TypeOK, RingInv, NEW p \in Producers, Slay(p) PROVE RingInv'
<1>1. find[p].at \in Consumers /\ markDead(find[p].at)
  BY DEF Slay, TypeOK, Finder
<1>2. UNCHANGED <<toBeClaimedSeq, slotSeq, slotData, pnext, pend,
                  cpc, cbegin, cend, cpos, ccount>>
  BY DEF Slay, ringVars, consVars
<1>3. \A q \in Producers :
        \/ pc'[q] = pc[q] /\ scan'[q] = scan[q]
        \/ pc[q] = "slay" /\ pc'[q] = "kill" /\ scan'[q] = 0
  BY DEF Slay, TypeOK, RingInv, ClaimInv
<1> QED BY <1>1, <1>2, <1>3, MarkDeadInv

\* A claim takes numbers nobody has taken: FetchAdd keeps the invariant.
LEMMA ClaimStepInv ==
  ASSUME TypeOK, RingInv, NEW p \in Producers, NEW n \in 1 .. MaxBatch,
         Claim(p, n) \/ KillClaim(p, n)
  PROVE  RingInv'
<1> USE ElementTypes, Consts DEF Scanning, Writing
<1>1. /\ UNCHANGED <<slotSeq, slotData, readSeq, cpc, cbegin, cend, cpos, ccount, intact>>
      /\ \A q \in Producers : q # p =>
           /\ scan'[q] = scan[q] /\ pc'[q] = pc[q]
           /\ pnext'[q] = pnext[q] /\ pend'[q] = pend[q]
      /\ pc[p] = "idle" /\ pc'[p] \in {"claim", "kill"}
      /\ pnext'[p] = toBeClaimedSeq /\ pend'[p] = toBeClaimedSeq + n /\ scan'[p] = 0
      /\ toBeClaimedSeq' = toBeClaimedSeq + n
      /\ n \in Nat /\ n > 0 /\ n <= CAPACITY
  BY DEF Claim, KillClaim, FetchAdd, consVars, TypeOK
<1>2. \A q \in Producers : ClaimInv(q)'
  BY <1>1 DEF RingInv, ClaimInv, InFlight
<1>3. DisjointInv'
  BY <1>1 DEF RingInv, DisjointInv, ClaimInv, InFlight
<1>4. Unpublished(p)' = toBeClaimedSeq .. toBeClaimedSeq + n - 1
  BY <1>1 DEF Unpublished, InFlight
<1>5. \A q \in Producers : q # p =>
        Unpublished(q)' = Unpublished(q) /\ InFlight(q)' = InFlight(q)
  BY <1>1 DEF Unpublished, InFlight
<1>6. Unpublished(p) = {}
  BY <1>1 DEF Unpublished, InFlight
<1>7. \A i \in Slots : HeaderInv(i)'
  <2> SUFFICES ASSUME NEW i \in Slots, slotSeq[i] # SEQ_MAX PROVE HeaderInv(i)'
    BY <1>1 DEF HeaderInv
  <2>1. slotSeq[i] \in Nat /\ slotSeq[i] < toBeClaimedSeq
    BY DEF TypeOK, RingInv, HeaderInv
  <2>2. Idx(slotSeq[i]) = i /\ \A q \in Producers : slotSeq[i] \notin Unpublished(q)
    BY DEF RingInv, HeaderInv
  <2>3. \A q \in Producers : slotSeq[i] \notin Unpublished(q)'
    BY <1>4, <1>5, <2>1, <2>2
  <2> QED BY <1>1, <2>1, <2>2, <2>3 DEF HeaderInv
<1>8. ASSUME NEW c \in Consumers, Guards(c)' PROVE GuardInv(c)' /\ RangeInv(c)'
  <2>1. GuardInv(c) /\ RangeInv(c) /\ Low(c)' = Low(c) /\ Low(c) \in Nat
    BY <1>1, <1>8 DEF RingInv, Guards, Low
  <2>2. \A q \in Producers : q # p => (pc'[q] = "commit" => pc[q] = "commit")
    BY <1>1
  <2>3. ASSUME NEW s \in Low(c) .. toBeClaimedSeq' - 1,
               \A q \in Producers : s \notin Unpublished(q)'
        PROVE  Readable(s)' /\ s < Low(c) + CAPACITY
    <3>0. s \notin toBeClaimedSeq .. toBeClaimedSeq + n - 1
      BY <1>4, <2>3
    <3>1. s \in Low(c) .. toBeClaimedSeq - 1
      BY <1>1, <2>1, <3>0
    <3>2. \A q \in Producers : s \notin Unpublished(q)
      BY <1>5, <1>6, <2>3
    <3> QED BY <1>1, <2>1, <3>1, <3>2 DEF GuardInv, Readable
  <2>4. GuardInv(c)'
    BY <1>1, <1>5, <2>1, <2>3 DEF GuardInv
  <2>5. RangeInv(c)'
    BY <1>1, <1>5, <2>1 DEF RangeInv
  <2> QED BY <2>4, <2>5
<1> QED BY <1>2, <1>3, <1>7, <1>8 DEF RingInv

\* The slots of numbers in one lap are told apart by the numbers.
LEMMA LapApart ==
  ASSUME NEW lo \in Nat, NEW a \in Nat, NEW b \in Nat, a # b,
         lo <= a, a < lo + CAPACITY, lo <= b, b < lo + CAPACITY
  PROVE  Idx(a) # Idx(b)
BY IdxApart, Consts

\* A sender that was let through starts writing to its slots, none of which holds
\* anything a member still needs.
LEMMA GrantedInv ==
  ASSUME TypeOK, RingInv, NEW p \in Producers, Granted(p) \/ TryGranted(p)
  PROVE  RingInv'
<1> USE ElementTypes, Consts DEF Scanning, Writing
<1>1. /\ UNCHANGED <<slotSeq, readSeq, pnext, pend, cpc, cbegin, cend, cpos, ccount, intact>>
      /\ \A q \in Producers : q # p => scan'[q] = scan[q] /\ pc'[q] = pc[q]
      /\ pc[p] \in Scanning /\ scan[p] = PARALLEL_CONSUMER_COUNT
      /\ pc'[p] = "fill" /\ scan'[p] = 0
      /\ \/ toBeClaimedSeq' = toBeClaimedSeq /\ InFlight(p)
         \/ pc[p] = "try" /\ toBeClaimedSeq = pnext[p] /\ toBeClaimedSeq' = pend[p]
  BY DEF Granted, TryGranted, StartWriting, consVars, TypeOK, InFlight
<1>2. slotData' = [i \in Slots |->
        IF \E s \in pnext[p] .. pend[p] - 1 : Idx(s) = i THEN TORN ELSE slotData[i]]
  BY DEF Granted, TryGranted, StartWriting
<1>3. ClaimInv(p) /\ pnext[p] < pend[p] /\ toBeClaimedSeq <= toBeClaimedSeq'
      /\ pend[p] <= toBeClaimedSeq' /\ toBeClaimedSeq' \in Nat
  BY <1>1 DEF RingInv, ClaimInv
<1>4. \A q \in Producers : q # p =>
        Unpublished(q)' = Unpublished(q) /\ InFlight(q)' = InFlight(q)
  BY <1>1 DEF Unpublished, InFlight
<1>5. Unpublished(p)' = pnext[p] .. pend[p] - 1 /\ InFlight(p)'
  BY <1>1 DEF Unpublished, InFlight
<1>6. \A q \in Producers : ClaimInv(q)'
  BY <1>1, <1>3, <1>4 DEF RingInv, ClaimInv
<1>7. DisjointInv'
  <2>1. \A q \in Producers : q # p /\ InFlight(q) =>
          pend[p] <= pnext[q] \/ pend[q] <= pnext[p]
    BY <1>1 DEF RingInv, DisjointInv, ClaimInv
  <2> QED BY <1>1, <1>4, <2>1 DEF RingInv, DisjointInv
<1>8. \A i \in Slots : HeaderInv(i)'
  <2> SUFFICES ASSUME NEW i \in Slots, slotSeq[i] # SEQ_MAX PROVE HeaderInv(i)'
    BY <1>1 DEF HeaderInv
  <2>1. slotSeq[i] \in Nat /\ slotSeq[i] < toBeClaimedSeq
    BY DEF TypeOK, RingInv, HeaderInv
  <2>2. Idx(slotSeq[i]) = i /\ \A q \in Producers : slotSeq[i] \notin Unpublished(q)
    BY DEF RingInv, HeaderInv
  <2>3. slotSeq[i] \notin pnext[p] .. pend[p] - 1
    <3>1. CASE InFlight(p)
      BY <2>2, <3>1 DEF Unpublished
    <3>2. CASE ~InFlight(p)
      <4>1. toBeClaimedSeq = pnext[p]
        BY <1>1, <3>2
      <4> QED BY <2>1, <4>1
    <3> QED BY <3>1, <3>2
  <2>4. \A q \in Producers : slotSeq[i] \notin Unpublished(q)'
    BY <1>4, <1>5, <2>2, <2>3
  <2> QED BY <1>1, <1>3, <2>1, <2>2, <2>4 DEF HeaderInv
<1>9. ASSUME NEW c \in Consumers, Guards(c)' PROVE GuardInv(c)' /\ RangeInv(c)'
  <2>1. GuardInv(c) /\ RangeInv(c) /\ Low(c)' = Low(c) /\ Low(c) \in Nat
    BY <1>1, <1>3, <1>9 DEF RingInv, Guards, Low
  <2>2. Low(c) <= pnext[p]
    BY <1>1, <2>1 DEF GuardInv
  <2>3. pend[p] <= Low(c) + CAPACITY
    <3>1. CASE cpc[c] = "reset"
      BY <1>1, <1>3, <1>9, <3>1 DEF Guards, Low
    <3>2. CASE cpc[c] # "reset"
      BY <1>1, <2>1, <3>2, c < PARALLEL_CONSUMER_COUNT DEF GuardInv, Consumers
    <3> QED BY <3>1, <3>2
  <2>4. ASSUME NEW s \in Nat, Low(c) <= s, s < Low(c) + CAPACITY,
               s \notin pnext[p] .. pend[p] - 1
        PROVE  slotData'[Idx(s)] = slotData[Idx(s)]
    <3>1. \A t \in pnext[p] .. pend[p] - 1 : Idx(t) # Idx(s)
      BY <2>1, <2>2, <2>3, <2>4, LapApart
    <3> QED BY <1>2, <3>1, IdxType
  <2>5. ASSUME NEW q \in Producers, pc'[q] = "commit", NEW s \in pnext[q] .. pend[q] - 1
        PROVE  slotData'[Idx(s)] = s
    <3>1. q # p /\ pc[q] = "commit" /\ InFlight(q)
      BY <1>1, <2>5 DEF InFlight
    <3>2. slotData[Idx(s)] = s /\ Low(c) <= pnext[q] /\ pend[q] <= Low(c) + CAPACITY
      BY <2>1, <2>5, <3>1 DEF GuardInv
    <3>3. pend[p] <= pnext[q] \/ pend[q] <= pnext[p]
      BY <1>1, <1>4, <1>5, <1>7, <3>1 DEF DisjointInv
    <3> QED BY <2>1, <2>4, <2>5, <3>2, <3>3
  <2>6. ASSUME NEW s \in Low(c) .. toBeClaimedSeq' - 1,
               \A q \in Producers : s \notin Unpublished(q)'
        PROVE  Readable(s)' /\ s < Low(c) + CAPACITY
    <3>0. s \notin pnext[p] .. pend[p] - 1 /\ s \in Nat /\ Low(c) <= s
      BY <1>5, <2>1, <2>6
    <3>1. s \in Low(c) .. toBeClaimedSeq - 1
      BY <1>1, <2>1, <3>0, <1>3
    <3>2. \A q \in Producers : s \notin Unpublished(q)
      BY <1>4, <2>6, <3>0 DEF Unpublished
    <3>3. Readable(s) /\ s < Low(c) + CAPACITY
      BY <2>1, <3>1, <3>2 DEF GuardInv
    <3> QED BY <1>1, <2>4, <3>0, <3>3 DEF Readable
  <2>7. GuardInv(c)'
    <3>1. \A q \in Producers : InFlight(q)' => Low(c) <= pnext[q]
      BY <1>4, <2>1, <2>2 DEF GuardInv
    <3>2. \A q \in Producers : pc'[q] \in Writing => pend[q] <= Low(c) + CAPACITY
      BY <1>1, <2>1, <2>3 DEF GuardInv
    <3>3. \A q \in Producers : cpc[c] # "reset" /\ pc'[q] \in Scanning /\ scan'[q] > c =>
            pend[q] <= Low(c) + CAPACITY
      BY <1>1, <2>1 DEF GuardInv
    <3>4. Low(c) <= toBeClaimedSeq'
      BY <1>3, <2>1 DEF GuardInv
    <3> QED BY <1>1, <2>1, <2>5, <2>6, <3>1, <3>2, <3>3, <3>4 DEF GuardInv
  <2>8. RangeInv(c)'
    BY <1>1, <1>3, <1>4, <2>1 DEF RangeInv
  <2> QED BY <2>7, <2>8
<1> QED BY <1>6, <1>7, <1>8, <1>9 DEF RingInv

\* The bytes of a claim land in the slots of that claim and nowhere else.
LEMMA FillInv ==
  ASSUME TypeOK, RingInv, NEW p \in Producers, Fill(p) PROVE RingInv'
<1> USE ElementTypes, Consts DEF Scanning, Writing
<1>1. /\ UNCHANGED <<toBeClaimedSeq, slotSeq, readSeq, pnext, pend, scan,
                     cpc, cbegin, cend, cpos, ccount, intact>>
      /\ \A q \in Producers : q # p => pc'[q] = pc[q]
      /\ pc[p] = "fill" /\ pc'[p] = "commit"
  BY DEF Fill, consVars, TypeOK
<1>2. slotData' = [i \in Slots |->
        IF \E s \in pnext[p] .. pend[p] - 1 : Idx(s) = i
          THEN CHOOSE s \in pnext[p] .. pend[p] - 1 : Idx(s) = i
          ELSE slotData[i]]
  BY DEF Fill
<1>3. pnext[p] < pend[p] /\ pend[p] <= pnext[p] + CAPACITY /\ InFlight(p)
  BY <1>1 DEF RingInv, ClaimInv, InFlight
<1>4. \A q \in Producers : Unpublished(q)' = Unpublished(q) /\ InFlight(q)' = InFlight(q)
  BY <1>1 DEF Unpublished, InFlight
<1>5. \A q \in Producers : ClaimInv(q)'
  BY <1>1, <1>4 DEF RingInv, ClaimInv
<1>6. DisjointInv'
  BY <1>1, <1>4 DEF RingInv, DisjointInv
<1>7. \A i \in Slots : HeaderInv(i)'
  BY <1>1, <1>4 DEF RingInv, HeaderInv
<1>8. ASSUME NEW s \in pnext[p] .. pend[p] - 1 PROVE slotData'[Idx(s)] = s
  <2> DEFINE w == CHOOSE t \in pnext[p] .. pend[p] - 1 : Idx(t) = Idx(s)
  <2>1. w \in pnext[p] .. pend[p] - 1 /\ Idx(w) = Idx(s)
    BY <1>8
  <2>2. w = s
    BY <1>3, <2>1, LapApart, pnext[p] \in Nat
  <2>3. Idx(s) \in Slots
    BY IdxType
  <2>4. slotData'[Idx(s)] = w
    BY <1>2, <1>8, <2>3
  <2> QED BY <2>2, <2>4
<1>9. ASSUME NEW c \in Consumers, Guards(c)' PROVE GuardInv(c)' /\ RangeInv(c)'
  <2>1. GuardInv(c) /\ RangeInv(c) /\ Low(c)' = Low(c) /\ Low(c) \in Nat
    BY <1>1, <1>9 DEF RingInv, Guards, Low
  <2>2. Low(c) <= pnext[p] /\ pend[p] <= Low(c) + CAPACITY
    BY <1>1, <1>3, <2>1 DEF GuardInv
  <2>3. ASSUME NEW s \in Nat, Low(c) <= s, s < Low(c) + CAPACITY, slotData[Idx(s)] = s
        PROVE  slotData'[Idx(s)] = s
    <3>1. CASE s \in pnext[p] .. pend[p] - 1
      BY <1>8, <3>1
    <3>2. CASE s \notin pnext[p] .. pend[p] - 1
      <4>1. \A t \in pnext[p] .. pend[p] - 1 : Idx(t) # Idx(s)
        BY <2>1, <2>2, <2>3, <3>2, LapApart
      <4> QED BY <1>2, <2>3, <4>1, IdxType
    <3> QED BY <3>1, <3>2
  <2>4. ASSUME NEW q \in Producers, pc'[q] = "commit", NEW s \in pnext[q] .. pend[q] - 1
        PROVE  slotData'[Idx(s)] = s
    <3>1. CASE q = p
      BY <1>8, <2>4, <3>1
    <3>2. CASE q # p
      <4>1. pc[q] = "commit" /\ InFlight(q)
        BY <1>1, <2>4, <3>2 DEF InFlight
      <4>2. slotData[Idx(s)] = s /\ Low(c) <= pnext[q] /\ pend[q] <= Low(c) + CAPACITY
        BY <2>1, <2>4, <4>1 DEF GuardInv
      <4> QED BY <2>1, <2>3, <2>4, <4>2
    <3> QED BY <3>1, <3>2
  <2>5. \A s \in Low(c) .. toBeClaimedSeq - 1 :
          (\A q \in Producers : s \notin Unpublished(q)) =>
            Readable(s)' /\ s < Low(c) + CAPACITY
    BY <1>1, <2>1, <2>3 DEF GuardInv, Readable
  <2>6. GuardInv(c)'
    BY <1>1, <1>4, <2>1, <2>4, <2>5 DEF GuardInv
  <2>7. RangeInv(c)'
    BY <1>1, <1>4, <2>1 DEF RangeInv
  <2> QED BY <2>6, <2>7
<1> QED BY <1>5, <1>6, <1>7, <1>9 DEF RingInv

\* Publishing one number makes it readable and disturbs no other one.
LEMMA CommitInv ==
  ASSUME TypeOK, RingInv, NEW p \in Producers, Commit(p) PROVE RingInv'
<1> USE ElementTypes, Consts DEF Scanning, Writing
<1> DEFINE m == pnext[p]
<1>1. /\ UNCHANGED <<toBeClaimedSeq, slotData, readSeq, cpc, cbegin, cend, cpos, ccount,
                     intact>>
      /\ \A q \in Producers : q # p =>
           /\ pc'[q] = pc[q] /\ scan'[q] = scan[q]
           /\ pnext'[q] = pnext[q] /\ pend'[q] = pend[q]
      /\ pc[p] = "commit"
      /\ \/ m + 1 = pend[p] /\ pc'[p] = "idle" /\ pnext'[p] = 0
         \/ m + 1 < pend[p] /\ pc'[p] = "commit" /\ pnext'[p] = m + 1 /\ pend'[p] = pend[p]
  BY DEF Commit, Return, consVars, TypeOK
<1>2. slotSeq' = [slotSeq EXCEPT ![Idx(m)] = m] /\ slotSeq'[Idx(m)] = m /\ m # SEQ_MAX
  BY IdxType DEF Commit, TypeOK
<1>3. m < pend[p] /\ pend[p] <= m + CAPACITY /\ InFlight(p) /\ pend[p] <= toBeClaimedSeq
  BY <1>1 DEF RingInv, ClaimInv, InFlight
<1>4. \A q \in Producers : q # p =>
        Unpublished(q)' = Unpublished(q) /\ InFlight(q)' = InFlight(q)
  BY <1>1 DEF Unpublished, InFlight
<1>5. Unpublished(p)' = Unpublished(p) \ {m}
  BY <1>1, <1>3 DEF Unpublished, InFlight
<1>6. \A q \in Producers : ClaimInv(q)'
  BY <1>1, <1>3 DEF RingInv, ClaimInv, InFlight
<1>7. DisjointInv'
  <2>1. InFlight(p)' => pnext'[p] = m + 1 /\ pend'[p] = pend[p]
    BY <1>1 DEF InFlight
  <2> QED BY <1>1, <1>3, <1>4, <2>1 DEF RingInv, DisjointInv
<1>8. \A q \in Producers : m \notin Unpublished(q)'
  <2>1. ASSUME NEW q \in Producers, q # p PROVE m \notin Unpublished(q)
    <3>1. InFlight(q) => pend[p] <= pnext[q] \/ pend[q] <= m
      BY <1>3, <2>1 DEF RingInv, DisjointInv
    <3>2. InFlight(q) => m \notin pnext[q] .. pend[q] - 1
      BY <1>3, <3>1
    <3> QED BY <3>2 DEF Unpublished
  <2> QED BY <1>4, <1>5, <2>1
<1>9. \A i \in Slots : HeaderInv(i)'
  <2> SUFFICES ASSUME NEW i \in Slots PROVE HeaderInv(i)'
    OBVIOUS
  <2>1. CASE i = Idx(m)
    <3>1. slotSeq'[i] = m /\ Idx(m) = i
      BY <1>2, <2>1
    <3>2. m < toBeClaimedSeq'
      BY <1>1, <1>3
    <3> QED BY <1>8, <3>1, <3>2 DEF HeaderInv
  <2>2. CASE i # Idx(m)
    <3>1. slotSeq'[i] = slotSeq[i] /\ HeaderInv(i)
      BY <1>2, <2>2 DEF RingInv, TypeOK
    <3>2. \A q \in Producers : Unpublished(q)' \subseteq Unpublished(q)
      BY <1>4, <1>5
    <3> QED BY <1>1, <3>1, <3>2 DEF HeaderInv
  <2> QED BY <2>1, <2>2
<1>10. ASSUME NEW c \in Consumers, Guards(c)' PROVE GuardInv(c)' /\ RangeInv(c)'
  <2>1. GuardInv(c) /\ RangeInv(c) /\ Low(c)' = Low(c) /\ Low(c) \in Nat
    BY <1>1, <1>10 DEF RingInv, Guards, Low
  <2>2. Low(c) <= m /\ pend[p] <= Low(c) + CAPACITY /\ slotData[Idx(m)] = m
    BY <1>1, <1>3, <2>1 DEF GuardInv
  <2>3. ASSUME NEW s \in Low(c) .. toBeClaimedSeq - 1,
               \A q \in Producers : s \notin Unpublished(q)'
        PROVE  Readable(s)' /\ s < Low(c) + CAPACITY
    <3>1. CASE s = m
      BY <1>1, <1>2, <1>3, <2>1, <2>2, <3>1 DEF Readable
    <3>2. CASE s # m
      <4>1. \A q \in Producers : s \notin Unpublished(q)
        BY <1>4, <1>5, <2>3, <3>2
      <4>2. Readable(s) /\ s < Low(c) + CAPACITY /\ s \in Nat
        BY <2>1, <2>3, <4>1 DEF GuardInv
      <4>3. Idx(s) # Idx(m) /\ Idx(s) \in Slots
        BY <1>3, <2>1, <2>2, <2>3, <3>2, <4>2, LapApart, IdxType
      <4> QED BY <1>1, <1>2, <4>2, <4>3 DEF Readable, TypeOK
    <3> QED BY <3>1, <3>2
  <2>4. \A q \in Producers : InFlight(q)' => InFlight(q) /\ pnext[q] <= pnext'[q]
    BY <1>1, <1>3, <1>4 DEF InFlight
  <2>5. \A q \in Producers :
          /\ pc'[q] \in Writing => pc[q] \in Writing /\ pend'[q] = pend[q]
          /\ pc'[q] = "commit" => pc[q] = "commit" /\ pend'[q] = pend[q]
                                  /\ pnext[q] <= pnext'[q]
          /\ pc'[q] \in Scanning =>
               pc[q] \in Scanning /\ pend'[q] = pend[q] /\ scan'[q] = scan[q]
          /\ pnext'[q] \in Nat
    BY <1>1
  <2>6. \A q \in Producers : pc'[q] = "commit" =>
          \A s \in pnext'[q] .. pend'[q] - 1 : slotData[Idx(s)] = s
    BY <2>1, <2>5 DEF GuardInv
  <2>7. GuardInv(c)'
    <3>1. \A q \in Producers : InFlight(q)' => Low(c) <= pnext'[q]
      BY <2>1, <2>4, <2>5 DEF GuardInv
    <3> QED BY <1>1, <2>1, <2>3, <2>5, <2>6, <3>1 DEF GuardInv
  <2>8. RangeInv(c)'
    BY <1>1, <2>1, <2>4, <2>5 DEF RangeInv
  <2> QED BY <2>7, <2>8
<1> QED BY <1>6, <1>7, <1>9, <1>10 DEF RingInv

\* A consumer's steps that keep its cursor: PeekStart, PeekNext, PeekEnd, Handle and
\* ResetDone change only the range the consumer is working on.
LEMMA PeekInv ==
  ASSUME TypeOK, RingInv, NEW d \in Consumers,
         PeekStart(d) \/ PeekNext(d) \/ PeekEnd(d) \/ Handle(d) \/ ResetDone(d)
  PROVE  RingInv'
<1> USE ElementTypes, Consts DEF Scanning, Writing
<1>1. /\ UNCHANGED <<toBeClaimedSeq, slotSeq, slotData, readSeq, pc, pnext, pend, scan,
                     intact>>
      /\ \A c \in Consumers : c # d =>
           /\ cpc'[c] = cpc[c] /\ cbegin'[c] = cbegin[c] /\ cend'[c] = cend[c]
           /\ cpos'[c] = cpos[c] /\ ccount'[c] = ccount[c]
      /\ cpc[d] \notin {"off", "reset"} /\ cpc'[d] \notin {"off", "reset"}
  BY DEF PeekStart, PeekNext, PeekEnd, Handle, ResetDone, ForgetRange, ringVars, prodVars,
         TypeOK
<1>2. \A q \in Producers : Unpublished(q)' = Unpublished(q) /\ InFlight(q)' = InFlight(q)
  BY <1>1 DEF Unpublished, InFlight
<1>3. \A q \in Producers : ClaimInv(q)'
  BY <1>1, <1>2 DEF RingInv, ClaimInv
<1>4. DisjointInv'
  BY <1>1, <1>2 DEF RingInv, DisjointInv
<1>5. \A i \in Slots : HeaderInv(i)'
  BY <1>1, <1>2 DEF RingInv, HeaderInv
<1>6. ASSUME NEW c \in Consumers, Guards(c)' PROVE GuardInv(c)' /\ RangeInv(c)'
  <2>1. GuardInv(c) /\ RangeInv(c) /\ Low(c)' = Low(c) /\ Low(c) \in Nat
    BY <1>1, <1>6 DEF RingInv, Guards, Low
  <2>2. GuardInv(c)'
    BY <1>1, <1>2, <2>1 DEF GuardInv, Readable
  <2>3. CASE c # d
    BY <1>1, <1>2, <2>1, <2>2, <2>3 DEF RangeInv
  <2>4. ASSUME c = d PROVE RangeInv(d)'
    <3>1. readSeq[d] <= toBeClaimedSeq /\ \A q \in Producers : InFlight(q) => readSeq[d] <= pnext[q]
      BY <1>1, <2>1, <2>4 DEF GuardInv, Low
    <3>2. CASE PeekStart(d)
      BY <1>1, <1>2, <3>1, <3>2 DEF PeekStart, RangeInv, TypeOK
    <3>3. CASE PeekNext(d)
      <4>1. /\ cpc[d] = "peek" /\ cpc'[d] = "peek" /\ cend'[d] = cend[d] + 1
            /\ cbegin'[d] = cbegin[d] /\ slotSeq[Idx(cend[d])] = cend[d]
        BY <3>3 DEF PeekNext, PeekMore, TypeOK
      <4>2. /\ cbegin[d] = readSeq[d] /\ cbegin[d] <= cend[d] /\ cend[d] <= toBeClaimedSeq
            /\ \A q \in Producers : InFlight(q) => cend[d] <= pnext[q]
        BY <2>1, <2>4, <4>1 DEF RangeInv
      <4>3. cend[d] < toBeClaimedSeq /\ \A q \in Producers : cend[d] \notin Unpublished(q)
        BY <4>1, <4>2, IdxType DEF RingInv, HeaderInv
      <4>4. \A q \in Producers : InFlight(q) => pnext[q] < pend[q]
        BY DEF RingInv, ClaimInv, InFlight
      <4>5. \A q \in Producers : InFlight(q) => cend[d] + 1 <= pnext[q]
        <5> SUFFICES ASSUME NEW q \in Producers, InFlight(q) PROVE cend[d] + 1 <= pnext[q]
          OBVIOUS
        <5>1. pnext[q] \in Unpublished(q)
          BY <4>4 DEF Unpublished
        <5>2. cend[d] # pnext[q] /\ cend[d] <= pnext[q]
          BY <4>2, <4>3, <5>1
        <5> QED BY <5>2
      <4> QED BY <1>1, <1>2, <2>4, <4>1, <4>2, <4>3, <4>5 DEF RangeInv
    <3>4. CASE PeekEnd(d)
      <4>1. /\ cpc[d] = "peek" /\ cpc'[d] = "handle" /\ cend'[d] = cend[d]
            /\ cbegin'[d] = cbegin[d] /\ cpos'[d] = cbegin[d]
            /\ ccount'[d] = Wrap(cend[d] - readSeq[d])
        BY <3>4 DEF PeekEnd, TypeOK
      <4>2. Wrap(cend[d] - readSeq[d]) = cend[d] - cbegin[d]
        BY <2>1, <2>4, <4>1 DEF RangeInv, Wrap
      <4> QED BY <1>1, <1>2, <2>1, <2>4, <4>1, <4>2 DEF RangeInv
    <3>5. CASE Handle(d)
      <4>1. /\ cpc[d] = "handle" /\ cpc'[d] = "handle" /\ cend'[d] = cend[d]
            /\ cbegin'[d] = cbegin[d] /\ cpos'[d] = cpos[d] + 1 /\ cpos[d] < cend[d]
            /\ ccount'[d] = ccount[d]
        BY <3>5 DEF Handle, TypeOK
      <4> QED BY <1>1, <1>2, <2>1, <2>4, <4>1 DEF RangeInv
    <3>6. CASE ResetDone(d)
      BY <2>4, <3>6 DEF ResetDone, RangeInv, TypeOK
    <3> QED BY <3>2, <3>3, <3>4, <3>5, <3>6
  <2> QED BY <2>2, <2>3, <2>4
<1> QED BY <1>3, <1>4, <1>5, <1>6 DEF RingInv

\* The steps that move a cursor: LoadForReset, ResetStore and wasteAfterPeek.
LEMMA CursorInv ==
  ASSUME TypeOK, RingInv, NEW d \in Consumers,
         ResetStart(d) \/ ResetAgain(d) \/ ResetStore(d) \/ wasteAfterPeek(d)
  PROVE  RingInv'
<1> USE ElementTypes, Consts DEF Scanning, Writing
<1>0. LoadForReset(d) \/ ResetStore(d) \/ wasteAfterPeek(d)
  BY DEF ResetStart, ResetAgain
<1>1. /\ UNCHANGED <<toBeClaimedSeq, slotSeq, slotData, pc, pnext, pend, scan>>
      /\ \A c \in Consumers : c # d =>
           /\ cpc'[c] = cpc[c] /\ cbegin'[c] = cbegin[c] /\ cend'[c] = cend[c]
           /\ cpos'[c] = cpos[c] /\ ccount'[c] = ccount[c]
           /\ readSeq'[c] = readSeq[c] /\ intact'[c] = intact[c]
  BY <1>0 DEF LoadForReset, ResetStore, wasteAfterPeek, ForgetRange, ringVars, prodVars,
              TypeOK
<1>2. \A q \in Producers : Unpublished(q)' = Unpublished(q) /\ InFlight(q)' = InFlight(q)
  BY <1>1 DEF Unpublished, InFlight
<1>3. \A q \in Producers : ClaimInv(q)'
  BY <1>1, <1>2 DEF RingInv, ClaimInv
<1>4. DisjointInv'
  BY <1>1, <1>2 DEF RingInv, DisjointInv
<1>5. \A i \in Slots : HeaderInv(i)'
  BY <1>1, <1>2 DEF RingInv, HeaderInv
<1>6. ASSUME NEW c \in Consumers, c # d, Guards(c)' PROVE GuardInv(c)' /\ RangeInv(c)'
  <2>1. GuardInv(c) /\ RangeInv(c) /\ Low(c)' = Low(c) /\ Low(c) \in Nat
    BY <1>1, <1>6 DEF RingInv, Guards, Low
  <2>2. GuardInv(c)'
    BY <1>1, <1>2, <1>6, <2>1 DEF GuardInv, Readable
  <2>3. RangeInv(c)'
    BY <1>1, <1>2, <1>6, <2>1 DEF RangeInv
  <2> QED BY <2>2, <2>3
<1>7. ASSUME Guards(d)', LoadForReset(d) PROVE GuardInv(d)' /\ RangeInv(d)'
  <2>1. /\ cpc'[d] = "reset" /\ cbegin'[d] = toBeClaimedSeq
        /\ intact'[d] = (\A p \in Producers : ~InFlight(p))
    BY <1>7 DEF LoadForReset, TypeOK
  <2>2. \A p \in Producers : ~InFlight(p)
    BY <1>7, <2>1 DEF Guards
  <2>3. Low(d)' = toBeClaimedSeq
    BY <2>1 DEF Low
  <2>4. GuardInv(d)'
    BY <1>1, <1>2, <2>1, <2>2, <2>3 DEF GuardInv, InFlight
  <2>5. RangeInv(d)'
    BY <2>1 DEF RangeInv
  <2> QED BY <2>4, <2>5
<1>8. ASSUME Guards(d)', ResetStore(d) PROVE GuardInv(d)' /\ RangeInv(d)'
  <2>1. cpc[d] = "reset" /\ cpc'[d] = "check" /\ readSeq'[d] = cbegin[d]
    BY <1>8 DEF ResetStore, TypeOK
  <2>2. intact[d] /\ StoreInTime(d)
    <3>1. intact'[d] = (intact[d] /\ StoreInTime(d))
      BY <1>8 DEF ResetStore, TypeOK
    <3> QED BY <1>8, <3>1 DEF Guards
  <2>3. GuardInv(d) /\ Low(d)' = Low(d) /\ Low(d) = cbegin[d]
    BY <2>1, <2>2 DEF RingInv, Guards, StoreInTime, Low
  <2>4. \A p \in Producers : pc[p] \in Scanning /\ scan[p] > d => pend[p] <= Low(d) + CAPACITY
    BY <2>2, <2>3 DEF RingInv, ClaimInv, InFlight, StoreInTime
  <2>5. GuardInv(d)'
    BY <1>1, <1>2, <2>1, <2>3, <2>4 DEF GuardInv, Readable
  <2>6. RangeInv(d)'
    BY <2>1 DEF RangeInv
  <2> QED BY <2>5, <2>6
<1>9. ASSUME Guards(d)', wasteAfterPeek(d) PROVE GuardInv(d)' /\ RangeInv(d)'
  <2>1. /\ cpc[d] = "handle" /\ cpc'[d] = "idle" /\ intact'[d] = intact[d]
        /\ readSeq'[d] = Wrap(readSeq[d] + ccount[d])
    BY <1>9 DEF wasteAfterPeek, TypeOK
  <2>2. GuardInv(d) /\ RangeInv(d)
    BY <1>9, <2>1 DEF RingInv, Guards
  <2>3. Wrap(readSeq[d] + ccount[d]) = cend[d]
    BY <2>1, <2>2 DEF RangeInv, Wrap
  <2>4. Low(d) = readSeq[d] /\ Low(d)' = cend[d] /\ Low(d) <= Low(d)'
    BY <2>1, <2>2, <2>3 DEF Low, RangeInv
  <2>5. /\ cend[d] <= toBeClaimedSeq
        /\ \A p \in Producers : InFlight(p) => cend[d] <= pnext[p]
    BY <2>1, <2>2 DEF RangeInv
  <2>6. GuardInv(d)'
    BY <1>1, <1>2, <2>1, <2>2, <2>4, <2>5 DEF GuardInv, Readable
  <2>7. RangeInv(d)'
    BY <2>1 DEF RangeInv
  <2> QED BY <2>6, <2>7
<1>10. \A c \in Consumers : Guards(c)' => GuardInv(c)' /\ RangeInv(c)'
  BY <1>0, <1>6, <1>7, <1>8, <1>9
<1> QED BY <1>3, <1>4, <1>5, <1>10 DEF RingInv

\* Every step of a sender keeps the invariant.
LEMMA SendInv ==
  ASSUME TypeOK, RingInv, NEW p \in Producers, Send(p) PROVE RingInv'
BY ScanPassInv, PrivateInv, SlayInv, ClaimStepInv, GrantedInv, FillInv, CommitInv DEF Send

\* Every step of a consumer keeps the invariant, leaving included.
LEMMA ConsumeInv ==
  ASSUME TypeOK, RingInv, NEW c \in Consumers, Consume(c) \/ Leave(c) PROVE RingInv'
<1>1. CASE Off(c)
  <2>1. markDead(c)
    BY <1>1 DEF Off
  <2>2. UNCHANGED <<toBeClaimedSeq, slotSeq, slotData, pc, pnext, pend, scan>>
    BY <1>1 DEF Off, ringVars, prodVars
  <2>3. \A d \in Consumers : d # c =>
          /\ cpc'[d] = cpc[d] /\ cbegin'[d] = cbegin[d] /\ cend'[d] = cend[d]
          /\ cpos'[d] = cpos[d] /\ ccount'[d] = ccount[d]
    BY <1>1 DEF Off, ForgetRange, TypeOK
  <2> QED BY <2>1, <2>2, <2>3, MarkDeadInv
<1>2. CASE ~Off(c)
  BY <1>2, PeekInv, CursorInv DEF Consume, PeekDead, Leave
<1> QED BY <1>1, <1>2

\* purge only marks cursors dead.
LEMMA PurgeInv == ASSUME TypeOK, RingInv, purge PROVE RingInv'
<1>1. ASSUME NEW c \in Consumers, PurgeMark(c) PROVE RingInv'
  <2>1. markDead(c)
    BY <1>1 DEF PurgeMark
  <2>2. UNCHANGED <<toBeClaimedSeq, slotSeq, slotData, pc, pnext, pend, scan,
                    cpc, cbegin, cend, cpos, ccount>>
    BY <1>1 DEF PurgeMark, ringVars, prodVars, consVars
  <2> QED BY <2>1, <2>2, MarkDeadInv
<1>2. CASE PurgeVisit \/ PurgeCompare \/ PurgeFound \/ PurgeReturn
  <2>1. UNCHANGED <<toBeClaimedSeq, slotSeq, slotData, readSeq, pc, pnext, pend, scan,
                    cpc, cbegin, cend, cpos, ccount, intact>>
    BY <1>2 DEF PurgeVisit, PurgeCompare, PurgeFound, PurgeReturn, ringVars, prodVars,
                consVars
  <2> QED
    BY <2>1 DEF RingInv, ClaimInv, DisjointInv, HeaderInv, Guards, GuardInv, RangeInv, Low,
                InFlight, Unpublished, Readable
<1> QED BY <1>1, <1>2 DEF purge

\* The invariant is inductive.
LEMMA RingStep == TypeOK /\ RingInv /\ [Next]_vars => RingInv'
<1> SUFFICES ASSUME TypeOK, RingInv, [Next]_vars PROVE RingInv'
  OBVIOUS
<1>1. CASE UNCHANGED vars
  BY <1>1 DEF vars, ringVars, prodVars, consVars, RingInv, ClaimInv, DisjointInv, HeaderInv,
              Guards, GuardInv, RangeInv, Low, InFlight, Unpublished, Readable
<1> QED BY <1>1, SendInv, ConsumeInv, PurgeInv DEF Next

\* The inductive invariant holds in every reachable state, for any number of senders
\* and cursors, any capacity, batch size and mix of blocking, trying and killing calls.
THEOREM RingCorrect == Spec => []RingInv
BY TypeCorrect, RingInit, RingStep, PTL DEF Spec

-----------------------------------------------------------------------------
\* A member holds the ring back from its cursor on.
LEMMA MemberGuards ==
  ASSUME TypeOK, RingInv, NEW c \in Consumers, Member(c)
  PROVE  GuardInv(c) /\ RangeInv(c) /\ Low(c) = readSeq[c]
BY DEF RingInv, Member, Guards, Low

\* The invariant implies NothingLost.
LEMMA RingKeeps == TypeOK /\ RingInv => NothingLost
<1> SUFFICES ASSUME TypeOK, RingInv, NEW c \in Consumers, Member(c),
                    NEW s \in readSeq[c] .. toBeClaimedSeq - 1,
                    \A p \in Producers : s \notin Unpublished(p)
             PROVE  Readable(s)
  BY DEF NothingLost
<1> QED BY MemberGuards DEF GuardInv

\* The invariant implies NoDataRace.
LEMMA RingExcludes == TypeOK /\ RingInv => NoDataRace
<1> USE ElementTypes, Consts DEF Writing
<1> SUFFICES ASSUME TypeOK, RingInv, NEW c \in Consumers, NEW p \in Producers,
                    Member(c), pc[p] \in Writing
             PROVE  /\ cpc[c] = "handle" =>
                         \A s \in pnext[p] .. pend[p] - 1, t \in cbegin[c] .. cend[c] - 1 :
                           Idx(s) # Idx(t)
                    /\ \A q \in Producers \ {p} : pc[q] \in Writing =>
                         \A s \in pnext[p] .. pend[p] - 1, t \in pnext[q] .. pend[q] - 1 :
                           Idx(s) # Idx(t)
  BY DEF NoDataRace
<1>1. GuardInv(c) /\ RangeInv(c) /\ Low(c) = readSeq[c] /\ Low(c) \in Nat
  BY MemberGuards
<1>2. \A q \in Producers : pc[q] \in Writing =>
        InFlight(q) /\ Low(c) <= pnext[q] /\ pend[q] <= Low(c) + CAPACITY
  BY <1>1 DEF GuardInv, InFlight
<1>3. ASSUME cpc[c] = "handle",
             NEW s \in pnext[p] .. pend[p] - 1, NEW t \in cbegin[c] .. cend[c] - 1
      PROVE  Idx(s) # Idx(t)
  <2>1. cbegin[c] = Low(c) /\ cend[c] <= pnext[p]
    BY <1>1, <1>2, <1>3 DEF RangeInv
  <2>2. /\ s \in Nat /\ Low(c) <= s /\ s < Low(c) + CAPACITY
        /\ t \in Nat /\ Low(c) <= t /\ t < Low(c) + CAPACITY /\ s # t
    BY <1>1, <1>2, <2>1
  <2> QED BY <1>1, <2>2, LapApart
<1>4. ASSUME NEW q \in Producers \ {p}, pc[q] \in Writing,
             NEW s \in pnext[p] .. pend[p] - 1, NEW t \in pnext[q] .. pend[q] - 1
      PROVE  Idx(s) # Idx(t)
  <2>1. pend[p] <= pnext[q] \/ pend[q] <= pnext[p]
    BY <1>2, <1>4 DEF RingInv, DisjointInv
  <2>2. /\ s \in Nat /\ Low(c) <= s /\ s < Low(c) + CAPACITY
        /\ t \in Nat /\ Low(c) <= t /\ t < Low(c) + CAPACITY /\ s # t
    BY <1>1, <1>2, <1>4, <2>1
  <2> QED BY <1>1, <2>2, LapApart
<1> QED BY <1>3, <1>4

\* No message is lost to a member, for every number of senders, cursors and slots: what
\* was claimed at or after its cursor is still its sender's or is whole in its slot.
THEOREM MessagesKept == Spec => []NothingLost
BY TypeCorrect, RingCorrect, RingKeeps, PTL

\* While somebody is a member, no slot is written by two senders at a time and none is
\* written under a member that is handling it.
THEOREM SlotsExclusive == Spec => []NoDataRace
BY TypeCorrect, RingCorrect, RingExcludes, PTL

-----------------------------------------------------------------------------
(***************************************************************************)
(* The log as the ring represents it: the expressions that Log puts in the *)
(* place of the variables of BroadcastLog, and its actions in their terms. *)
(***************************************************************************)
LogPublished == {s \in 0 .. toBeClaimedSeq - 1 :
                   \A p \in Producers : s \notin Unpublished(p)}

NextOf(c) == IF ~Member(c) THEN -1 ELSE IF cpc[c] = "handle" THEN cpos[c] ELSE readSeq[c]
GotOf(c) == IF Member(c) THEN last[c] ELSE NONE

LogNext == [c \in Consumers |-> NextOf(c)]
LogGot == [c \in Consumers |-> GotOf(c)]

LogStutter == UNCHANGED <<toBeClaimedSeq, LogPublished, LogNext, LogGot>>

LogAnnounce ==
  /\ toBeClaimedSeq' \in toBeClaimedSeq + 1 .. MaxSeq
  /\ UNCHANGED <<LogPublished, LogNext, LogGot>>

LogPublish(s) ==
  /\ s \in (0 .. toBeClaimedSeq - 1) \ LogPublished
  /\ LogPublished' = LogPublished \cup {s}
  /\ UNCHANGED <<toBeClaimedSeq, LogNext, LogGot>>

LogJoin(c, s) ==
  /\ LogNext[c] = -1
  /\ s \in 0 .. toBeClaimedSeq
  /\ LogNext' = [LogNext EXCEPT ![c] = s]
  /\ LogGot' = [LogGot EXCEPT ![c] = NONE]
  /\ UNCHANGED <<toBeClaimedSeq, LogPublished>>

LogLeave(c) ==
  /\ LogNext[c] # -1
  /\ LogNext' = [LogNext EXCEPT ![c] = -1]
  /\ LogGot' = [LogGot EXCEPT ![c] = NONE]
  /\ UNCHANGED <<toBeClaimedSeq, LogPublished>>

LogDeliver(c) ==
  /\ LogNext[c] # -1
  /\ LogNext[c] \in LogPublished
  /\ LogGot' = [LogGot EXCEPT ![c] = LogNext[c]]
  /\ LogNext' = [LogNext EXCEPT ![c] = @ + 1]
  /\ UNCHANGED <<toBeClaimedSeq, LogPublished>>

LogStep ==
  \/ LogStutter \/ LogAnnounce
  \/ \E s \in Nat : LogPublish(s)
  \/ \E c \in Consumers : LogLeave(c) \/ LogDeliver(c) \/ \E s \in Nat : LogJoin(c, s)

\* These are the steps of the log under the refinement mapping.
LEMMA LogStepIsStep == TypeOK /\ LogStep => [Log!Next]_(Log!vars)
<1> SUFFICES ASSUME TypeOK, LogStep, Log!vars' # Log!vars PROVE Log!Next
  BY DEF LogStep
<1> USE DEF LogPublished, LogNext, LogGot, NextOf, GotOf
<1>1. CASE LogStutter
  BY <1>1 DEF LogStutter, Log!vars
<1>2. CASE LogAnnounce
  BY <1>2 DEF LogAnnounce, Log!Next, Log!Announce
<1>3. ASSUME NEW s \in Nat, LogPublish(s) PROVE Log!Next
  BY <1>3 DEF LogPublish, Log!Next, Log!Publish
<1>4. ASSUME NEW c \in Consumers, LogLeave(c) PROVE Log!Next
  BY <1>4 DEF LogLeave, Log!Next, Log!Leave
<1>5. ASSUME NEW c \in Consumers, LogDeliver(c) PROVE Log!Next
  BY <1>5 DEF LogDeliver, Log!Next, Log!Deliver
<1>6. ASSUME NEW c \in Consumers, NEW s \in Nat, LogJoin(c, s) PROVE Log!Next
  <2>1. LogNext' \in {[LogNext EXCEPT ![c] = t] : t \in 0 .. toBeClaimedSeq}
    <3> HIDE DEF LogNext
    <3> QED BY <1>6 DEF LogJoin
  <2>2. Log!Join(c)
    BY <1>6, <2>1, Zenon DEF LogJoin, Log!Join
  <2> QED BY <2>2, Zenon DEF Log!Next
<1> QED BY <1>1, <1>2, <1>3, <1>4, <1>5, <1>6 DEF LogStep

-----------------------------------------------------------------------------
\* The log's view of a client follows from its own cursor and range.
LEMMA ClientView ==
  /\ DOMAIN LogNext = Consumers /\ DOMAIN LogGot = Consumers
  /\ \A c \in Consumers : LogNext[c] = NextOf(c) /\ LogGot[c] = GotOf(c)
BY DEF LogNext, LogGot

\* A step that moves no cursor and no range leaves every client's view alone.
LEMMA ClientsKept ==
  ASSUME UNCHANGED <<readSeq, cpc, cpos, intact, last>>
  PROVE  UNCHANGED <<LogNext, LogGot>>
BY DEF LogNext, LogGot, NextOf, GotOf, Member

\* A step of one client leaves the views of the others alone.
LEMMA OthersKept ==
  ASSUME NEW d \in Consumers,
         \A c \in Consumers \ {d} :
           /\ readSeq'[c] = readSeq[c] /\ cpc'[c] = cpc[c] /\ cpos'[c] = cpos[c]
           /\ intact'[c] = intact[c] /\ last'[c] = last[c]
  PROVE  /\ LogNext' = [LogNext EXCEPT ![d] = NextOf(d)']
         /\ LogGot' = [LogGot EXCEPT ![d] = GotOf(d)']
<1>1. \A c \in Consumers \ {d} : NextOf(c)' = NextOf(c) /\ GotOf(c)' = GotOf(c)
  BY DEF NextOf, GotOf, Member
<1> QED BY <1>1 DEF LogNext, LogGot

\* A member's next message is a number, so it differs from OFF.
LEMMA MemberOn ==
  ASSUME TypeOK, NEW c \in Consumers PROVE Member(c) <=> NextOf(c) # -1
BY ElementTypes DEF NextOf

\* What is published depends on the counter and on what is unpublished only.
LEMMA PublishedKept ==
  ASSUME toBeClaimedSeq' = toBeClaimedSeq,
         \A p \in Producers : Unpublished(p)' = Unpublished(p)
  PROVE  LogPublished' = LogPublished
BY DEF LogPublished

\* The numbers below a bound.
LEMMA Below == \A n, s \in Nat : s \in 0 .. n - 1 <=> s < n
OBVIOUS

\* Taking numbers from the counter announces them and publishes nothing.
LEMMA AnnounceStep ==
  ASSUME TypeOK, TypeOK', NEW p \in Producers, toBeClaimedSeq < toBeClaimedSeq',
         \A s \in Nat :
           /\ s \notin Unpublished(p)
           /\ s \in Unpublished(p)' <=> toBeClaimedSeq <= s /\ s < toBeClaimedSeq',
         \A q \in Producers \ {p} : Unpublished(q)' = Unpublished(q),
         UNCHANGED <<readSeq, cpc, cpos, intact, last>>
  PROVE  LogAnnounce
<1>1. toBeClaimedSeq \in Nat /\ toBeClaimedSeq' \in Nat /\ toBeClaimedSeq' <= MaxSeq
  BY ElementTypes, Consts DEF TypeOK
<1>2. ASSUME NEW s \in Nat
      PROVE  s \in LogPublished' <=> s \in LogPublished
  <2>1. s \in LogPublished <=>
          s < toBeClaimedSeq /\ \A q \in Producers : s \notin Unpublished(q)
    BY <1>1 DEF LogPublished
  <2>2. s \in LogPublished' <=>
          s < toBeClaimedSeq' /\ \A q \in Producers : s \notin Unpublished(q)'
    <3>1. s \in 0 .. toBeClaimedSeq' - 1 <=> s < toBeClaimedSeq'
      BY <1>1, Below, Zenon
    <3> QED BY <3>1, Zenon DEF LogPublished
  <2>3. (\A q \in Producers : s \notin Unpublished(q)') <=>
          s \notin Unpublished(p)' /\ \A q \in Producers : s \notin Unpublished(q)
    BY Zenon
  <2> QED BY <1>1, <2>1, <2>2, <2>3
<1>3. LogPublished \subseteq Nat /\ LogPublished' \subseteq Nat
  BY <1>1 DEF LogPublished
<1>4. LogPublished' = LogPublished
  BY <1>2, <1>3
<1>5. toBeClaimedSeq' \in toBeClaimedSeq + 1 .. MaxSeq
  BY <1>1, Consts
<1> QED BY <1>4, <1>5, ClientsKept DEF LogAnnounce

\* A client that is no member after a step has left, or was none before.
LEMMA LeaveStep ==
  ASSUME TypeOK, NEW d \in Consumers, ~Member(d)',
         toBeClaimedSeq' = toBeClaimedSeq,
         \A p \in Producers : Unpublished(p)' = Unpublished(p),
         \A c \in Consumers \ {d} :
           /\ readSeq'[c] = readSeq[c] /\ cpc'[c] = cpc[c] /\ cpos'[c] = cpos[c]
           /\ intact'[c] = intact[c] /\ last'[c] = last[c]
  PROVE  LogStep
<1>1. NextOf(d)' = -1 /\ GotOf(d)' = NONE
  BY DEF NextOf, GotOf
<1>2. /\ LogNext' = [LogNext EXCEPT ![d] = -1]
      /\ LogGot' = [LogGot EXCEPT ![d] = NONE]
      /\ LogPublished' = LogPublished
  BY <1>1, OthersKept, PublishedKept
<1>3. CASE Member(d)
  BY <1>2, <1>3, MemberOn, ClientView DEF LogStep, LogLeave
<1>4. CASE ~Member(d)
  <2>1. LogNext[d] = -1 /\ LogGot[d] = NONE
    BY <1>4, ClientView DEF NextOf, GotOf
  <2>2. UNCHANGED <<LogNext, LogGot>>
    BY <1>2, <2>1, ClientView DEF LogNext, LogGot
  <2> QED BY <1>2, <2>2 DEF LogStep, LogStutter
<1> QED BY <1>3, <1>4

-----------------------------------------------------------------------------
\* Claim, KillClaim and TryGranted announce numbers; Commit publishes one; Slay makes
\* a member leave; the other steps of a sender are invisible.
LEMMA SendRefines ==
  ASSUME TypeOK, TypeOK', RingInv, NEW p \in Producers, Send(p) PROVE LogStep
<1> USE ElementTypes, Consts DEF Scanning, Writing
<1>1. ASSUME NEW n \in 1 .. MaxBatch, Claim(p, n) \/ KillClaim(p, n) PROVE LogStep
  <2>1. /\ pc[p] = "idle" /\ pc'[p] \in {"claim", "kill"}
        /\ pnext'[p] = toBeClaimedSeq /\ pend'[p] = toBeClaimedSeq + n
        /\ toBeClaimedSeq' = toBeClaimedSeq + n /\ n \in Nat /\ n > 0
        /\ UNCHANGED <<readSeq, cpc, cpos, intact, last>>
        /\ \A q \in Producers \ {p} :
             pc'[q] = pc[q] /\ pnext'[q] = pnext[q] /\ pend'[q] = pend[q]
    BY <1>1 DEF Claim, KillClaim, FetchAdd, consVars, TypeOK
  <2>2. \A q \in Producers \ {p} : Unpublished(q)' = Unpublished(q)
    BY <2>1 DEF Unpublished, InFlight
  <2>3. \A s \in Nat :
          /\ s \notin Unpublished(p)
          /\ s \in Unpublished(p)' <=> toBeClaimedSeq <= s /\ s < toBeClaimedSeq'
    BY <2>1 DEF Unpublished, InFlight
  <2> QED BY <2>1, <2>2, <2>3, AnnounceStep DEF LogStep
<1>2. CASE TryGranted(p)
  <2>1. /\ pc[p] = "try" /\ pc'[p] = "fill"
        /\ pnext[p] = toBeClaimedSeq /\ pend[p] = toBeClaimedSeq' /\ pnext[p] < pend[p]
        /\ pnext'[p] = pnext[p] /\ pend'[p] = pend[p]
        /\ UNCHANGED <<readSeq, cpc, cpos, intact, last>>
        /\ \A q \in Producers \ {p} :
             pc'[q] = pc[q] /\ pnext'[q] = pnext[q] /\ pend'[q] = pend[q]
    BY <1>2 DEF TryGranted, StartWriting, consVars, TypeOK, RingInv, ClaimInv
  <2>2. \A q \in Producers \ {p} : Unpublished(q)' = Unpublished(q)
    BY <2>1 DEF Unpublished, InFlight
  <2>3. \A s \in Nat :
          /\ s \notin Unpublished(p)
          /\ s \in Unpublished(p)' <=> toBeClaimedSeq <= s /\ s < toBeClaimedSeq'
    BY <2>1 DEF Unpublished, InFlight
  <2> QED BY <2>1, <2>2, <2>3, AnnounceStep DEF LogStep
<1>3. CASE Commit(p)
  <2> DEFINE m == pnext[p]
  <2>1. /\ pc[p] = "commit" /\ m < pend[p] /\ pend[p] <= toBeClaimedSeq /\ InFlight(p)
        /\ UNCHANGED <<toBeClaimedSeq, readSeq, cpc, cpos, intact, last>>
        /\ \A q \in Producers \ {p} :
             pc'[q] = pc[q] /\ pnext'[q] = pnext[q] /\ pend'[q] = pend[q]
        /\ \/ m + 1 = pend[p] /\ pc'[p] = "idle"
           \/ pc'[p] = "commit" /\ pnext'[p] = m + 1 /\ pend'[p] = pend[p]
    BY <1>3 DEF Commit, Return, consVars, TypeOK, RingInv, ClaimInv, InFlight
  <2>2. \A q \in Producers \ {p} : Unpublished(q)' = Unpublished(q)
    BY <2>1 DEF Unpublished, InFlight
  <2>3. \A s \in Nat : s \in Unpublished(p)' <=> s \in Unpublished(p) /\ s # m
    BY <2>1 DEF Unpublished, InFlight
  <2>4. m \in Nat /\ m \in Unpublished(p) /\ m < toBeClaimedSeq
    BY <2>1 DEF Unpublished
  <2>5. \A q \in Producers \ {p} : m \notin Unpublished(q)
    BY <2>1 DEF RingInv, DisjointInv, Unpublished
  <2>6. m \in (0 .. toBeClaimedSeq - 1) \ LogPublished
    BY <2>4 DEF LogPublished
  <2> HIDE DEF m
  <2>7. ASSUME NEW s \in Nat
        PROVE  s \in LogPublished' <=> s \in LogPublished \/ s = m
    <3>1. s \in LogPublished <=>
            s \in 0 .. toBeClaimedSeq - 1 /\ \A q \in Producers : s \notin Unpublished(q)
      BY Zenon DEF LogPublished
    <3>2. s \in LogPublished' <=>
            s \in 0 .. toBeClaimedSeq - 1 /\ \A q \in Producers : s \notin Unpublished(q)'
      BY <2>1, Zenon DEF LogPublished
    <3>3. CASE s = m
      <4>1. ASSUME NEW q \in Producers PROVE s \notin Unpublished(q)'
        <5>1. CASE q = p
          BY <2>3, <3>3, <5>1, Zenon
        <5>2. CASE q # p
          BY <2>2, <2>5, <3>3, <5>2
        <5> QED BY <5>1, <5>2
      <4>2. s \in 0 .. toBeClaimedSeq - 1
        BY <2>6, <3>3
      <4> QED BY <3>2, <3>3, <4>1, <4>2, Zenon
    <3>4. CASE s # m
      <4>1. ASSUME NEW q \in Producers PROVE s \in Unpublished(q)' <=> s \in Unpublished(q)
        <5>1. CASE q = p
          BY <2>3, <3>4, <5>1, Zenon
        <5>2. CASE q # p
          BY <2>2, <5>2
        <5> QED BY <5>1, <5>2
      <4> QED BY <3>1, <3>2, <3>4, <4>1, Zenon
    <3> QED BY <3>3, <3>4
  <2>8. LogPublished \subseteq Nat /\ LogPublished' \subseteq Nat
    BY <2>1 DEF LogPublished
  <2>9. LogPublished' = LogPublished \cup {m}
    <3>1. ASSUME NEW s PROVE s \in LogPublished' <=> s \in LogPublished \cup {m}
      <4>1. CASE s \in Nat
        BY <2>7, <4>1, Zenon
      <4>2. CASE s \notin Nat
        <5>1. m \in Nat
          BY <2>4
        <5>2. s \notin LogPublished /\ s \notin LogPublished' /\ s # m
          BY <2>8, <4>2, <5>1
        <5> QED BY <5>2
      <4> QED BY <4>1, <4>2
    <3> QED BY <3>1, Zenon
  <2>10. LogPublish(m)
    BY <2>1, <2>6, <2>9, ClientsKept DEF LogPublish
  <2> QED BY <2>4, <2>10 DEF LogStep
<1>4. CASE Slay(p)
  <2>0. PICK d \in Consumers : d = find[p].at
    BY <1>4 DEF Slay, TypeOK, Finder
  <2>1. ~Member(d)'
    BY <1>4, <2>0 DEF Slay, markDead, TypeOK, Member
  <2>2. toBeClaimedSeq' = toBeClaimedSeq
    BY <1>4 DEF Slay, ringVars
  <2>3. \A q \in Producers : Unpublished(q)' = Unpublished(q)
    <3>1. /\ UNCHANGED <<pnext, pend>>
          /\ \A q \in Producers : pc'[q] = pc[q] \/ (pc[q] = "slay" /\ pc'[q] = "kill")
      BY <1>4 DEF Slay, TypeOK
    <3> QED BY <3>1 DEF Unpublished, InFlight
  <2>4. \A c \in Consumers \ {d} :
           /\ readSeq'[c] = readSeq[c] /\ cpc'[c] = cpc[c] /\ cpos'[c] = cpos[c]
           /\ intact'[c] = intact[c] /\ last'[c] = last[c]
    <3>1. UNCHANGED <<cpc, cpos, last>>
      BY <1>4 DEF Slay, consVars
    <3>2. /\ readSeq' = [readSeq EXCEPT ![d] = READ_SEQ_MAX]
          /\ intact' = [intact EXCEPT ![d] = FALSE]
      BY <1>4, <2>0 DEF Slay, markDead
    <3> QED BY <3>1, <3>2 DEF TypeOK
  <2> QED BY <2>1, <2>2, <2>3, <2>4, LeaveStep, Zenon
<1>5. CASE \/ ScanPass(p) \/ ClaimRetry(p) \/ TryFull(p) \/ KillFind(p)
           \/ KillCompare(p) \/ Granted(p) \/ TryReload(p) \/ Fill(p) \/ \E n \in 1 .. MaxBatch : TryLoad(p, n)
  <2>1. UNCHANGED <<toBeClaimedSeq, readSeq, cpc, cpos, intact, last>>
    BY <1>5 DEF ScanPass, ClaimRetry, TryFull, KillFind, KillCompare, Granted, TryReload,
                Fill, TryLoad, ringVars, consVars
  <2>2. /\ Unpublished(p)' = Unpublished(p)
        /\ \A q \in Producers \ {p} :
             pc'[q] = pc[q] /\ pnext'[q] = pnext[q] /\ pend'[q] = pend[q]
    <3>1. CASE ScanPass(p) \/ ClaimRetry(p) \/ KillCompare(p)
      <4>1. UNCHANGED <<pc, pnext, pend>>
        BY <3>1 DEF ScanPass, ClaimRetry, KillCompare
      <4> QED BY <4>1 DEF Unpublished, InFlight
    <3>2. CASE TryFull(p)
      BY <3>2 DEF TryFull, Return, TypeOK, Unpublished, InFlight
    <3>3. CASE KillFind(p)
      BY <3>3 DEF KillFind, TypeOK, Unpublished, InFlight
    <3>4. CASE Granted(p)
      BY <3>4 DEF Granted, StartWriting, TypeOK, Unpublished, InFlight
    <3>5. CASE TryReload(p)
      BY <3>5 DEF TryReload, TypeOK, Unpublished, InFlight
    <3>6. CASE Fill(p)
      BY <3>6 DEF Fill, TypeOK, Unpublished, InFlight
    <3>7. ASSUME NEW n \in 1 .. MaxBatch, TryLoad(p, n) PROVE <2>2!1 /\ <2>2!2
      BY <3>7 DEF TryLoad, TypeOK, Unpublished, InFlight
    <3> QED BY <1>5, <3>1, <3>2, <3>3, <3>4, <3>5, <3>6, <3>7
  <2>3. \A q \in Producers : Unpublished(q)' = Unpublished(q)
    BY <2>2 DEF Unpublished, InFlight
  <2> QED BY <2>1, <2>3, ClientsKept, PublishedKept DEF LogStep, LogStutter
<1> QED BY <1>1, <1>2, <1>3, <1>4, <1>5 DEF Send
\* A step of a consumer that hands over nothing and keeps it a member, or keeps it out,
\* is invisible when the next message stays the same.
LEMMA QuietStep ==
  ASSUME TypeOK, NEW d \in Consumers,
         Member(d)' <=> Member(d),
         Member(d) => NextOf(d)' = NextOf(d) /\ last'[d] = last[d],
         toBeClaimedSeq' = toBeClaimedSeq,
         \A p \in Producers : Unpublished(p)' = Unpublished(p),
         \A c \in Consumers \ {d} :
           /\ readSeq'[c] = readSeq[c] /\ cpc'[c] = cpc[c] /\ cpos'[c] = cpos[c]
           /\ intact'[c] = intact[c] /\ last'[c] = last[c]
  PROVE  LogStep
<1>1. NextOf(d)' = LogNext[d] /\ GotOf(d)' = LogGot[d]
  <2>1. CASE Member(d)
    BY <2>1, ClientView DEF GotOf
  <2>2. CASE ~Member(d)
    BY <2>2, ClientView DEF NextOf, GotOf
  <2> QED BY <2>1, <2>2
<1>2. UNCHANGED <<LogNext, LogGot>>
  BY <1>1, OthersKept DEF LogNext, LogGot
<1> QED BY <1>2, PublishedKept DEF LogStep, LogStutter

\* What a consumer's step leaves alone: the counter, the claims and the other clients.
LEMMA ConsumeFrame ==
  ASSUME TypeOK, NEW d \in Consumers, Consume(d) \/ Leave(d)
  PROVE  /\ toBeClaimedSeq' = toBeClaimedSeq
         /\ \A p \in Producers : Unpublished(p)' = Unpublished(p)
         /\ \A c \in Consumers \ {d} :
              /\ readSeq'[c] = readSeq[c] /\ cpc'[c] = cpc[c] /\ cpos'[c] = cpos[c]
              /\ intact'[c] = intact[c] /\ last'[c] = last[c]
<1>1. CASE PeekDead(d) \/ Leave(d)
  BY <1>1 DEF PeekDead, Leave, Off, markDead, ForgetRange, ringVars, prodVars, TypeOK,
              Unpublished, InFlight
<1>2. CASE ResetStart(d) \/ ResetAgain(d)
  BY <1>2 DEF ResetStart, ResetAgain, LoadForReset, ringVars, prodVars, TypeOK,
              Unpublished, InFlight
<1>3. CASE ResetStore(d) \/ ResetDone(d) \/ PeekStart(d) \/ PeekNext(d) \/ PeekEnd(d)
  BY <1>3 DEF ResetStore, ResetDone, PeekStart, PeekNext, PeekEnd, ForgetRange, ringVars,
              prodVars, TypeOK, Unpublished, InFlight
<1>4. CASE Handle(d) \/ wasteAfterPeek(d)
  BY <1>4 DEF Handle, wasteAfterPeek, ForgetRange, ringVars, prodVars, TypeOK,
              Unpublished, InFlight
<1> QED BY <1>1, <1>2, <1>3, <1>4 DEF Consume

\* ResetStore is how a client joins, Handle delivers, and a client leaves when it stops,
\* is found dead or resets once more; peek and wasteAfterPeek are invisible.
LEMMA ConsumeRefines ==
  ASSUME TypeOK, RingInv, NEW d \in Consumers, Consume(d) \/ Leave(d)
  PROVE  LogStep
<1> USE ElementTypes, Consts
<1>1. CASE ResetStart(d) \/ ResetAgain(d) \/ PeekDead(d) \/ Leave(d)
  <2>1. ~Member(d)'
    <3>1. CASE ResetStart(d) \/ ResetAgain(d)
      BY <3>1 DEF ResetStart, ResetAgain, LoadForReset, Member, TypeOK
    <3>2. CASE PeekDead(d) \/ Leave(d)
      BY <3>2 DEF PeekDead, Leave, Off, markDead, Member, TypeOK
    <3> QED BY <1>1, <3>1, <3>2
  <2> QED BY <2>1, ConsumeFrame, LeaveStep, Zenon
<1>2. CASE ResetStore(d)
  <2>1. /\ cpc[d] = "reset" /\ cpc'[d] = "check" /\ readSeq'[d] = cbegin[d]
        /\ intact'[d] = (intact[d] /\ StoreInTime(d)) /\ last'[d] = NONE
    BY <1>2 DEF ResetStore, TypeOK
  <2>2. ~Member(d)
    BY <2>1 DEF Member
  <2>3. CASE intact'[d]
    <3>1. Member(d)' /\ NextOf(d)' = cbegin[d] /\ GotOf(d)' = NONE
      BY <2>1, <2>3 DEF Member, NextOf, GotOf
    <3>2. Guards(d)
      BY <2>1, <2>3 DEF Guards, StoreInTime
    <3>3. cbegin[d] \in 0 .. toBeClaimedSeq
      BY <2>1, <3>2 DEF RingInv, GuardInv, Low
    <3>4. LogNext[d] = -1
      BY <2>2, ClientView DEF NextOf
    <3>5. LogNext' = [LogNext EXCEPT ![d] = cbegin[d]] /\ LogGot' = [LogGot EXCEPT ![d] = NONE]
      BY <1>2, <3>1, ConsumeFrame, OthersKept DEF Consume
    <3>6. toBeClaimedSeq' = toBeClaimedSeq /\ LogPublished' = LogPublished
      BY <1>2, ConsumeFrame, PublishedKept DEF Consume
    <3>7. LogJoin(d, cbegin[d]) /\ cbegin[d] \in Nat
      BY <3>3, <3>4, <3>5, <3>6 DEF LogJoin
    <3> QED BY <3>7, Zenon DEF LogStep
  <2>4. CASE ~intact'[d]
    <3>1. ~Member(d)'
      BY <2>4 DEF Member
    <3> QED BY <3>1, ConsumeFrame, LeaveStep, Zenon
  <2> QED BY <2>3, <2>4
<1>3. CASE ResetDone(d) \/ PeekStart(d) \/ PeekNext(d)
  <2>1. /\ UNCHANGED <<readSeq, intact, last>>
        /\ cpc[d] \in {"check", "idle", "peek"} /\ cpc'[d] \in {"idle", "peek"}
    BY <1>3 DEF ResetDone, PeekStart, PeekNext, TypeOK
  <2>2. Member(d)' <=> Member(d)
    BY <2>1 DEF Member
  <2>3. Member(d) => NextOf(d)' = NextOf(d) /\ last'[d] = last[d]
    BY <2>1, <2>2 DEF NextOf
  <2> QED BY <2>2, <2>3, ConsumeFrame, QuietStep, Zenon
<1>4. CASE PeekEnd(d)
  <2>1. /\ UNCHANGED <<readSeq, intact, last>>
        /\ cpc[d] = "peek" /\ cpc'[d] = "handle" /\ cpos'[d] = cbegin[d]
    BY <1>4 DEF PeekEnd, TypeOK
  <2>2. Member(d)' <=> Member(d)
    BY <2>1 DEF Member
  <2>3. Member(d) => NextOf(d)' = NextOf(d) /\ last'[d] = last[d]
    BY <2>1, <2>2, MemberGuards DEF NextOf, RangeInv
  <2> QED BY <2>2, <2>3, ConsumeFrame, QuietStep, Zenon
<1>5. CASE wasteAfterPeek(d)
  <2>1. /\ UNCHANGED <<intact, last>>
        /\ cpc[d] = "handle" /\ cpc'[d] = "idle" /\ cpos[d] = cend[d]
        /\ readSeq'[d] = Wrap(readSeq[d] + ccount[d])
    BY <1>5 DEF wasteAfterPeek, TypeOK
  <2>2. Member(d)' <=> Member(d)
    BY <2>1 DEF Member
  <2>3. ASSUME Member(d) PROVE NextOf(d)' = NextOf(d) /\ last'[d] = last[d]
    <3>1. RangeInv(d)
      BY <2>3, MemberGuards
    <3>2. Wrap(readSeq[d] + ccount[d]) = cend[d]
      BY <2>1, <3>1 DEF RangeInv, Wrap
    <3> QED BY <2>1, <2>2, <2>3, <3>2 DEF NextOf
  <2> QED BY <2>2, <2>3, ConsumeFrame, QuietStep, Zenon
<1>6. CASE Handle(d)
  <2>1. /\ UNCHANGED <<readSeq, intact, cpc>>
        /\ cpc[d] = "handle" /\ cpos[d] < cend[d] /\ cpos'[d] = cpos[d] + 1
        /\ last'[d] = slotData[Idx(cpos[d])]
    BY <1>6 DEF Handle, TypeOK
  <2>2. CASE Member(d)
    <3> DEFINE s == cpos[d]
    <3>1. GuardInv(d) /\ RangeInv(d) /\ Low(d) = readSeq[d]
      BY <2>2, MemberGuards
    <3>2. /\ s \in Nat /\ Low(d) <= s /\ s < toBeClaimedSeq
          /\ \A p \in Producers : s \notin Unpublished(p)
      <4>1. /\ s \in Nat /\ readSeq[d] <= s /\ s < cend[d] /\ cend[d] <= toBeClaimedSeq
            /\ \A p \in Producers : InFlight(p) => cend[d] <= pnext[p]
        BY <2>1, <3>1 DEF RangeInv
      <4>2. \A p \in Producers : InFlight(p) => ~(pnext[p] <= s)
        BY <4>1
      <4>3. \A p \in Producers : s \notin Unpublished(p)
        <5> SUFFICES ASSUME NEW p \in Producers, InFlight(p) PROVE s \notin pnext[p] .. pend[p] - 1
          BY DEF Unpublished
        <5> QED BY <4>1, <4>2
      <4> QED BY <3>1, <4>1, <4>3
    <3>3. s \in LogPublished
      BY <3>2 DEF LogPublished
    <3>4. slotData[Idx(s)] = s
      BY <3>1, <3>2 DEF GuardInv, Readable
    <3>5. Member(d)' /\ NextOf(d)' = s + 1 /\ GotOf(d)' = s
      BY <2>1, <2>2, <3>4 DEF Member, NextOf, GotOf
    <3>6. LogNext[d] = s /\ s # -1
      BY <2>1, <2>2, <3>2, ClientView DEF NextOf
    <3>7. LogNext' = [LogNext EXCEPT ![d] = s + 1] /\ LogGot' = [LogGot EXCEPT ![d] = s]
      BY <1>6, <3>5, ConsumeFrame, OthersKept DEF Consume
    <3>8. toBeClaimedSeq' = toBeClaimedSeq /\ LogPublished' = LogPublished
      BY <1>6, ConsumeFrame, PublishedKept DEF Consume
    <3>9. LogDeliver(d)
      BY <3>3, <3>6, <3>7, <3>8 DEF LogDeliver
    <3> QED BY <3>9, Zenon DEF LogStep
  <2>3. CASE ~Member(d)
    <3>1. ~Member(d)'
      BY <2>1, <2>3 DEF Member
    <3> QED BY <3>1, ConsumeFrame, LeaveStep, Zenon
  <2> QED BY <2>2, <2>3
<1> QED BY <1>1, <1>2, <1>3, <1>4, <1>5, <1>6 DEF Consume

\* The purger makes members leave, one cursor at a time.
LEMMA PurgeRefines == ASSUME TypeOK, purge PROVE LogStep
<1>1. ASSUME NEW d \in Consumers, PurgeMark(d) PROVE LogStep
  <2>1. ~Member(d)' /\ toBeClaimedSeq' = toBeClaimedSeq
    BY <1>1 DEF PurgeMark, markDead, ringVars, TypeOK, Member
  <2>2. \A p \in Producers : Unpublished(p)' = Unpublished(p)
    BY <1>1 DEF PurgeMark, prodVars, Unpublished, InFlight
  <2>3. \A c \in Consumers \ {d} :
           /\ readSeq'[c] = readSeq[c] /\ cpc'[c] = cpc[c] /\ cpos'[c] = cpos[c]
           /\ intact'[c] = intact[c] /\ last'[c] = last[c]
    BY <1>1 DEF PurgeMark, markDead, consVars, TypeOK
  <2> QED BY <2>1, <2>2, <2>3, LeaveStep, Zenon
<1>2. CASE PurgeVisit \/ PurgeCompare \/ PurgeFound \/ PurgeReturn
  <2>1. UNCHANGED <<toBeClaimedSeq, pc, pnext, pend, readSeq, cpc, cpos, intact, last>>
    BY <1>2 DEF PurgeVisit, PurgeCompare, PurgeFound, PurgeReturn, ringVars, prodVars,
                consVars
  <2>2. \A p \in Producers : Unpublished(p)' = Unpublished(p)
    BY <2>1 DEF Unpublished, InFlight
  <2> QED BY <2>1, <2>2, ClientsKept, PublishedKept DEF LogStep, LogStutter
<1> QED BY <1>1, <1>2 DEF purge

\* The ring starts as an empty log that the initial readers have joined.
LEMMA InitRefines == Init => Log!Init
<1> SUFFICES ASSUME Init PROVE Log!Init
  OBVIOUS
<1>1. toBeClaimedSeq = 0
  BY DEF Init
<1>2. LogPublished = {}
  BY <1>1 DEF LogPublished
<1>3. LogNext \in [Consumers -> {0, -1}]
  BY DEF Init, LogNext, NextOf, Member
<1>4. LogGot = [c \in Consumers |-> NONE]
  BY DEF Init, LogGot, GotOf
<1> QED
  BY <1>1, <1>2, <1>3, <1>4 DEF Log!Init, LogPublished, LogNext, LogGot, NextOf, GotOf

\* Each step of the ring is a step of the log, or none.
LEMMA NextRefines ==
  TypeOK /\ TypeOK' /\ RingInv /\ [Next]_vars => [Log!Next]_(Log!vars)
<1> SUFFICES ASSUME TypeOK, TypeOK', RingInv, [Next]_vars PROVE LogStep
  BY LogStepIsStep
<1>1. CASE UNCHANGED vars
  <2>1. UNCHANGED <<toBeClaimedSeq, pc, pnext, pend, readSeq, cpc, cpos, intact, last>>
    BY <1>1 DEF vars, ringVars, prodVars, consVars
  <2>2. \A p \in Producers : Unpublished(p)' = Unpublished(p)
    BY <2>1 DEF Unpublished, InFlight
  <2> QED BY <2>1, <2>2, ClientsKept, PublishedKept DEF LogStep, LogStutter
<1> QED BY <1>1, SendRefines, ConsumeRefines, PurgeRefines DEF Next

\* The ring implements the broadcast log, for any number of senders, cursors and slots and
\* whatever joins, leaves, is killed or is purged: each member gets every message claimed
\* from where it joined on, once, in order and whole.
THEOREM RingImplementsLog == Spec => ImplementsBroadcastLog
BY TypeCorrect, RingCorrect, InitRefines, NextRefines, PTL
   DEF Spec, ImplementsBroadcastLog, Log!Spec
=============================================================================
