------------------------ MODULE PartitionRing_proofs ------------------------
(***************************************************************************)
(* Proofs about PartitionRing for every number of senders, consumers and   *)
(* slots: types, and PartInv as the inductive invariant from which         *)
(* NothingLost, NoneTwice and NoDataRace follow.                           *)
(***************************************************************************)
EXTENDS PartitionRing, RingArithmetic

\* A sequence number is mapped to a slot.
LEMMA IdxType == \A s \in Nat : Idx(s) \in Slots
BY PartitionAssumption, ModRange DEF Idx, Slots

\* The slots of numbers in one lap are told apart by the numbers.
LEMMA LapApart ==
  ASSUME NEW lo \in Nat, NEW a \in Nat, NEW b \in Nat, a # b,
         lo <= a, a < lo + CAPACITY, lo <= b, b < lo + CAPACITY
  PROVE  Idx(a) # Idx(b)
<1>1. CAPACITY \in Nat \ {0} /\ a < b + CAPACITY /\ b < a + CAPACITY
  BY PartitionAssumption
<1> QED BY <1>1, ModApart DEF Idx

\* The constants as numbers, for the backends.
LEMMA Consts ==
  /\ CAPACITY \in Nat /\ CAPACITY > 0 /\ MaxSeq \in Nat /\ MaxPeek \in Nat
  /\ MaxBatch \in Nat /\ MaxBatch <= CAPACITY
  /\ MaxTryBatch \in Nat /\ MaxTryBatch <= CAPACITY
BY PartitionAssumption

\* The types of the state, element by element.
LEMMA ElementTypes ==
  ASSUME TypeOK
  PROVE  /\ toBeClaimedSeq \in Nat /\ toBeClaimedSeq <= MaxSeq
         /\ readSeq \in Nat /\ readSeq <= MaxSeq
         /\ \A p \in Producers :
              /\ pnext[p] \in Nat /\ pnext[p] <= MaxSeq
              /\ pend[p] \in Nat /\ pend[p] <= MaxSeq
              /\ scan[p] \in Nat
         /\ \A c \in Consumers :
              /\ cbegin[c] \in Nat /\ cbegin[c] <= MaxSeq
              /\ cend[c] \in Nat /\ cend[c] <= MaxSeq
              /\ cpos[c] \in Nat
BY Consts DEF TypeOK, RingTypes, SenderTypes, ReaderTypes

\* Handing a message to a client keeps the counters numbers.
LEMMA GivenType ==
  ASSUME TypeOK, NEW m, Given(m) PROVE times' \in [0 .. MaxSeq - 1 -> Nat]
BY DEF Given, TypeOK, RingTypes

-----------------------------------------------------------------------------
\* The initial state is well typed and nobody has claimed anything.
LEMMA TypeInit == Init => TypeOK /\ ClaimInv
<1> SUFFICES ASSUME Init PROVE TypeOK /\ ClaimInv
  OBVIOUS
<1>1. RingTypes
  BY Consts DEF Init, RingTypes, Slots, FREE, NONE
<1>2. SenderTypes
  BY Consts DEF Init, SenderTypes
<1>3. ReaderTypes
  BY Consts DEF Init, ReaderTypes
<1>4. ClaimInv
  BY DEF Init, ClaimInv, Claimed, Waiting, Writing, Trying
<1> QED BY <1>1, <1>2, <1>3, <1>4 DEF TypeOK

\* A step of a sender keeps the types.
LEMMA TypeSend ==
  ASSUME TypeOK, ClaimInv, NEW p \in Producers, Claim(p) \/ TryLoad(p) \/ SendStep(p)
  PROVE  TypeOK'
<1> USE Consts, ElementTypes
<1>1. ReaderTypes'
  <2>1. UNCHANGED readVars
    BY DEF Claim, TryLoad, SendStep, Room, Ready, Granted, TryRoom, TryReady, TryFull,
           TryGranted, TryReload, Fill, Commit
  <2> QED BY <2>1 DEF TypeOK, ReaderTypes, readVars
<1>2. SenderTypes'
  <2> USE DEF SenderTypes, Waiting, Writing
  <2>0. SenderTypes
    BY DEF TypeOK
  <2>1. CASE Claim(p)
    <3>1. PICK n \in 1 .. MaxBatch :
            /\ toBeClaimedSeq + n <= MaxSeq
            /\ pend' = [pend EXCEPT ![p] = toBeClaimedSeq + n]
      BY <2>1 DEF Claim
    <3> QED BY <2>0, <2>1, <3>1 DEF Claim
  <2>2. CASE TryLoad(p)
    <3>1. PICK n \in 1 .. MaxTryBatch :
            /\ toBeClaimedSeq + n <= MaxSeq
            /\ pend' = [pend EXCEPT ![p] = toBeClaimedSeq + n]
      BY <2>2 DEF TryLoad
    <3> QED BY <2>0, <2>2, <3>1 DEF TryLoad
  <2>3. CASE Room(p) \/ TryRoom(p) \/ TryReady(p)
    BY <2>0, <2>3 DEF Room, TryRoom, TryReady
  <2>4. CASE Ready(p)
    BY <2>0, <2>4 DEF Ready
  <2>5. CASE Granted(p) \/ TryGranted(p)
    BY <2>0, <2>5 DEF Granted, TryGranted, StartWriting
  <2>6. CASE TryFull(p)
    BY <2>0, <2>6 DEF TryFull, Return
  <2>7. CASE TryReload(p)
    <3>1. pnext[p] < pend[p]
      BY <2>7 DEF TryReload, ClaimInv
    <3> QED BY <2>0, <2>7, <3>1 DEF TryReload
  <2>8. CASE Fill(p)
    BY <2>0, <2>8 DEF Fill
  <2>9. CASE Commit(p)
    BY <2>0, <2>9 DEF Commit, Return
  <2> QED
    BY <2>1, <2>2, <2>3, <2>4, <2>5, <2>6, <2>7, <2>8, <2>9 DEF SendStep
<1>3. RingTypes'
  <2> USE DEF RingTypes
  <2>0. RingTypes
    BY DEF TypeOK
  <2>1. CASE Claim(p)
    BY <2>0, <2>1 DEF Claim
  <2>2. CASE TryLoad(p) \/ Room(p) \/ Ready(p) \/ TryRoom(p) \/ TryReady(p) \/ TryFull(p)
             \/ TryReload(p)
    BY <2>0, <2>2 DEF TryLoad, Room, Ready, TryRoom, TryReady, TryFull, TryReload
  <2>3. CASE Granted(p)
    BY <2>0, <2>3 DEF Granted, StartWriting
  <2>4. CASE TryGranted(p)
    BY <2>0, <2>4 DEF TryGranted, StartWriting
  <2>5. CASE Fill(p)
    <3>1. \A i \in Slots :
            (\E s \in pnext[p] .. pend[p] - 1 : Idx(s) = i) =>
              (CHOOSE s \in pnext[p] .. pend[p] - 1 : Idx(s) = i) \in 0 .. MaxSeq - 1
      OBVIOUS
    <3>2. slotData' \in [Slots -> 0 .. MaxSeq - 1 \cup {TORN, NONE}]
      BY <2>0, <2>5, <3>1 DEF Fill
    <3> QED BY <2>0, <2>5, <3>2 DEF Fill
  <2>6. CASE Commit(p)
    <3>1. pnext[p] < pend[p]
      BY <2>6 DEF Commit, ClaimInv
    <3>2. Idx(pnext[p]) \in Slots /\ pnext[p] \in 0 .. MaxSeq - 1
      BY <3>1, IdxType
    <3>3. slotSeq' \in [Slots -> 0 .. MaxSeq - 1 \cup {FREE}]
      BY <2>0, <2>6, <3>2 DEF Commit
    <3> QED BY <2>0, <2>6, <3>3 DEF Commit
  <2> QED BY <2>1, <2>2, <2>3, <2>4, <2>5, <2>6 DEF SendStep
<1> QED BY <1>1, <1>2, <1>3 DEF TypeOK

\* A message that was found is a number, and so is what is in its slot.
LEMMA FoundType ==
  ASSUME TypeOK, NEW c \in Consumers, Found(c)
  PROVE  cend[c] < MaxSeq /\ slotData[Idx(cend[c])] \in 0 .. MaxSeq - 1 \cup {TORN, NONE}
<1>1. Idx(cend[c]) \in Slots /\ cend[c] \in Nat
  BY IdxType, ElementTypes
<1>2. slotSeq[Idx(cend[c])] \in 0 .. MaxSeq - 1 \cup {FREE}
  BY <1>1 DEF TypeOK, RingTypes
<1>3. slotData[Idx(cend[c])] \in 0 .. MaxSeq - 1 \cup {TORN, NONE}
  BY <1>1 DEF TypeOK, RingTypes
<1> QED BY <1>1, <1>2, <1>3, Consts DEF Found, FREE

\* A step of a consumer keeps the types.
LEMMA TypeRead ==
  ASSUME TypeOK, NEW c \in Consumers, ReadStep(c) \/ Throw(c) \/ Start(c)
  PROVE  TypeOK'
<1> USE Consts, ElementTypes
<1>1. SenderTypes'
  <2>1. UNCHANGED sendVars
    BY DEF ReadStep, Throw, Start, Read, LoadCursor, PeekNext, PeekEnd, CopyOut, TakeNothing,
           Grab, GrabFailed, Handle, Handled, markAsToWriteOver, Wasted, ResetSlot, ResetLoad,
           ResetStore
  <2> QED BY <2>1 DEF TypeOK, SenderTypes, sendVars
<1>2. ReaderTypes'
  <2> USE DEF ReaderTypes
  <2>0. ReaderTypes
    BY DEF TypeOK
  <2>1. ASSUME NEW mode \in ReadModes, Read(c, mode) PROVE ReaderTypes'
    BY <2>0, <2>1 DEF Read, LoadCursor
  <2>2. CASE GrabFailed(c)
    BY <2>0, <2>2 DEF GrabFailed, LoadCursor
  <2>3. CASE PeekNext(c)
    BY <2>0, <2>3, FoundType DEF PeekNext, PeekMore
  <2>4. CASE PeekEnd(c) \/ Start(c)
    BY <2>0, <2>4 DEF PeekEnd, Start
  <2>5. CASE CopyOut(c)
    BY <2>0, <2>5, FoundType DEF CopyOut
  <2>6. CASE TakeNothing(c) \/ Wasted(c) \/ ResetStore(c)
    BY <2>0, <2>6 DEF TakeNothing, Wasted, ResetStore, Forget
  <2>7. CASE Grab(c)
    BY <2>0, <2>7 DEF Grab
  <2>8. CASE Handle(c)
    BY <2>0, <2>8 DEF Handle
  <2>9. CASE Handled(c)
    BY <2>0, <2>9 DEF Handled
  <2>10. CASE markAsToWriteOver(c)
    BY <2>0, <2>10 DEF markAsToWriteOver
  <2>11. CASE Throw(c)
    BY <2>0, <2>11 DEF Throw, Forget
  <2>12. CASE ResetSlot(c)
    BY <2>0, <2>12 DEF ResetSlot, Slots
  <2>13. CASE ResetLoad(c)
    BY <2>0, <2>13 DEF ResetLoad
  <2> QED
    BY <2>1, <2>2, <2>3, <2>4, <2>5, <2>6, <2>7, <2>8, <2>9, <2>10, <2>11, <2>12, <2>13
       DEF ReadStep
<1>3. RingTypes'
  <2> USE DEF RingTypes
  <2>0. RingTypes
    BY DEF TypeOK
  <2>1. CASE Grab(c)
    <3>1. times' \in [0 .. MaxSeq - 1 -> Nat]
      BY <2>0, <2>1, GivenType DEF Grab
    <3> QED BY <2>0, <2>1, <3>1 DEF Grab
  <2>2. CASE Handle(c)
    <3>1. times' \in [0 .. MaxSeq - 1 -> Nat]
      BY <2>2, GivenType DEF Handle
    <3> QED BY <2>0, <2>2, <3>1 DEF Handle
  <2>3. CASE markAsToWriteOver(c)
    <3>1. slotSeq' \in [Slots -> 0 .. MaxSeq - 1 \cup {FREE}]
      BY <2>0, <2>3 DEF markAsToWriteOver
    <3> QED BY <2>0, <2>3, <3>1 DEF markAsToWriteOver
  <2>4. CASE ResetSlot(c)
    <3>1. slotSeq' \in [Slots -> 0 .. MaxSeq - 1 \cup {FREE}]
      BY <2>0, <2>4 DEF ResetSlot
    <3> QED BY <2>0, <2>4, <3>1 DEF ResetSlot
  <2>5. CASE Throw(c)
    BY <2>0, <2>5 DEF Throw, NoteThrow
  <2>6. CASE Start(c)
    BY <2>0, <2>6 DEF Start
  <2>7. CASE ResetStore(c)
    BY <2>0, <2>7 DEF ResetStore
  <2>8. CASE PeekNext(c) \/ PeekEnd(c) \/ CopyOut(c) \/ TakeNothing(c) \/ GrabFailed(c)
             \/ Handled(c) \/ Wasted(c) \/ ResetLoad(c) \/ \E mode \in ReadModes : Read(c, mode)
    BY <2>0, <2>8 DEF PeekNext, PeekEnd, CopyOut, TakeNothing, GrabFailed, Handled, Wasted,
                      ResetLoad, Read, LoadCursor
  <2> QED BY <2>1, <2>2, <2>3, <2>4, <2>5, <2>6, <2>7, <2>8 DEF ReadStep
<1> QED BY <1>1, <1>2, <1>3 DEF TypeOK

\* A step of a sender keeps its claim well formed and apart from those of the others.
LEMMA ClaimSend ==
  ASSUME TypeOK, ClaimInv, NEW p \in Producers, Claim(p) \/ TryLoad(p) \/ SendStep(p)
  PROVE  ClaimInv'
<1> USE Consts, ElementTypes DEF Trying, Waiting, Writing
<1>0. SenderTypes
  BY DEF TypeOK
<1>1. \A q \in Producers \ {p} :
        pc'[q] = pc[q] /\ pnext'[q] = pnext[q] /\ pend'[q] = pend[q] /\ scan'[q] = scan[q]
  <2>1. CASE Claim(p)
    BY <1>0, <2>1 DEF Claim, SenderTypes
  <2>2. CASE TryLoad(p)
    BY <1>0, <2>2 DEF TryLoad, SenderTypes
  <2>3. CASE SendStep(p)
    BY <1>0, <2>3 DEF SendStep, Room, Ready, Granted, TryRoom, TryReady, TryFull, TryGranted,
                      TryReload, Fill, Commit, StartWriting, Return, SenderTypes
  <2> QED BY <2>1, <2>2, <2>3
<1> DEFINE OwnInv ==
      /\ pc'[p] # "idle" => pnext'[p] < pend'[p] /\ pend'[p] <= pnext'[p] + CAPACITY
      /\ pc'[p] \in Trying =>
           pnext'[p] <= toBeClaimedSeq' /\ pend'[p] - pnext'[p] <= MaxTryBatch
      /\ Claimed(p)' => pend'[p] <= toBeClaimedSeq'
      /\ pc'[p] = "room" => scan'[p] = pnext'[p]
      /\ pc'[p] = "ready" => pnext'[p] <= scan'[p] /\ scan'[p] <= pend'[p]
    Apart ==
      \/ /\ toBeClaimedSeq' = toBeClaimedSeq
         /\ (Claimed(p)' => Claimed(p) /\ pnext[p] <= pnext'[p] /\ pend'[p] = pend[p])
      \/ /\ toBeClaimedSeq <= toBeClaimedSeq'
         /\ pnext'[p] = toBeClaimedSeq
<1>2. OwnInv /\ Apart
  <2>1. CASE Claim(p)
    <3>1. PICK n \in 1 .. MaxBatch :
            /\ pend' = [pend EXCEPT ![p] = toBeClaimedSeq + n]
            /\ toBeClaimedSeq' = toBeClaimedSeq + n
      BY <2>1 DEF Claim
    <3> QED BY <1>0, <2>1, <3>1 DEF Claim, SenderTypes, Claimed
  <2>2. CASE TryLoad(p)
    <3>1. PICK n \in 1 .. MaxTryBatch :
            /\ pend' = [pend EXCEPT ![p] = toBeClaimedSeq + n]
      BY <2>2 DEF TryLoad
    <3> QED BY <1>0, <2>2, <3>1 DEF TryLoad, SenderTypes, Claimed
  <2>3. CASE Room(p) \/ TryRoom(p) \/ TryReady(p)
    BY <1>0, <2>3 DEF Room, TryRoom, TryReady, ClaimInv, Claimed, SenderTypes
  <2>4. CASE Ready(p)
    BY <1>0, <2>4 DEF Ready, ClaimInv, Claimed, SenderTypes
  <2>5. CASE Granted(p)
    BY <1>0, <2>5 DEF Granted, StartWriting, ClaimInv, Claimed, SenderTypes
  <2>6. CASE TryFull(p)
    BY <1>0, <2>6 DEF TryFull, Return, Claimed, SenderTypes
  <2>7. CASE TryGranted(p)
    BY <1>0, <2>7 DEF TryGranted, StartWriting, ClaimInv, Claimed, SenderTypes
  <2>8. CASE TryReload(p)
    BY <1>0, <2>8 DEF TryReload, ClaimInv, Claimed, SenderTypes
  <2>9. CASE Fill(p)
    BY <1>0, <2>9 DEF Fill, ClaimInv, Claimed, SenderTypes
  <2>10. CASE Commit(p)
    BY <1>0, <2>10 DEF Commit, Return, ClaimInv, Claimed, SenderTypes
  <2> QED
    BY <2>1, <2>2, <2>3, <2>4, <2>5, <2>6, <2>7, <2>8, <2>9, <2>10 DEF SendStep
<1>3. toBeClaimedSeq <= toBeClaimedSeq' /\ toBeClaimedSeq' \in Nat
  BY <1>2, TypeSend, ElementTypes DEF TypeOK, RingTypes
<1>4. \A q \in Producers \ {p} : Claimed(q)' <=> Claimed(q)
  BY <1>1 DEF Claimed
<1>5. ASSUME NEW q \in Producers, NEW r \in Producers, q # r, Claimed(q)', Claimed(r)'
      PROVE  pend'[q] <= pnext'[r] \/ pend'[r] <= pnext'[q]
  <2>1. CASE q # p /\ r # p
    BY <1>1, <1>4, <1>5, <2>1 DEF ClaimInv
  <2>2. ASSUME NEW u \in Producers \ {p}, Claimed(u), Claimed(p)'
        PROVE  pend'[u] <= pnext'[p] \/ pend'[p] <= pnext'[u]
    <3>1. pend[u] <= toBeClaimedSeq /\ pnext[u] \in Nat /\ pend'[u] = pend[u]
          /\ pnext'[u] = pnext[u]
      BY <1>1, <2>2 DEF ClaimInv
    <3>2. CASE pnext'[p] = toBeClaimedSeq
      BY <3>1, <3>2
    <3>3. CASE Claimed(p) /\ pnext[p] <= pnext'[p] /\ pend'[p] = pend[p]
      <4>1. pend[u] <= pnext[p] \/ pend[p] <= pnext[u]
        BY <2>2, <3>3 DEF ClaimInv
      <4>2. pnext'[p] \in Nat
        BY TypeSend DEF TypeOK, SenderTypes
      <4> QED BY <3>1, <3>3, <4>1, <4>2
    <3> QED BY <1>2, <2>2, <3>2, <3>3
  <2>3. CASE q = p
    BY <1>4, <1>5, <2>2, <2>3
  <2>4. CASE r = p
    BY <1>4, <1>5, <2>2, <2>4
  <2> QED BY <2>1, <2>3, <2>4
<1>6. ASSUME NEW q \in Producers
      PROVE  /\ pc'[q] # "idle" => pnext'[q] < pend'[q] /\ pend'[q] <= pnext'[q] + CAPACITY
             /\ pc'[q] \in Trying =>
                  pnext'[q] <= toBeClaimedSeq' /\ pend'[q] - pnext'[q] <= MaxTryBatch
             /\ Claimed(q)' => pend'[q] <= toBeClaimedSeq'
             /\ pc'[q] = "room" => scan'[q] = pnext'[q]
             /\ pc'[q] = "ready" => pnext'[q] <= scan'[q] /\ scan'[q] <= pend'[q]
  <2>1. CASE q = p
    BY <1>1, <1>2, <2>1
  <2>2. CASE q # p
    BY <1>1, <1>3, <1>4, <2>2 DEF ClaimInv
  <2> QED BY <2>1, <2>2
<1> QED BY <1>5, <1>6 DEF ClaimInv

\* Consumers do not touch claims.
LEMMA ClaimRead ==
  ASSUME ClaimInv, NEW c \in Consumers, ReadStep(c) \/ Throw(c) \/ Start(c) PROVE ClaimInv'
<1>1. UNCHANGED <<toBeClaimedSeq, pc, pnext, pend, scan>>
  BY DEF ReadStep, Throw, Start, Read, LoadCursor, PeekNext, PeekEnd, CopyOut, TakeNothing,
         Grab, GrabFailed, Handle, Handled, markAsToWriteOver, Wasted, ResetSlot, ResetLoad,
         ResetStore, sendVars
<1> QED BY <1>1 DEF ClaimInv, Claimed

-----------------------------------------------------------------------------
\* No reset starts, ends or moves: what is live stays live.
LEMMA LiveKept ==
  ASSUME UNCHANGED <<toBeClaimedSeq, readSeq>>,
         \A c \in Consumers :
           \/ cpc'[c] = cpc[c] /\ cbegin'[c] = cbegin[c]
           \/ ~Resetting(c) /\ ~Resetting(c)'
  PROVE  \A s \in Int : Live(s)' <=> Live(s)
BY DEF Live, Resetting

\* ... and what stands stands when the same numbers are unpublished.
LEMMA StandingKept ==
  ASSUME \A s \in Int : Live(s)' <=> Live(s),
         toBeClaimedSeq' = toBeClaimedSeq,
         \A p \in Producers : Unpublished(p)' = Unpublished(p)
  PROVE  \A s \in Int : Standing(s)' <=> Standing(s)
BY Zenon DEF Standing

\* The numbers of a promise and of a busy range are numbers.
LEMMA RangeTypes ==
  ASSUME TypeOK
  PROVE  /\ \A c \in Consumers : Busy(c) \subseteq Nat /\ Held(c) \subseteq Nat
         /\ \A p \in Producers : Unpublished(p) \subseteq Nat /\ Promised(p) \subseteq Nat
BY ElementTypes DEF Busy, Held, Unpublished, Promised

\* What is promised is claimed, or about to be claimed next.
LEMMA PromisedClaimed ==
  ASSUME TypeOK, ClaimInv, NEW p \in Producers, NEW s \in Promised(p)
  PROVE  /\ s \in Unpublished(p) \/ (pc[p] = "cas" /\ s = toBeClaimedSeq)
         /\ pnext[p] <= s /\ s < pend[p]
BY ElementTypes DEF Promised, Unpublished, Waiting, Writing, ClaimInv, Claimed

\* The steps in which a sender changes nothing but its own position.
Private(p) ==
  \/ Room(p) \/ Ready(p) \/ TryLoad(p) \/ TryRoom(p) \/ TryReady(p) \/ TryFull(p)
  \/ TryReload(p)

\* What they leave alone; a slot becomes promised only when its header is free.
LEMMA PrivateFrame ==
  ASSUME TypeOK, ClaimInv, NEW p \in Producers, Private(p)
  PROVE  /\ UNCHANGED <<toBeClaimedSeq, readSeq, slotSeq, slotData, cpc, cmode, cbegin, cend,
                        cpos, cmsg, times, thrown>>
         /\ \A q \in Producers \ {p} :
              pc'[q] = pc[q] /\ pnext'[q] = pnext[q] /\ pend'[q] = pend[q] /\ scan'[q] = scan[q]
         /\ \A q \in Producers : Unpublished(q)' = Unpublished(q)
         /\ Claimed(p)' => Claimed(p) /\ pnext'[p] = pnext[p] /\ pend'[p] = pend[p]
         /\ pc[p] \notin Writing /\ pc'[p] \notin Writing
         /\ pc'[p] \in {"ready", "tryReady", "cas"} =>
              (HasRoom(p) \/ pc[p] \in {"ready", "tryReady"}) /\ pend'[p] = pend[p]
         /\ \A s \in Promised(p)' : s \in Promised(p) \/ slotSeq[Idx(s)] = FREE
<1> USE ElementTypes DEF Waiting, Writing
<1>0. SenderTypes
  BY DEF TypeOK
<1>1. UNCHANGED <<toBeClaimedSeq, readSeq, slotSeq, slotData, cpc, cmode, cbegin, cend,
                  cpos, cmsg, times, thrown>>
  BY DEF Private, Room, Ready, TryLoad, TryRoom, TryReady, TryFull, TryReload, readVars
<1>2. \A q \in Producers \ {p} :
        pc'[q] = pc[q] /\ pnext'[q] = pnext[q] /\ pend'[q] = pend[q] /\ scan'[q] = scan[q]
  <2>1. CASE TryLoad(p)
    BY <1>0, <2>1 DEF TryLoad, SenderTypes
  <2>2. CASE ~TryLoad(p)
    BY <1>0, <2>2 DEF Private, Room, Ready, TryRoom, TryReady, TryFull, TryReload, Return,
                      SenderTypes
  <2> QED BY <2>1, <2>2
<1> DEFINE Own ==
      /\ Claimed(p)' <=> Claimed(p)
      /\ Claimed(p) => pnext'[p] = pnext[p] /\ pend'[p] = pend[p]
      /\ pc[p] \notin Writing /\ pc'[p] \notin Writing
      /\ pc'[p] \in {"ready", "tryReady", "cas"} =>
           (HasRoom(p) \/ pc[p] \in {"ready", "tryReady"}) /\ pend'[p] = pend[p]
      /\ \A s \in Promised(p)' : s \in Promised(p) \/ slotSeq[Idx(s)] = FREE
<1>3. Own
  <2>1. CASE Room(p)
    BY <1>0, <1>1, <2>1 DEF Room, Claimed, SenderTypes, Promised, ClaimInv
  <2>2. CASE Ready(p)
    BY <1>0, <1>1, <2>2 DEF Ready, Claimed, SenderTypes, Promised, readyToWriteOver
  <2>3. CASE TryLoad(p)
    BY <1>0, <2>3 DEF TryLoad, Claimed, SenderTypes, Promised
  <2>4. CASE TryRoom(p)
    BY <1>0, <2>4 DEF TryRoom, Claimed, SenderTypes, Promised
  <2>5. CASE TryReady(p)
    BY <1>0, <2>5 DEF TryReady, Claimed, SenderTypes, Promised, readyToWriteOver
  <2>6. CASE TryFull(p)
    BY <1>0, <2>6 DEF TryFull, Return, Claimed, SenderTypes, Promised
  <2>7. CASE TryReload(p)
    BY <1>0, <2>7 DEF TryReload, Claimed, SenderTypes, Promised
  <2> QED BY <2>1, <2>2, <2>3, <2>4, <2>5, <2>6, <2>7 DEF Private
<1>4. \A q \in Producers : Unpublished(q)' = Unpublished(q)
  <2>1. \A q \in Producers : Unpublished(q) = IF Claimed(q) THEN pnext[q] .. pend[q] - 1 ELSE {}
    BY DEF Unpublished, Claimed
  <2>2. \A q \in Producers :
          Unpublished(q)' = IF Claimed(q)' THEN pnext'[q] .. pend'[q] - 1 ELSE {}
    BY DEF Unpublished, Claimed
  <2>3. \A q \in Producers \ {p} : Claimed(q)' <=> Claimed(q)
    BY <1>2 DEF Claimed
  <2> QED BY <1>2, <1>3, <2>1, <2>2, <2>3
<1> QED BY <1>1, <1>2, <1>3, <1>4

\* They keep what holds while no ring is reset under running consumers.
LEMMA PrivateCore ==
  ASSUME TypeOK, ClaimInv, CoreInv, NEW p \in Producers, Private(p) PROVE CoreInv'
<1>1. /\ UNCHANGED <<toBeClaimedSeq, readSeq, slotSeq, slotData, cpc, cmode, cbegin, cend,
                     cpos, cmsg, times, thrown>>
      /\ \A q \in Producers \ {p} :
           pc'[q] = pc[q] /\ pnext'[q] = pnext[q] /\ pend'[q] = pend[q] /\ scan'[q] = scan[q]
      /\ \A q \in Producers : Unpublished(q)' = Unpublished(q)
      /\ Claimed(p)' => Claimed(p) /\ pnext'[p] = pnext[p] /\ pend'[p] = pend[p]
      /\ pc[p] \notin Writing /\ pc'[p] \notin Writing
      /\ pc'[p] \in {"ready", "tryReady", "cas"} =>
           (HasRoom(p) \/ pc[p] \in {"ready", "tryReady"}) /\ pend'[p] = pend[p]
      /\ \A s \in Promised(p)' : s \in Promised(p) \/ slotSeq[Idx(s)] = FREE
  BY PrivateFrame
<1>2. \A s \in Int : Live(s)' <=> Live(s)
  BY <1>1, LiveKept
<1>3. \A s \in Int : Standing(s)' <=> Standing(s)
  BY <1>1, <1>2, StandingKept
<1>4. \A c \in Consumers : Busy(c)' = Busy(c) /\ Held(c)' = Held(c)
  BY <1>1 DEF Busy, Held
<1>5. ResetInv'
  BY <1>1 DEF CoreInv, ResetInv, Resetting
<1>6. HeaderInv'
  BY <1>1 DEF CoreInv, HeaderInv
<1>7. StandInv'
  <2>1. \A q \in Producers : \A s, t \in Unpublished(q) : Live(s)' => Live(t)'
    BY <1>2, RangeTypes DEF CoreInv, StandInv
  <2>2. ASSUME NEW q \in Producers, pc'[q] \in {"ready", "tryReady", "cas"} \cup Writing
        PROVE  HasRoom(q)'
    <3>1. HasRoom(q) /\ pend'[q] = pend[q]
      BY <1>1, <2>2 DEF CoreInv, StandInv, Writing
    <3> QED BY <1>1, <3>1 DEF HasRoom
  <2>3. \A s \in 0 .. MaxSeq - 1 : Standing(s)' => s < readSeq + CAPACITY /\ slotSeq[Idx(s)] # FREE
    BY <1>3, Consts DEF CoreInv, StandInv
  <2> QED BY <1>1, <2>1, <2>2, <2>3 DEF StandInv
<1>8. BusyInv'
  <2> SUFFICES ASSUME NEW c \in Consumers, NEW t \in Busy(c)
               PROVE  /\ t < readSeq
                      /\ slotSeq[Idx(t)] # FREE
                      /\ \A d \in Consumers : \A u \in Busy(d) : (c = d /\ t = u) \/ Idx(u) # Idx(t)
                      /\ \A s \in 0 .. MaxSeq - 1 : Standing(s)' => Idx(s) # Idx(t)
                      /\ \A q \in Producers : \A s \in Promised(q)' : Live(s)' => Idx(s) # Idx(t)
    BY <1>1, <1>4 DEF BusyInv
  <2>1. \A s \in 0 .. MaxSeq - 1 : Standing(s)' => Idx(s) # Idx(t)
    BY <1>3, Consts DEF CoreInv, BusyInv
  <2>2. ASSUME NEW q \in Producers, NEW s \in Promised(q)', Live(s)' PROVE Idx(s) # Idx(t)
    <3>1. s \in Promised(q) \/ slotSeq[Idx(s)] = FREE
      BY <1>1 DEF Promised
    <3>2. CASE s \in Promised(q)
      <4>1. Live(s)
        BY <1>2, <2>2, <3>2, RangeTypes
      <4> QED BY <3>2, <4>1 DEF CoreInv, BusyInv
    <3>3. CASE slotSeq[Idx(s)] = FREE
      BY <3>3 DEF CoreInv, BusyInv
    <3> QED BY <3>1, <3>2, <3>3
  <2> QED BY <2>1, <2>2 DEF CoreInv, BusyInv
<1>9. RangeInv'
  <2>1. \A c \in Consumers : \A t \in cbegin[c] .. cend[c] - 1 : Standing(t)' <=> Standing(t)
    BY <1>3, ElementTypes
  <2> QED BY <1>1, <2>1 DEF CoreInv, RangeInv
<1>10. DataInv'
  <2>1. \A s : (Unwritten(s)' <=> Unwritten(s)) /\ (Unspent(s)' <=> Unspent(s))
    BY <1>1 DEF Unwritten, Unspent
  <2>2. \A s \in 0 .. MaxSeq - 1 : Standing(s)' <=> Standing(s)
    BY <1>3, Consts
  <2>3. \A q \in Producers : pc'[q] = "commit" <=> pc[q] = "commit"
    BY <1>1 DEF Writing
  <2>4. \A q \in Producers : \A s \in Unpublished(q) : Live(s)' <=> Live(s)
    BY <1>2, RangeTypes
  <2> QED BY <1>1, <1>4, <2>1, <2>2, <2>3, <2>4 DEF CoreInv, DataInv
<1> QED BY <1>5, <1>6, <1>7, <1>8, <1>9, <1>10 DEF CoreInv

\* They keep what holds while no client has thrown.
LEMMA PrivateWhole ==
  ASSUME TypeOK, ClaimInv, WholeInv, NEW p \in Producers, Private(p) PROVE WholeInv'
<1>1. /\ UNCHANGED <<toBeClaimedSeq, readSeq, slotSeq, slotData, cpc, cmode, cbegin, cend,
                     cpos, cmsg, times, thrown>>
      /\ \A q \in Producers \ {p} :
           pc'[q] = pc[q] /\ pnext'[q] = pnext[q] /\ pend'[q] = pend[q] /\ scan'[q] = scan[q]
      /\ \A q \in Producers : Unpublished(q)' = Unpublished(q)
      /\ Claimed(p)' => Claimed(p) /\ pnext'[p] = pnext[p] /\ pend'[p] = pend[p]
      /\ pc[p] \notin Writing /\ pc'[p] \notin Writing
  BY PrivateFrame
<1>2. \A s \in Int : Standing(s)' <=> Standing(s)
  BY <1>1, LiveKept, StandingKept
<1>3. \A c \in Consumers : Held(c)' = Held(c)
  BY <1>1 DEF Held
<1>4. \A q \in Producers : Claimed(q)' =>
        /\ Claimed(q) /\ pnext'[q] = pnext[q] /\ pend'[q] = pend[q]
        /\ pc'[q] = "commit" => pc[q] = "commit"
  BY <1>1 DEF Claimed, Writing
<1>5. \A s \in 0 .. MaxSeq - 1 : Standing(s)' <=> Standing(s)
  BY <1>2, Consts
<1> QED BY <1>1, <1>3, <1>4, <1>5 DEF WholeInv

-----------------------------------------------------------------------------
\* Numbers taken from the counter are unpublished, and a reset that has not loaded the
\* counter yet skips them: what stands stays the same.
LEMMA GrowFrame ==
  ASSUME TypeOK, ClaimInv, ResetInv, NEW p \in Producers,
         toBeClaimedSeq' \in Nat, toBeClaimedSeq < toBeClaimedSeq',
         UNCHANGED <<readSeq, cpc, cbegin>>,
         \A s \in Nat :
           /\ s \notin Unpublished(p)
           /\ s \in Unpublished(p)' <=> toBeClaimedSeq <= s /\ s < toBeClaimedSeq',
         \A q \in Producers \ {p} : Unpublished(q)' = Unpublished(q)
  PROVE  /\ \A s \in Nat : Live(s)' => Live(s)
         /\ \A s \in Nat : s < toBeClaimedSeq => (Live(s)' <=> Live(s))
         /\ \A s \in Nat : Standing(s)' <=> Standing(s)
         /\ \A s, t \in Nat :
              /\ toBeClaimedSeq <= s /\ s < toBeClaimedSeq' /\ Live(s)'
              /\ toBeClaimedSeq <= t /\ t < toBeClaimedSeq'
              => Live(t)'
<1> USE ElementTypes
<1>1. \A s \in Nat : Live(s)' => Live(s)
  BY DEF Live
<1>2. \A s \in Nat : s < toBeClaimedSeq => (Live(s)' <=> Live(s))
  BY DEF Live
<1>3. ASSUME NEW s \in Nat PROVE Standing(s)' <=> Standing(s)
  <2>1. CASE s < toBeClaimedSeq
    <3>1. \A q \in Producers : s \in Unpublished(q)' <=> s \in Unpublished(q)
      BY <2>1
    <3> QED BY <1>2, <2>1, <3>1 DEF Standing
  <2>2. CASE ~(s < toBeClaimedSeq)
    <3>1. ~Standing(s)
      BY <2>2 DEF Standing
    <3>2. ASSUME s < toBeClaimedSeq' PROVE s \in Unpublished(p)'
      BY <2>2, <3>2
    <3> QED BY <3>1, <3>2 DEF Standing
  <2> QED BY <2>1, <2>2
<1>4. ASSUME NEW s \in Nat, NEW t \in Nat, toBeClaimedSeq <= s, s < toBeClaimedSeq', Live(s)',
             toBeClaimedSeq <= t, t < toBeClaimedSeq'
      PROVE  Live(t)'
  <2>1. readSeq <= t
    BY <1>4 DEF ResetInv
  <2>2. ASSUME NEW c \in Consumers
        PROVE  (cpc[c] = "reset" => toBeClaimedSeq' <= t) /\ (cpc[c] = "store" => cbegin[c] <= t)
    <3>1. CASE cpc[c] = "reset"
      BY <1>4, <3>1 DEF Live
    <3>2. CASE cpc[c] = "store"
      BY <1>4, <3>2 DEF ResetInv, Resetting
    <3> QED BY <3>1, <3>2
  <2> QED BY <2>1, <2>2 DEF Live
<1> QED BY <1>1, <1>2, <1>3, <1>4

\* What Claim and TryGranted do to the claims and to what is promised.
LEMMA TakeFrame ==
  ASSUME TypeOK, ClaimInv, MaxTryBatch <= 1, NEW p \in Producers, Claim(p) \/ TryGranted(p)
  PROVE  /\ toBeClaimedSeq' \in Nat /\ toBeClaimedSeq < toBeClaimedSeq'
         /\ UNCHANGED <<readSeq, slotSeq, cpc, cmode, cbegin, cend, cpos, cmsg, times, thrown>>
         /\ \A s \in Nat :
              /\ s \notin Unpublished(p)
              /\ s \in Unpublished(p)' <=> toBeClaimedSeq <= s /\ s < toBeClaimedSeq'
         /\ \A q \in Producers \ {p} :
              /\ Unpublished(q)' = Unpublished(q) /\ Promised(q)' \subseteq Promised(q)
              /\ pc'[q] = pc[q] /\ pnext'[q] = pnext[q] /\ pend'[q] = pend[q]
         /\ Promised(p)' \subseteq Promised(p)
         /\ pc'[p] \in {"room", "fill"}
         /\ pc'[p] = "fill" => pc[p] = "cas" /\ pend'[p] = pend[p]
         /\ pnext'[p] = toBeClaimedSeq
<1> USE ElementTypes, Consts DEF Waiting, Writing
<1>0. SenderTypes
  BY DEF TypeOK
<1>1. CASE Claim(p)
  <2>1. PICK n \in 1 .. MaxBatch :
          /\ pend' = [pend EXCEPT ![p] = toBeClaimedSeq + n]
          /\ toBeClaimedSeq' = toBeClaimedSeq + n
    BY <1>1 DEF Claim
  <2>2. /\ pc[p] = "idle" /\ pc'[p] = "room" /\ pnext'[p] = toBeClaimedSeq
        /\ pend'[p] = toBeClaimedSeq'
        /\ \A q \in Producers \ {p} :
             pc'[q] = pc[q] /\ pnext'[q] = pnext[q] /\ pend'[q] = pend[q] /\ scan'[q] = scan[q]
    BY <1>0, <1>1, <2>1 DEF Claim, SenderTypes
  <2>3. UNCHANGED <<readSeq, slotSeq, cpc, cmode, cbegin, cend, cpos, cmsg, times, thrown>>
    BY <1>1 DEF Claim, readVars
  <2>4. \A q \in Producers \ {p} : Unpublished(q)' = Unpublished(q)
    BY <2>2 DEF Unpublished
  <2>5. \A q \in Producers \ {p} : Promised(q)' \subseteq Promised(q)
    BY <2>1, <2>2 DEF Promised, ClaimInv, Trying
  <2>6. Promised(p)' = {}
    BY <2>2 DEF Promised
  <2> QED BY <2>1, <2>2, <2>3, <2>4, <2>5, <2>6 DEF Unpublished
<1>2. CASE TryGranted(p)
  <2>1. /\ pc[p] = "cas" /\ pc'[p] = "fill" /\ pnext'[p] = toBeClaimedSeq
        /\ pnext[p] = toBeClaimedSeq /\ pend[p] = toBeClaimedSeq' /\ pend'[p] = pend[p]
        /\ \A q \in Producers \ {p} :
             pc'[q] = pc[q] /\ pnext'[q] = pnext[q] /\ pend'[q] = pend[q] /\ scan'[q] = scan[q]
    BY <1>0, <1>2 DEF TryGranted, StartWriting, SenderTypes
  <2>2. pend[p] = pnext[p] + 1
    BY <2>1 DEF ClaimInv, Trying
  <2>3. UNCHANGED <<readSeq, slotSeq, cpc, cmode, cbegin, cend, cpos, cmsg, times, thrown>>
    BY <1>2 DEF TryGranted, readVars
  <2>4. \A q \in Producers \ {p} : Unpublished(q)' = Unpublished(q)
    BY <2>1 DEF Unpublished
  <2>5. \A q \in Producers \ {p} : Promised(q)' \subseteq Promised(q)
    BY <2>1, <2>2 DEF Promised, ClaimInv, Trying
  <2>6. Promised(p)' \subseteq Promised(p)
    BY <2>1, <2>2 DEF Promised
  <2> QED BY <2>1, <2>2, <2>3, <2>4, <2>5, <2>6 DEF Unpublished
<1> QED BY <1>1, <1>2

\* A sender that starts to write tears its own slots and leaves the others alone.
LEMMA TornSlots ==
  ASSUME TypeOK, NEW p \in Producers, StartWriting(p)
  PROVE  /\ \A i \in Slots : slotData'[i] = TORN \/ slotData'[i] = slotData[i]
         /\ \A i \in Slots : (\A s \in pnext[p] .. pend[p] - 1 : Idx(s) # i)
              => slotData'[i] = slotData[i]
BY DEF StartWriting

\* A torn slot is not a message: what was unspent or unwritten still is.
LEMMA TornKept ==
  ASSUME TypeOK, UNCHANGED <<times, cmsg>>,
         \A i \in Slots : slotData'[i] = TORN \/ slotData'[i] = slotData[i]
  PROVE  /\ \A s \in Nat : Unwritten(s) => Unwritten(s)'
         /\ \A i \in Slots : Unspent(slotData[i]) => Unspent(slotData[i])'
         /\ \A c \in Consumers : Unspent(cmsg[c])' <=> Unspent(cmsg[c])
         /\ \A i \in Slots : slotData'[i] \in Nat => slotData'[i] = slotData[i]
<1>1. TORN \notin Nat /\ TORN \notin DOMAIN times
  BY DEF TORN, TypeOK, RingTypes
<1> QED BY <1>1 DEF Unwritten, Unspent

\* Claiming keeps what holds while no ring is reset under running consumers.
LEMMA TakeCore ==
  ASSUME TypeOK, ClaimInv, CoreInv, TypeOK', MaxTryBatch <= 1,
         NEW p \in Producers, Claim(p) \/ TryGranted(p)
  PROVE  CoreInv'
<1> USE ElementTypes, Consts
<1>1. /\ toBeClaimedSeq' \in Nat /\ toBeClaimedSeq < toBeClaimedSeq'
      /\ UNCHANGED <<readSeq, slotSeq, cpc, cmode, cbegin, cend, cpos, cmsg, times, thrown>>
      /\ \A s \in Nat :
           /\ s \notin Unpublished(p)
           /\ s \in Unpublished(p)' <=> toBeClaimedSeq <= s /\ s < toBeClaimedSeq'
      /\ \A q \in Producers \ {p} :
           /\ Unpublished(q)' = Unpublished(q) /\ Promised(q)' \subseteq Promised(q)
           /\ pc'[q] = pc[q] /\ pnext'[q] = pnext[q] /\ pend'[q] = pend[q]
      /\ Promised(p)' \subseteq Promised(p)
      /\ pc'[p] \in {"room", "fill"}
      /\ pc'[p] = "fill" => pc[p] = "cas" /\ pend'[p] = pend[p]
  BY TakeFrame, Zenon
<1>2. ResetInv
  BY DEF CoreInv
<1>3. /\ \A s \in Nat : Live(s)' => Live(s)
      /\ \A s \in Nat : s < toBeClaimedSeq => (Live(s)' <=> Live(s))
      /\ \A s \in Nat : Standing(s)' <=> Standing(s)
      /\ \A s, t \in Nat :
           /\ toBeClaimedSeq <= s /\ s < toBeClaimedSeq' /\ Live(s)'
           /\ toBeClaimedSeq <= t /\ t < toBeClaimedSeq'
           => Live(t)'
  BY <1>1, <1>2, GrowFrame
<1>4. \A c \in Consumers : Busy(c)' = Busy(c) /\ Held(c)' = Held(c)
  BY <1>1 DEF Busy, Held
<1>5. \A q \in Producers \ {p} : \A s \in Unpublished(q) : s \in Nat /\ s < toBeClaimedSeq
  BY DEF Unpublished, ClaimInv, Claimed
<1>6. \A s \in Unpublished(p)' :
        s \in Nat /\ toBeClaimedSeq <= s /\ s < toBeClaimedSeq' /\ s <= MaxSeq - 1
  <2>1. Unpublished(p)' \subseteq Nat /\ toBeClaimedSeq' <= MaxSeq
    BY DEF TypeOK, RingTypes, SenderTypes, Unpublished
  <2> QED BY <1>1, <2>1
<1>7. ResetInv'
  BY <1>1, <1>2 DEF ResetInv, Resetting
<1>8. HeaderInv'
  <2> SUFFICES ASSUME NEW i \in Slots, slotSeq[i] # FREE
               PROVE  /\ Idx(slotSeq[i]) = i
                      /\ slotSeq[i] < toBeClaimedSeq'
                      /\ \A q \in Producers : slotSeq[i] \notin Unpublished(q)'
    BY <1>1 DEF HeaderInv
  <2>1. /\ Idx(slotSeq[i]) = i /\ slotSeq[i] < toBeClaimedSeq
        /\ \A q \in Producers : slotSeq[i] \notin Unpublished(q)
    BY DEF CoreInv, HeaderInv
  <2>2. slotSeq[i] \in Nat
    BY DEF TypeOK, RingTypes
  <2> QED BY <1>1, <2>1, <2>2
<1>9. StandInv'
  <2>1. ASSUME NEW q \in Producers, NEW s \in Unpublished(q)', NEW t \in Unpublished(q)', Live(s)'
        PROVE  Live(t)'
    <3>1. CASE q = p
      BY <1>3, <1>6, <2>1, <3>1
    <3>2. CASE q # p
      <4>1. s \in Unpublished(q) /\ t \in Unpublished(q)
        BY <1>1, <2>1, <3>2
      <4>2. Live(s)
        BY <1>3, <1>5, <2>1, <3>2, <4>1
      <4>3. Live(t)
        BY <4>1, <4>2 DEF CoreInv, StandInv
      <4> QED BY <1>3, <1>5, <3>2, <4>1, <4>3
    <3> QED BY <3>1, <3>2
  <2>2. ASSUME NEW q \in Producers, pc'[q] \in {"ready", "tryReady", "cas"} \cup Writing
        PROVE  HasRoom(q)'
    <3>1. HasRoom(q) /\ pend'[q] = pend[q]
      BY <1>1, <2>2 DEF CoreInv, StandInv, Writing
    <3> QED BY <1>1, <3>1 DEF HasRoom
  <2>3. \A s \in 0 .. MaxSeq - 1 : Standing(s)' => s < readSeq + CAPACITY /\ slotSeq[Idx(s)] # FREE
    BY <1>3 DEF CoreInv, StandInv
  <2> QED BY <1>1, <2>1, <2>2, <2>3 DEF StandInv
<1>10. BusyInv'
  <2> SUFFICES ASSUME NEW c \in Consumers, NEW t \in Busy(c)
               PROVE  /\ t < readSeq
                      /\ slotSeq[Idx(t)] # FREE
                      /\ \A d \in Consumers : \A u \in Busy(d) : (c = d /\ t = u) \/ Idx(u) # Idx(t)
                      /\ \A s \in 0 .. MaxSeq - 1 : Standing(s)' => Idx(s) # Idx(t)
                      /\ \A q \in Producers : \A s \in Promised(q)' : Live(s)' => Idx(s) # Idx(t)
    BY <1>1, <1>4 DEF BusyInv
  <2>1. \A s \in 0 .. MaxSeq - 1 : Standing(s)' => Idx(s) # Idx(t)
    BY <1>3 DEF CoreInv, BusyInv
  <2>2. ASSUME NEW q \in Producers, NEW s \in Promised(q)', Live(s)' PROVE Idx(s) # Idx(t)
    <3>1. s \in Promised(q)
      BY <1>1, <2>2
    <3>2. Live(s)
      BY <1>3, <2>2, <3>1, RangeTypes
    <3> QED BY <3>1, <3>2 DEF CoreInv, BusyInv
  <2> QED BY <2>1, <2>2 DEF CoreInv, BusyInv
<1>11. RangeInv'
  <2>1. \A c \in Consumers : \A t \in cbegin[c] .. cend[c] - 1 : Standing(t)' <=> Standing(t)
    BY <1>3
  <2> QED BY <1>1, <2>1 DEF CoreInv, RangeInv
<1>12. DataInv'
  <2>1. \A i \in Slots : slotData'[i] = TORN \/ slotData'[i] = slotData[i]
    BY TornSlots DEF Claim, TryGranted
  <2>2. /\ \A s \in Nat : Unwritten(s) => Unwritten(s)'
        /\ \A i \in Slots : Unspent(slotData[i]) => Unspent(slotData[i])'
        /\ \A c \in Consumers : Unspent(cmsg[c])' <=> Unspent(cmsg[c])
        /\ \A i \in Slots : slotData'[i] \in Nat => slotData'[i] = slotData[i]
    BY <1>1, <2>1, TornKept
  <2>3. \A i \in Slots : slotData'[i] \in Nat => Idx(slotData'[i]) = i
    BY <2>2 DEF CoreInv, DataInv
  <2>4. ASSUME NEW s \in 0 .. MaxSeq - 1
        PROVE  /\ times[s] <= 1
               /\ toBeClaimedSeq' <= s => Unwritten(s)'
               /\ Standing(s)' => Unspent(slotData[Idx(s)])'
    <3>1. /\ times[s] <= 1
          /\ toBeClaimedSeq <= s => Unwritten(s)
          /\ Standing(s) => Unspent(slotData[Idx(s)])
      BY DEF CoreInv, DataInv
    <3> QED BY <1>1, <1>3, <2>2, <3>1, IdxType
  <2>5. ASSUME NEW q \in Producers, NEW s \in Unpublished(q)'
        PROVE  /\ pc'[q] # "commit" => Unwritten(s)'
               /\ pc'[q] = "commit" /\ Live(s)' => Unspent(slotData[Idx(s)])'
    <3>1. CASE q = p
      <4>1. Unwritten(s)
        BY <1>6, <2>5, <3>1 DEF CoreInv, DataInv
      <4> QED BY <1>1, <1>6, <2>2, <2>5, <3>1, <4>1
    <3>2. CASE q # p
      <4>1. s \in Unpublished(q) /\ s \in Nat
        BY <1>1, <1>5, <2>5, <3>2
      <4>2. /\ pc[q] # "commit" => Unwritten(s)
            /\ pc[q] = "commit" /\ Live(s) => Unspent(slotData[Idx(s)])
        BY <4>1 DEF CoreInv, DataInv
      <4> QED BY <1>1, <1>3, <2>2, <3>2, <4>1, <4>2, IdxType
    <3> QED BY <3>1, <3>2
  <2>6. ASSUME NEW c \in Consumers
        PROVE  /\ \A s \in Held(c) : Unspent(slotData[Idx(s)])'
               /\ cpc[c] = "cas" /\ cmode[c] # "peek" /\ cbegin[c] = readSeq =>
                    Unspent(cmsg[c])' /\ (cmsg[c] \in Nat => Idx(cmsg[c]) = Idx(cbegin[c]))
    <3>1. /\ \A s \in Held(c) : Unspent(slotData[Idx(s)])
          /\ cpc[c] = "cas" /\ cmode[c] # "peek" /\ cbegin[c] = readSeq =>
               Unspent(cmsg[c]) /\ (cmsg[c] \in Nat => Idx(cmsg[c]) = Idx(cbegin[c]))
      BY DEF CoreInv, DataInv
    <3> QED BY <2>2, <3>1, IdxType, RangeTypes
  <2> QED BY <1>1, <1>4, <2>3, <2>4, <2>5, <2>6 DEF DataInv
<1> QED BY <1>7, <1>8, <1>9, <1>10, <1>11, <1>12 DEF CoreInv

\* As long as no client throws nobody resets the ring, and what is ahead of the cursor
\* is live.
LEMMA NeverReset ==
  ASSUME TypeOK, CoreInv, thrown = "never"
  PROVE  \A s \in Nat : Live(s) <=> readSeq <= s
BY DEF CoreInv, ResetInv, Resetting, Live

\* What a consumer holds is part of what it is busy with.
LEMMA HeldBusy ==
  ASSUME TypeOK, CoreInv, NEW c \in Consumers PROVE Held(c) \subseteq Busy(c)
BY ElementTypes DEF Held, Busy, CoreInv, RangeInv

\* As long as no client throws, the slots a sender was promised are not those of a
\* message that stands, of one that a consumer is busy with, or of another sender that
\* writes.
LEMMA PromisedApart ==
  ASSUME TypeOK, ClaimInv, CoreInv, WholeInv, thrown = "never",
         NEW p \in Producers, HasRoom(p), NEW s \in Promised(p)
  PROVE  /\ \A t \in Nat : Standing(t) => Idx(t) # Idx(s)
         /\ \A c \in Consumers : \A t \in Busy(c) : Idx(t) # Idx(s)
         /\ \A q \in Producers \ {p} : \A t \in Promised(q) : pc[q] \in Writing => Idx(t) # Idx(s)
<1> USE ElementTypes, Consts
<1>1. /\ s \in Unpublished(p) \/ (pc[p] = "cas" /\ s = toBeClaimedSeq)
      /\ pnext[p] <= s /\ s < pend[p] /\ s \in Nat
  BY PromisedClaimed, RangeTypes
<1>2. \A q \in Producers : \A t \in Unpublished(q) : t \in Nat /\ readSeq <= t /\ t < toBeClaimedSeq
  BY DEF Unpublished, ClaimInv, Claimed, WholeInv
<1>3. readSeq <= s /\ s < readSeq + CAPACITY
  BY <1>1, <1>2 DEF HasRoom, CoreInv, ResetInv
<1>4. ASSUME NEW t \in Nat, Standing(t) PROVE Idx(t) # Idx(s)
  <2>1. t # s
    BY <1>1, <1>4 DEF Standing
  <2>2. t \in 0 .. MaxSeq - 1 /\ readSeq <= t
    BY <1>4 DEF Standing, Live
  <2>3. t < readSeq + CAPACITY
    BY <1>4, <2>2 DEF CoreInv, StandInv
  <2> QED BY <1>1, <1>3, <2>1, <2>2, <2>3, LapApart
<1>5. ASSUME NEW c \in Consumers, NEW t \in Busy(c) PROVE Idx(t) # Idx(s)
  <2>1. Live(s)
    BY <1>1, <1>3, NeverReset
  <2> QED BY <2>1 DEF CoreInv, BusyInv
<1>6. ASSUME NEW q \in Producers \ {p}, NEW t \in Promised(q), pc[q] \in Writing
      PROVE  Idx(t) # Idx(s)
  <2>1. t \in Unpublished(q) /\ t < pend[q] /\ pnext[q] <= t /\ Claimed(q)
    BY <1>6, PromisedClaimed DEF Writing, Claimed
  <2>2. t < readSeq + CAPACITY
    BY <1>6, <2>1, RangeTypes DEF CoreInv, StandInv, HasRoom
  <2>3. t # s
    <3>1. CASE s = toBeClaimedSeq
      BY <1>2, <2>1, <3>1
    <3>2. CASE s \in Unpublished(p)
      <4>1. Claimed(p)
        BY <3>2 DEF Unpublished, Claimed
      <4> QED BY <1>1, <2>1, <4>1 DEF ClaimInv
    <3> QED BY <1>1, <3>1, <3>2
  <2> QED BY <1>1, <1>2, <1>3, <2>1, <2>2, <2>3, LapApart
<1> QED BY <1>4, <1>5, <1>6

\* So whatever a sender writes to the slots it was promised leaves the data alone of
\* all messages that stand, are held or are being published.
LEMMA PromisedKept ==
  ASSUME TypeOK, ClaimInv, CoreInv, WholeInv, thrown = "never",
         NEW p \in Producers, HasRoom(p),
         \A i \in Slots : (\A s \in Promised(p) : Idx(s) # i) => slotData'[i] = slotData[i]
  PROVE  /\ \A t \in Nat : Standing(t) => slotData'[Idx(t)] = slotData[Idx(t)]
         /\ \A c \in Consumers : \A t \in Held(c) : slotData'[Idx(t)] = slotData[Idx(t)]
         /\ \A q \in Producers \ {p} : pc[q] \in Writing =>
              \A t \in pnext[q] .. pend[q] - 1 : slotData'[Idx(t)] = slotData[Idx(t)]
<1>1. ASSUME NEW t \in Nat, Standing(t) PROVE slotData'[Idx(t)] = slotData[Idx(t)]
  <2>1. \A s \in Promised(p) : Idx(s) # Idx(t)
    BY <1>1, PromisedApart
  <2> QED BY <2>1, IdxType
<1>2. ASSUME NEW c \in Consumers, NEW t \in Held(c) PROVE slotData'[Idx(t)] = slotData[Idx(t)]
  <2>1. \A s \in Promised(p) : Idx(s) # Idx(t)
    BY HeldBusy, PromisedApart
  <2>2. t \in Nat
    BY RangeTypes
  <2> QED BY <2>1, <2>2, IdxType
<1>3. ASSUME NEW q \in Producers \ {p}, pc[q] \in Writing, NEW t \in pnext[q] .. pend[q] - 1
      PROVE  slotData'[Idx(t)] = slotData[Idx(t)]
  <2>1. t \in Promised(q)
    BY <1>3 DEF Promised, Writing
  <2>2. \A s \in Promised(p) : Idx(s) # Idx(t)
    BY <1>3, <2>1, PromisedApart
  <2>3. t \in Nat
    BY <2>1, RangeTypes
  <2> QED BY <2>2, <2>3, IdxType
<1> QED BY <1>1, <1>2, <1>3

\* Claiming keeps what holds while no client has thrown.
LEMMA TakeWhole ==
  ASSUME TypeOK, ClaimInv, CoreInv, WholeInv, thrown = "never", MaxTryBatch <= 1,
         NEW p \in Producers, Claim(p) \/ TryGranted(p)
  PROVE  WholeInv'
<1> USE ElementTypes, Consts
<1>1. /\ toBeClaimedSeq' \in Nat /\ toBeClaimedSeq < toBeClaimedSeq'
      /\ UNCHANGED <<readSeq, slotSeq, cpc, cmode, cbegin, cend, cpos, cmsg, times, thrown>>
      /\ \A s \in Nat :
           /\ s \notin Unpublished(p)
           /\ s \in Unpublished(p)' <=> toBeClaimedSeq <= s /\ s < toBeClaimedSeq'
      /\ \A q \in Producers \ {p} :
           /\ Unpublished(q)' = Unpublished(q)
           /\ pc'[q] = pc[q] /\ pnext'[q] = pnext[q] /\ pend'[q] = pend[q]
      /\ pc'[p] \in {"room", "fill"}
      /\ pnext'[p] = toBeClaimedSeq
  BY TakeFrame, Zenon
<1>2. ResetInv
  BY DEF CoreInv
<1>3. \A s \in Nat : Standing(s)' <=> Standing(s)
  BY <1>1, <1>2, GrowFrame
<1>4. \A c \in Consumers : Held(c)' = Held(c)
  BY <1>1 DEF Held
<1>5. /\ \A t \in Nat : Standing(t) => slotData'[Idx(t)] = slotData[Idx(t)]
      /\ \A c \in Consumers : \A t \in Held(c) : slotData'[Idx(t)] = slotData[Idx(t)]
      /\ \A q \in Producers \ {p} : pc[q] \in Writing =>
           \A t \in pnext[q] .. pend[q] - 1 : slotData'[Idx(t)] = slotData[Idx(t)]
  <2>1. CASE Claim(p)
    BY <2>1 DEF Claim
  <2>2. CASE TryGranted(p)
    <3>1. \A i \in Slots : (\A s \in Promised(p) : Idx(s) # i) => slotData'[i] = slotData[i]
      <4>1. pc[p] = "cas" /\ toBeClaimedSeq = pnext[p] /\ pend[p] = pnext[p] + 1
        BY <2>2 DEF TryGranted, ClaimInv, Trying
      <4>2. pnext[p] .. pend[p] - 1 \subseteq Promised(p)
        BY <4>1 DEF Promised
      <4> QED BY <2>2, <4>2, TornSlots DEF TryGranted
    <3>2. HasRoom(p)
      BY <2>2 DEF TryGranted, CoreInv, StandInv
    <3> QED BY <3>1, <3>2, PromisedKept
  <2> QED BY <2>1, <2>2
<1>6. ASSUME NEW q \in Producers, Claimed(q)'
      PROVE  /\ readSeq <= pnext'[q]
             /\ pc'[q] = "commit" =>
                  \A s \in pnext'[q] .. pend'[q] - 1 : slotData'[Idx(s)] = s
  <2>1. CASE q = p
    BY <1>1, <1>2, <2>1 DEF ResetInv
  <2>2. CASE q # p
    <3>1. Claimed(q)
      BY <1>1, <1>6, <2>2 DEF Claimed
    <3>2. /\ readSeq <= pnext[q]
          /\ pc[q] = "commit" => \A s \in pnext[q] .. pend[q] - 1 : slotData[Idx(s)] = s
      BY <3>1 DEF WholeInv
    <3> QED BY <1>1, <1>5, <2>2, <3>2 DEF Writing
  <2> QED BY <2>1, <2>2
<1>7. ASSUME NEW s \in 0 .. MaxSeq - 1
      PROVE  /\ Standing(s)' => slotSeq[Idx(s)] = s /\ slotData'[Idx(s)] = s
             /\ s < readSeq => times[s] > 0 \/ \E c \in Consumers : s \in Held(c)
  BY <1>3, <1>5 DEF WholeInv
<1>8. ASSUME NEW c \in Consumers
      PROVE  /\ \A s \in Held(c) : slotSeq[Idx(s)] = s /\ slotData'[Idx(s)] = s
             /\ cpc[c] = "cas" /\ cmode[c] # "peek" /\ cbegin[c] = readSeq => cmsg[c] = cbegin[c]
  BY <1>5 DEF WholeInv
<1> QED BY <1>1, <1>4, <1>6, <1>7, <1>8 DEF WholeInv

-----------------------------------------------------------------------------
\* A sender that starts to write, and one that has written its messages, change the
\* data in the slots that were promised to it.
LEMMA WriteFrame ==
  ASSUME TypeOK, ClaimInv, NEW p \in Producers, Granted(p) \/ Fill(p)
  PROVE  /\ UNCHANGED <<toBeClaimedSeq, readSeq, slotSeq, pnext, pend, scan, cpc, cmode, cbegin,
                        cend, cpos, cmsg, times, thrown>>
         /\ \A q \in Producers \ {p} : pc'[q] = pc[q]
         /\ pc[p] \in {"ready", "fill"} /\ pc'[p] \in {"fill", "commit"}
         /\ \A q \in Producers :
              Unpublished(q)' = Unpublished(q) /\ Promised(q)' \subseteq Promised(q)
         /\ \A i \in Slots : (\A s \in Promised(p) : Idx(s) # i) => slotData'[i] = slotData[i]
         /\ pc'[p] = "commit" => \A s \in pnext[p] .. pend[p] - 1 : slotData'[Idx(s)] = s
         /\ \A i \in Slots :
              \/ slotData'[i] = TORN
              \/ slotData'[i] = slotData[i]
              \/ /\ pc[p] = "fill" /\ pc'[p] = "commit"
                 /\ slotData'[i] \in Unpublished(p) /\ Idx(slotData'[i]) = i
<1> USE ElementTypes, Consts
<1>0. SenderTypes
  BY DEF TypeOK
<1>1. UNCHANGED <<toBeClaimedSeq, readSeq, slotSeq, pnext, pend, scan, cpc, cmode, cbegin,
                  cend, cpos, cmsg, times, thrown>>
  BY DEF Granted, Fill, StartWriting, readVars
<1>2. \A q \in Producers \ {p} : pc'[q] = pc[q]
  BY <1>0 DEF Granted, Fill, StartWriting, SenderTypes
<1>3. pc[p] \in {"ready", "fill"} /\ pc'[p] \in {"fill", "commit"}
  BY <1>0 DEF Granted, Fill, StartWriting, SenderTypes
<1>4. \A q \in Producers : Unpublished(q)' = Unpublished(q)
  <2>1. \A q \in Producers :
          pc'[q] \in Waiting \cup Writing <=> pc[q] \in Waiting \cup Writing
    BY <1>2, <1>3 DEF Waiting, Writing
  <2> QED BY <1>1, <2>1 DEF Unpublished
<1>5. \A q \in Producers \ {p} : Promised(q)' \subseteq Promised(q)
  BY <1>1, <1>2 DEF Promised
<1>6. pnext[p] .. pend[p] - 1 \subseteq Promised(p) /\ Promised(p)' \subseteq Promised(p)
  <2>1. CASE Granted(p)
    <3>1. scan[p] = pend[p] /\ pc[p] = "ready" /\ pc'[p] = "fill"
      BY <1>0, <2>1 DEF Granted, StartWriting, SenderTypes
    <3> QED BY <1>1, <3>1 DEF Promised, Writing
  <2>2. CASE Fill(p)
    <3>1. pc[p] = "fill" /\ pc'[p] = "commit"
      BY <1>0, <2>2 DEF Fill, SenderTypes
    <3> QED BY <1>1, <3>1 DEF Promised, Writing
  <2> QED BY <2>1, <2>2
<1>7. \A i \in Slots : (\A s \in Promised(p) : Idx(s) # i) => slotData'[i] = slotData[i]
  <2>1. CASE Granted(p)
    BY <1>6, <2>1, TornSlots DEF Granted
  <2>2. CASE Fill(p)
    BY <1>6, <2>2 DEF Fill
  <2> QED BY <2>1, <2>2
<1>8. ASSUME NEW i \in Slots, slotData'[i] # TORN, slotData'[i] # slotData[i]
      PROVE  /\ pc[p] = "fill" /\ pc'[p] = "commit"
             /\ slotData'[i] \in Unpublished(p) /\ Idx(slotData'[i]) = i
  <2>1. CASE Granted(p)
    BY <1>8, <2>1, TornSlots DEF Granted
  <2>2. CASE Fill(p)
    <3>1. pc[p] = "fill" /\ pc'[p] = "commit"
      BY <1>0, <2>2 DEF Fill, SenderTypes
    <3>2. /\ \E s \in pnext[p] .. pend[p] - 1 : Idx(s) = i
          /\ slotData'[i] = CHOOSE s \in pnext[p] .. pend[p] - 1 : Idx(s) = i
      BY <1>8, <2>2 DEF Fill
    <3>3. slotData'[i] \in pnext[p] .. pend[p] - 1 /\ Idx(slotData'[i]) = i
      BY <3>2
    <3> QED BY <3>1, <3>3 DEF Unpublished, Writing
  <2> QED BY <2>1, <2>2
<1>9. ASSUME pc'[p] = "commit", NEW s \in pnext[p] .. pend[p] - 1
      PROVE  slotData'[Idx(s)] = s
  <2>1. Fill(p)
    BY <1>0, <1>9 DEF Granted, StartWriting, SenderTypes
  <2> DEFINE m == CHOOSE r \in pnext[p] .. pend[p] - 1 : Idx(r) = Idx(s)
  <2>2. m \in pnext[p] .. pend[p] - 1 /\ Idx(m) = Idx(s)
    OBVIOUS
  <2>3. Idx(s) \in Slots
    BY IdxType
  <2>4. slotData'[Idx(s)] = m
    BY <2>1, <2>3 DEF Fill
  <2> HIDE DEF m
  <2>5. pend[p] <= pnext[p] + CAPACITY
    BY <2>1 DEF Fill, ClaimInv
  <2>6. m = s
    BY <2>2, <2>5, LapApart
  <2> QED BY <2>4, <2>6
<1> QED BY <1>1, <1>2, <1>3, <1>4, <1>5, <1>6, <1>7, <1>8, <1>9

\* Writing keeps what holds while no ring is reset under running consumers.
LEMMA WriteCore ==
  ASSUME TypeOK, ClaimInv, CoreInv, NEW p \in Producers, Granted(p) \/ Fill(p)
  PROVE  CoreInv'
<1> USE ElementTypes, Consts
<1>1. /\ UNCHANGED <<toBeClaimedSeq, readSeq, slotSeq, pnext, pend, scan, cpc, cmode, cbegin,
                     cend, cpos, cmsg, times, thrown>>
      /\ \A q \in Producers \ {p} : pc'[q] = pc[q]
      /\ pc[p] \in {"ready", "fill"} /\ pc'[p] \in {"fill", "commit"}
      /\ \A q \in Producers :
           Unpublished(q)' = Unpublished(q) /\ Promised(q)' \subseteq Promised(q)
      /\ \A i \in Slots :
           \/ slotData'[i] = TORN
           \/ slotData'[i] = slotData[i]
           \/ /\ pc[p] = "fill" /\ pc'[p] = "commit"
              /\ slotData'[i] \in Unpublished(p) /\ Idx(slotData'[i]) = i
  BY WriteFrame, Zenon
<1>2. \A s \in Int : Live(s)' <=> Live(s)
  BY <1>1, LiveKept
<1>3. \A s \in Int : Standing(s)' <=> Standing(s)
  BY <1>1, <1>2, StandingKept
<1>4. \A c \in Consumers : Busy(c)' = Busy(c) /\ Held(c)' = Held(c)
  BY <1>1 DEF Busy, Held
<1>5. ResetInv'
  BY <1>1 DEF CoreInv, ResetInv, Resetting
<1>6. HeaderInv'
  BY <1>1 DEF CoreInv, HeaderInv
<1>7. StandInv'
  <2>1. \A q \in Producers : \A s, t \in Unpublished(q) : Live(s)' => Live(t)'
    BY <1>2, RangeTypes DEF CoreInv, StandInv
  <2>2. ASSUME NEW q \in Producers, pc'[q] \in {"ready", "tryReady", "cas"} \cup Writing
        PROVE  HasRoom(q)'
    <3>1. HasRoom(q)
      BY <1>1, <2>2 DEF CoreInv, StandInv, Writing
    <3> QED BY <1>1, <3>1 DEF HasRoom
  <2>3. \A s \in 0 .. MaxSeq - 1 : Standing(s)' => s < readSeq + CAPACITY /\ slotSeq[Idx(s)] # FREE
    BY <1>3 DEF CoreInv, StandInv
  <2> QED BY <1>1, <2>1, <2>2, <2>3 DEF StandInv
<1>8. BusyInv'
  <2> SUFFICES ASSUME NEW c \in Consumers, NEW t \in Busy(c)
               PROVE  /\ t < readSeq
                      /\ slotSeq[Idx(t)] # FREE
                      /\ \A d \in Consumers : \A u \in Busy(d) : (c = d /\ t = u) \/ Idx(u) # Idx(t)
                      /\ \A s \in 0 .. MaxSeq - 1 : Standing(s)' => Idx(s) # Idx(t)
                      /\ \A q \in Producers : \A s \in Promised(q)' : Live(s)' => Idx(s) # Idx(t)
    BY <1>1, <1>4 DEF BusyInv
  <2>1. \A s \in 0 .. MaxSeq - 1 : Standing(s)' => Idx(s) # Idx(t)
    BY <1>3 DEF CoreInv, BusyInv
  <2>2. ASSUME NEW q \in Producers, NEW s \in Promised(q)', Live(s)' PROVE Idx(s) # Idx(t)
    <3>1. s \in Promised(q) /\ s \in Int
      BY <1>1, <2>2, RangeTypes
    <3>2. Live(s)
      BY <1>2, <2>2, <3>1
    <3> QED BY <3>1, <3>2 DEF CoreInv, BusyInv
  <2> QED BY <2>1, <2>2 DEF CoreInv, BusyInv
<1>9. RangeInv'
  <2>1. \A c \in Consumers : \A t \in cbegin[c] .. cend[c] - 1 : Standing(t)' <=> Standing(t)
    BY <1>3
  <2> QED BY <1>1, <2>1 DEF CoreInv, RangeInv
<1>10. DataInv'
  <2>1. \A s \in Unpublished(p) : s \in Nat /\ s < toBeClaimedSeq
    BY DEF Unpublished, ClaimInv, Claimed
  <2>2. \A s \in Nat : s \notin Unpublished(p) /\ Unwritten(s) => Unwritten(s)'
    BY <1>1 DEF Unwritten, TORN
  <2>3. pc'[p] # "commit" => \A s \in Nat : Unwritten(s) => Unwritten(s)'
    BY <1>1 DEF Unwritten, TORN
  <2>4. ASSUME NEW i \in Slots, Unspent(slotData[i]) \/ slotData'[i] # slotData[i]
        PROVE  Unspent(slotData[i])'
    <3>1. CASE slotData'[i] = TORN
      BY <1>1, <3>1 DEF Unspent, TORN, TypeOK, RingTypes
    <3>2. CASE slotData'[i] = slotData[i]
      BY <1>1, <2>4, <3>2 DEF Unspent
    <3>3. CASE pc[p] = "fill" /\ slotData'[i] \in Unpublished(p)
      <4>1. Unwritten(slotData'[i])
        BY <3>3 DEF CoreInv, DataInv
      <4> QED BY <1>1, <4>1 DEF Unwritten, Unspent
    <3> QED BY <1>1, <3>1, <3>2, <3>3
  <2>5. \A i \in Slots : slotData'[i] \in Nat => Idx(slotData'[i]) = i
    BY <1>1 DEF CoreInv, DataInv, TORN
  <2>6. ASSUME NEW s \in 0 .. MaxSeq - 1
        PROVE  /\ times[s] <= 1
               /\ toBeClaimedSeq <= s => Unwritten(s)'
               /\ Standing(s)' => Unspent(slotData[Idx(s)])'
    <3>1. /\ times[s] <= 1
          /\ toBeClaimedSeq <= s => Unwritten(s)
          /\ Standing(s) => Unspent(slotData[Idx(s)])
      BY DEF CoreInv, DataInv
    <3> QED BY <1>3, <2>1, <2>2, <2>4, <3>1, IdxType
  <2>7. ASSUME NEW q \in Producers, NEW s \in Unpublished(q)
        PROVE  /\ pc'[q] # "commit" => Unwritten(s)'
               /\ pc'[q] = "commit" /\ Live(s)' => Unspent(slotData[Idx(s)])'
    <3>0. s \in Nat /\ Idx(s) \in Slots
      BY RangeTypes, IdxType
    <3>1. /\ pc[q] # "commit" => Unwritten(s)
          /\ pc[q] = "commit" /\ Live(s) => Unspent(slotData[Idx(s)])
      BY DEF CoreInv, DataInv
    <3>2. CASE q = p
      <4>1. CASE pc'[p] # "commit"
        BY <1>1, <2>3, <3>0, <3>1, <3>2, <4>1
      <4>2. CASE pc'[p] = "commit"
        <5>1. Unwritten(s)
          BY <1>1, <3>1, <3>2
        <5>2. slotData'[Idx(s)] # slotData[Idx(s)]
          <6>1. slotData'[Idx(s)] = s
            BY <3>2, <4>2, WriteFrame DEF Unpublished
          <6> QED BY <3>0, <5>1, <6>1 DEF Unwritten
        <5> QED BY <2>4, <3>0, <3>2, <4>2, <5>2
      <4> QED BY <4>1, <4>2
    <3>3. CASE q # p
      <4>1. s \notin Unpublished(p)
        BY <3>3 DEF Unpublished, Claimed, ClaimInv
      <4> QED BY <1>1, <1>2, <2>2, <2>4, <3>0, <3>1, <3>3, <4>1
    <3> QED BY <3>2, <3>3
  <2>8. ASSUME NEW c \in Consumers
        PROVE  /\ \A s \in Held(c) : Unspent(slotData[Idx(s)])'
               /\ cpc[c] = "cas" /\ cmode[c] # "peek" /\ cbegin[c] = readSeq =>
                    Unspent(cmsg[c])' /\ (cmsg[c] \in Nat => Idx(cmsg[c]) = Idx(cbegin[c]))
    <3>1. /\ \A s \in Held(c) : Unspent(slotData[Idx(s)])
          /\ cpc[c] = "cas" /\ cmode[c] # "peek" /\ cbegin[c] = readSeq =>
               Unspent(cmsg[c]) /\ (cmsg[c] \in Nat => Idx(cmsg[c]) = Idx(cbegin[c]))
      BY DEF CoreInv, DataInv
    <3>2. Unspent(cmsg[c])' <=> Unspent(cmsg[c])
      BY <1>1 DEF Unspent
    <3> QED BY <2>4, <3>1, <3>2, IdxType, RangeTypes
  <2> QED BY <1>1, <1>4, <2>5, <2>6, <2>7, <2>8 DEF DataInv
<1> QED BY <1>5, <1>6, <1>7, <1>8, <1>9, <1>10 DEF CoreInv

\* Writing keeps what holds while no client has thrown.
LEMMA WriteWhole ==
  ASSUME TypeOK, ClaimInv, CoreInv, WholeInv, thrown = "never",
         NEW p \in Producers, Granted(p) \/ Fill(p)
  PROVE  WholeInv'
<1> USE ElementTypes, Consts
<1>1. /\ UNCHANGED <<toBeClaimedSeq, readSeq, slotSeq, pnext, pend, scan, cpc, cmode, cbegin,
                     cend, cpos, cmsg, times, thrown>>
      /\ \A q \in Producers \ {p} : pc'[q] = pc[q]
      /\ pc[p] \in {"ready", "fill"} /\ pc'[p] \in {"fill", "commit"}
      /\ \A q \in Producers : Unpublished(q)' = Unpublished(q)
      /\ \A i \in Slots : (\A s \in Promised(p) : Idx(s) # i) => slotData'[i] = slotData[i]
      /\ pc'[p] = "commit" => \A s \in pnext[p] .. pend[p] - 1 : slotData'[Idx(s)] = s
  BY WriteFrame, Zenon
<1>2. \A s \in Int : Standing(s)' <=> Standing(s)
  BY <1>1, LiveKept, StandingKept
<1>3. \A c \in Consumers : Held(c)' = Held(c)
  BY <1>1 DEF Held
<1>4. HasRoom(p)
  BY <1>1 DEF CoreInv, StandInv, Writing
<1>5. /\ \A t \in Nat : Standing(t) => slotData'[Idx(t)] = slotData[Idx(t)]
      /\ \A c \in Consumers : \A t \in Held(c) : slotData'[Idx(t)] = slotData[Idx(t)]
      /\ \A q \in Producers \ {p} : pc[q] \in Writing =>
           \A t \in pnext[q] .. pend[q] - 1 : slotData'[Idx(t)] = slotData[Idx(t)]
  BY <1>1, <1>4, PromisedKept
<1>6. ASSUME NEW q \in Producers, Claimed(q)'
      PROVE  /\ readSeq <= pnext[q]
             /\ pc'[q] = "commit" => \A s \in pnext[q] .. pend[q] - 1 : slotData'[Idx(s)] = s
  <2>1. Claimed(q)
    BY <1>1, <1>6 DEF Claimed, Waiting, Writing
  <2>2. /\ readSeq <= pnext[q]
        /\ pc[q] = "commit" => \A s \in pnext[q] .. pend[q] - 1 : slotData[Idx(s)] = s
    BY <2>1 DEF WholeInv
  <2>3. CASE q = p
    BY <1>1, <2>2, <2>3
  <2>4. CASE q # p
    BY <1>1, <1>5, <2>2, <2>4 DEF Writing
  <2> QED BY <2>3, <2>4
<1>7. ASSUME NEW s \in 0 .. MaxSeq - 1
      PROVE  /\ Standing(s)' => slotSeq[Idx(s)] = s /\ slotData'[Idx(s)] = s
             /\ s < readSeq => times[s] > 0 \/ \E c \in Consumers : s \in Held(c)
  BY <1>2, <1>5 DEF WholeInv
<1>8. ASSUME NEW c \in Consumers
      PROVE  /\ \A s \in Held(c) : slotSeq[Idx(s)] = s /\ slotData'[Idx(s)] = s
             /\ cpc[c] = "cas" /\ cmode[c] # "peek" /\ cbegin[c] = readSeq => cmsg[c] = cbegin[c]
  BY <1>5 DEF WholeInv
<1> QED BY <1>1, <1>3, <1>6, <1>7, <1>8 DEF WholeInv

-----------------------------------------------------------------------------
\* Publishing moves one number from the sender's range to a header.
LEMMA CommitFrame ==
  ASSUME TypeOK, ClaimInv, NEW p \in Producers, Commit(p)
  PROVE  /\ UNCHANGED <<toBeClaimedSeq, readSeq, slotData, cpc, cmode, cbegin, cend, cpos, cmsg,
                        times, thrown>>
         /\ \A i \in Slots : slotSeq'[i] = IF i = Idx(pnext[p]) THEN pnext[p] ELSE slotSeq[i]
         /\ pnext[p] \in Unpublished(p) /\ pnext[p] \in Promised(p)
         /\ pnext[p] \in Nat /\ pnext[p] < toBeClaimedSeq /\ pnext[p] < pend[p]
         /\ \A q \in Producers \ {p} :
              /\ pc'[q] = pc[q] /\ pnext'[q] = pnext[q] /\ pend'[q] = pend[q]
              /\ pnext[p] \notin Unpublished(q)
         /\ pc[p] = "commit" /\ pc'[p] \in {"idle", "commit"}
         /\ pc'[p] = "commit" => pnext'[p] = pnext[p] + 1 /\ pend'[p] = pend[p]
         /\ \A q \in Producers : \A s \in Nat :
              /\ s \in Unpublished(q)' <=> s \in Unpublished(q) /\ s # pnext[p]
              /\ s \in Promised(q)' => s \in Promised(q)
<1> USE ElementTypes, Consts
<1>0. SenderTypes
  BY DEF TypeOK
<1>1. UNCHANGED <<toBeClaimedSeq, readSeq, slotData, cpc, cmode, cbegin, cend, cpos, cmsg,
                  times, thrown>>
  BY DEF Commit, readVars
<1>2. \A i \in Slots : slotSeq'[i] = IF i = Idx(pnext[p]) THEN pnext[p] ELSE slotSeq[i]
  BY DEF Commit, TypeOK, RingTypes
<1>3. pc[p] = "commit" /\ pnext[p] < pend[p] /\ pend[p] <= toBeClaimedSeq
  BY DEF Commit, ClaimInv, Claimed, Writing
<1>4. pnext[p] \in Unpublished(p) /\ pnext[p] \in Promised(p)
  BY <1>3 DEF Unpublished, Promised, Writing
<1>5. /\ pc'[p] \in {"idle", "commit"}
      /\ pc'[p] = "commit" => pnext'[p] = pnext[p] + 1 /\ pend'[p] = pend[p]
      /\ pc'[p] # "commit" => pend[p] = pnext[p] + 1
      /\ \A q \in Producers \ {p} :
           pc'[q] = pc[q] /\ pnext'[q] = pnext[q] /\ pend'[q] = pend[q] /\ scan'[q] = scan[q]
  BY <1>0 DEF Commit, Return, SenderTypes
<1>6. \A q \in Producers \ {p} : pnext[p] \notin Unpublished(q)
  BY <1>3 DEF Unpublished, ClaimInv, Claimed, Writing
<1>7. ASSUME NEW q \in Producers, NEW s \in Nat
      PROVE  /\ s \in Unpublished(q)' <=> s \in Unpublished(q) /\ s # pnext[p]
             /\ s \in Promised(q)' => s \in Promised(q)
  <2>1. CASE q = p
    <3>1. CASE pc'[p] = "commit"
      <4>1. s \in Unpublished(p)' <=> pnext'[p] <= s /\ s < pend'[p]
        BY <1>5, <3>1 DEF Unpublished, Writing
      <4>2. s \in Unpublished(p) <=> pnext[p] <= s /\ s < pend[p]
        BY <1>3 DEF Unpublished, Writing
      <4>3. s \in Promised(p)' <=> pnext'[p] <= s /\ s < pend'[p]
        BY <1>5, <3>1 DEF Promised, Writing
      <4>4. s \in Promised(p) <=> pnext[p] <= s /\ s < pend[p]
        BY <1>3 DEF Promised, Writing
      <4> QED BY <1>5, <2>1, <3>1, <4>1, <4>2, <4>3, <4>4
    <3>2. CASE pc'[p] = "idle"
      <4>1. s \notin Unpublished(p)' /\ s \notin Promised(p)'
        BY <3>2 DEF Unpublished, Promised, Waiting, Writing
      <4>2. s \in Unpublished(p) <=> pnext[p] <= s /\ s < pend[p]
        BY <1>3 DEF Unpublished, Writing
      <4> QED BY <1>5, <2>1, <3>2, <4>1, <4>2
    <3> QED BY <1>5, <3>1, <3>2
  <2>2. CASE q # p
    <3>1. Unpublished(q)' = Unpublished(q)
      BY <1>5, <2>2 DEF Unpublished
    <3>2. Promised(q)' = Promised(q)
      BY <1>1, <1>5, <2>2 DEF Promised
    <3> QED BY <1>6, <2>2, <3>1, <3>2
  <2> QED BY <2>1, <2>2
<1> QED BY <1>1, <1>2, <1>3, <1>4, <1>5, <1>6, <1>7

\* What was published stands, if it is live.
LEMMA CommitStanding ==
  ASSUME TypeOK, ClaimInv, NEW p \in Producers, Commit(p)
  PROVE  /\ \A s \in Int : Live(s)' <=> Live(s)
         /\ \A s \in Nat : Standing(s)' <=> Standing(s) \/ (s = pnext[p] /\ Live(s))
<1>1. /\ UNCHANGED <<toBeClaimedSeq, readSeq, cpc, cbegin>>
      /\ pnext[p] \in Nat /\ pnext[p] < toBeClaimedSeq
      /\ \A q \in Producers \ {p} : pnext[p] \notin Unpublished(q)
      /\ \A q \in Producers : \A s \in Nat :
           s \in Unpublished(q)' <=> s \in Unpublished(q) /\ s # pnext[p]
  BY CommitFrame
<1>2. \A s \in Int : Live(s)' <=> Live(s)
  BY <1>1, LiveKept
<1>3. ASSUME NEW s \in Nat
      PROVE  Standing(s)' <=> Standing(s) \/ (s = pnext[p] /\ Live(s))
  <2>1. CASE s = pnext[p]
    BY <1>1, <1>2, <2>1 DEF Standing
  <2>2. CASE s # pnext[p]
    BY <1>1, <1>2, <2>2 DEF Standing
  <2> QED BY <2>1, <2>2
<1> QED BY <1>2, <1>3

\* Publishing keeps what holds while no ring is reset under running consumers.
LEMMA CommitCore ==
  ASSUME TypeOK, ClaimInv, CoreInv, NEW p \in Producers, Commit(p)
  PROVE  CoreInv'
<1> DEFINE m == pnext[p]
<1> USE ElementTypes, Consts
<1>1. /\ UNCHANGED <<toBeClaimedSeq, readSeq, slotData, cpc, cmode, cbegin, cend, cpos, cmsg,
                     times, thrown>>
      /\ \A i \in Slots : slotSeq'[i] = IF i = Idx(m) THEN m ELSE slotSeq[i]
      /\ m \in Unpublished(p) /\ m \in Promised(p)
      /\ m \in Nat /\ m < toBeClaimedSeq /\ m < pend[p]
      /\ \A q \in Producers \ {p} :
           /\ pc'[q] = pc[q] /\ pnext'[q] = pnext[q] /\ pend'[q] = pend[q]
           /\ m \notin Unpublished(q)
      /\ pc[p] = "commit" /\ pc'[p] \in {"idle", "commit"}
      /\ pc'[p] = "commit" => pnext'[p] = m + 1 /\ pend'[p] = pend[p]
      /\ \A q \in Producers : \A s \in Nat :
           /\ s \in Unpublished(q)' <=> s \in Unpublished(q) /\ s # m
           /\ s \in Promised(q)' => s \in Promised(q)
  BY CommitFrame, Zenon
<1>2. \A s \in Int : Live(s)' <=> Live(s)
  BY CommitStanding
<1>3. \A s \in Nat : Standing(s)' <=> Standing(s) \/ (s = m /\ Live(s))
  BY CommitStanding
<1> HIDE DEF m
<1>4. \A c \in Consumers : Busy(c)' = Busy(c) /\ Held(c)' = Held(c)
  BY <1>1 DEF Busy, Held
<1>5. \A q \in Producers : Unpublished(q)' \subseteq Nat /\ Promised(q)' \subseteq Nat
  <2>1. SenderTypes' /\ toBeClaimedSeq' \in Nat
    BY <1>1, TypeSend DEF SendStep, TypeOK
  <2>2. \A q \in Producers : pnext'[q] \in Nat /\ pend'[q] \in Nat /\ scan'[q] \in Nat
    BY <2>1 DEF SenderTypes
  <2> QED BY <2>2 DEF Unpublished, Promised
<1>6. \A i \in Slots : slotSeq'[i] = m \/ slotSeq'[i] = slotSeq[i]
  BY <1>1
<1>7. m # FREE
  BY <1>1 DEF FREE
<1>8. ResetInv'
  BY <1>1 DEF CoreInv, ResetInv, Resetting
<1>9. HeaderInv'
  <2> SUFFICES ASSUME NEW i \in Slots, slotSeq'[i] # FREE
               PROVE  /\ Idx(slotSeq'[i]) = i
                      /\ slotSeq'[i] < toBeClaimedSeq
                      /\ \A q \in Producers : slotSeq'[i] \notin Unpublished(q)'
    BY <1>1 DEF HeaderInv
  <2>1. CASE i = Idx(m)
    BY <1>1, <2>1
  <2>2. CASE i # Idx(m)
    <3>1. slotSeq'[i] = slotSeq[i] /\ slotSeq[i] \in Nat
      BY <1>1, <2>2 DEF TypeOK, RingTypes
    <3> QED BY <1>1, <3>1 DEF CoreInv, HeaderInv
  <2> QED BY <2>1, <2>2
<1>10. StandInv'
  <2>1. \A q \in Producers : \A s, t \in Unpublished(q)' : Live(s)' => Live(t)'
    BY <1>1, <1>2, <1>5 DEF CoreInv, StandInv
  <2>2. ASSUME NEW q \in Producers, pc'[q] \in {"ready", "tryReady", "cas"} \cup Writing
        PROVE  HasRoom(q)'
    <3>1. HasRoom(q) /\ pend'[q] = pend[q]
      BY <1>1, <2>2 DEF CoreInv, StandInv, Writing
    <3> QED BY <1>1, <3>1 DEF HasRoom
  <2>3. HasRoom(p)
    BY <1>1 DEF CoreInv, StandInv, Writing
  <2>4. ASSUME NEW s \in 0 .. MaxSeq - 1, Standing(s)'
        PROVE  s < readSeq + CAPACITY /\ slotSeq'[Idx(s)] # FREE
    <3>1. CASE Standing(s)
      BY <1>6, <1>7, <3>1, IdxType DEF CoreInv, StandInv
    <3>2. CASE s = m
      BY <1>1, <1>7, <2>3, <3>2, IdxType DEF HasRoom
    <3> QED BY <1>3, <2>4, <3>1, <3>2
  <2> QED BY <1>1, <2>1, <2>2, <2>4 DEF StandInv
<1>11. BusyInv'
  <2> SUFFICES ASSUME NEW c \in Consumers, NEW t \in Busy(c)
               PROVE  /\ t < readSeq
                      /\ slotSeq'[Idx(t)] # FREE
                      /\ \A d \in Consumers : \A u \in Busy(d) : (c = d /\ t = u) \/ Idx(u) # Idx(t)
                      /\ \A s \in 0 .. MaxSeq - 1 : Standing(s)' => Idx(s) # Idx(t)
                      /\ \A q \in Producers : \A s \in Promised(q)' : Live(s)' => Idx(s) # Idx(t)
    BY <1>1, <1>4 DEF BusyInv
  <2>1. slotSeq'[Idx(t)] # FREE
    BY <1>6, <1>7, IdxType, RangeTypes DEF CoreInv, BusyInv
  <2>2. ASSUME NEW s \in 0 .. MaxSeq - 1, Standing(s)' PROVE Idx(s) # Idx(t)
    <3>1. CASE Standing(s)
      BY <3>1 DEF CoreInv, BusyInv
    <3>2. CASE s = m /\ Live(s)
      BY <1>1, <3>2 DEF CoreInv, BusyInv
    <3> QED BY <1>3, <2>2, <3>1, <3>2
  <2>3. ASSUME NEW q \in Producers, NEW s \in Promised(q)', Live(s)' PROVE Idx(s) # Idx(t)
    <3>1. s \in Promised(q) /\ s \in Nat
      BY <1>1, <1>5, <2>3
    <3>2. Live(s)
      BY <1>2, <2>3, <3>1
    <3> QED BY <3>1, <3>2 DEF CoreInv, BusyInv
  <2> QED BY <2>1, <2>2, <2>3 DEF CoreInv, BusyInv
<1>12. RangeInv'
  <2>1. \A c \in Consumers : \A t \in cbegin[c] .. cend[c] - 1 : Standing(t) => Standing(t)'
    BY <1>3
  <2> QED BY <1>1, <2>1 DEF CoreInv, RangeInv
<1>13. DataInv'
  <2>1. \A s : (Unwritten(s)' <=> Unwritten(s)) /\ (Unspent(s)' <=> Unspent(s))
    BY <1>1 DEF Unwritten, Unspent
  <2>2. ASSUME NEW s \in 0 .. MaxSeq - 1, Standing(s)' PROVE Unspent(slotData[Idx(s)])
    <3>1. CASE Standing(s)
      BY <3>1 DEF CoreInv, DataInv
    <3>2. CASE s = m /\ Live(s)
      BY <1>1, <3>2 DEF CoreInv, DataInv
    <3> QED BY <1>3, <2>2, <3>1, <3>2
  <2>3. ASSUME NEW q \in Producers, NEW s \in Unpublished(q)'
        PROVE  /\ pc'[q] # "commit" => Unwritten(s)
               /\ pc'[q] = "commit" /\ Live(s)' => Unspent(slotData[Idx(s)])
    <3>1. s \in Unpublished(q) /\ s \in Nat
      BY <1>1, <1>5, <2>3
    <3>2. pc'[q] = pc[q]
      <4>1. CASE q = p
        <5>1. pc'[p] = "commit"
          BY <1>1, <2>3, <4>1 DEF Unpublished, Waiting, Writing
        <5> QED BY <1>1, <4>1, <5>1
      <4>2. CASE q # p
        BY <1>1, <4>2
      <4> QED BY <4>1, <4>2
    <3> QED BY <1>2, <3>1, <3>2 DEF CoreInv, DataInv
  <2> QED BY <1>1, <1>4, <2>1, <2>2, <2>3 DEF CoreInv, DataInv
<1> QED BY <1>8, <1>9, <1>10, <1>11, <1>12, <1>13 DEF CoreInv

\* Publishing keeps what holds while no client has thrown.
LEMMA CommitWhole ==
  ASSUME TypeOK, ClaimInv, CoreInv, WholeInv, thrown = "never", NEW p \in Producers, Commit(p)
  PROVE  WholeInv'
<1> DEFINE m == pnext[p]
<1> USE ElementTypes, Consts
<1>1. /\ UNCHANGED <<toBeClaimedSeq, readSeq, slotData, cpc, cmode, cbegin, cend, cpos, cmsg,
                     times, thrown>>
      /\ \A i \in Slots : slotSeq'[i] = IF i = Idx(m) THEN m ELSE slotSeq[i]
      /\ m \in Promised(p) /\ m \in Nat /\ m < pend[p]
      /\ \A q \in Producers \ {p} : pc'[q] = pc[q] /\ pnext'[q] = pnext[q] /\ pend'[q] = pend[q]
      /\ pc[p] = "commit" /\ pc'[p] \in {"idle", "commit"}
      /\ pc'[p] = "commit" => pnext'[p] = m + 1 /\ pend'[p] = pend[p]
  BY CommitFrame, Zenon
<1>2. \A s \in Nat : Standing(s)' <=> Standing(s) \/ (s = m /\ Live(s))
  BY CommitStanding
<1>3. \A s \in m .. pend[p] - 1 : slotData[Idx(s)] = s
  BY <1>1 DEF WholeInv, Claimed, Writing
<1> HIDE DEF m
<1>4. \A c \in Consumers : Held(c)' = Held(c)
  BY <1>1 DEF Held
<1>5. HasRoom(p)
  BY <1>1 DEF CoreInv, StandInv, Writing
<1>6. ASSUME NEW q \in Producers, Claimed(q)'
      PROVE  /\ readSeq <= pnext'[q]
             /\ pc'[q] = "commit" => \A s \in pnext'[q] .. pend'[q] - 1 : slotData[Idx(s)] = s
  <2>1. CASE q = p
    <3>1. pc'[p] = "commit"
      BY <1>1, <1>6, <2>1 DEF Claimed, Waiting, Writing
    <3>2. readSeq <= m
      BY <1>1 DEF WholeInv, Claimed, Writing, m
    <3> QED BY <1>1, <1>3, <2>1, <3>1, <3>2
  <2>2. CASE q # p
    <3>1. Claimed(q)
      BY <1>1, <1>6, <2>2 DEF Claimed
    <3> QED BY <1>1, <2>2, <3>1 DEF WholeInv
  <2> QED BY <2>1, <2>2
<1>7. ASSUME NEW s \in 0 .. MaxSeq - 1
      PROVE  /\ Standing(s)' => slotSeq'[Idx(s)] = s /\ slotData[Idx(s)] = s
             /\ s < readSeq => times[s] > 0 \/ \E c \in Consumers : s \in Held(c)
  <2>1. CASE Standing(s)
    <3>1. Idx(s) # Idx(m)
      BY <1>1, <1>5, <2>1, PromisedApart
    <3>2. slotSeq[Idx(s)] = s /\ slotData[Idx(s)] = s
      BY <2>1 DEF WholeInv
    <3> QED BY <1>1, <3>1, <3>2, IdxType DEF WholeInv
  <2>2. CASE s = m
    BY <1>1, <1>3, <2>2, IdxType DEF WholeInv
  <2> QED BY <1>2, <2>1, <2>2 DEF WholeInv
<1>8. ASSUME NEW c \in Consumers
      PROVE  /\ \A s \in Held(c) : slotSeq'[Idx(s)] = s /\ slotData[Idx(s)] = s
             /\ cpc[c] = "cas" /\ cmode[c] # "peek" /\ cbegin[c] = readSeq => cmsg[c] = cbegin[c]
  <2>1. ASSUME NEW s \in Held(c) PROVE slotSeq'[Idx(s)] = s /\ slotData[Idx(s)] = s
    <3>1. Idx(s) # Idx(m) /\ s \in Nat
      BY <1>1, <1>5, PromisedApart, HeldBusy, RangeTypes
    <3>2. slotSeq[Idx(s)] = s /\ slotData[Idx(s)] = s
      BY DEF WholeInv
    <3> QED BY <1>1, <3>1, <3>2, IdxType
  <2> QED BY <2>1 DEF WholeInv
<1> QED BY <1>1, <1>4, <1>6, <1>7, <1>8 DEF WholeInv

-----------------------------------------------------------------------------
\* The steps in which a consumer changes nothing but its own position.
Looking(c) ==
  \/ \E mode \in ReadModes : Read(c, mode)
  \/ PeekNext(c) \/ PeekEnd(c) \/ CopyOut(c) \/ TakeNothing(c) \/ GrabFailed(c)
  \/ Handled(c) \/ Wasted(c) \/ Start(c)

\* A consumer that is not off is alone with the ring only if nobody resets it.
LEMMA NobodyResets ==
  ASSUME TypeOK, CoreInv, NEW c \in Consumers, ~Resetting(c), cpc[c] # "off"
  PROVE  \A d \in Consumers : ~Resetting(d)
BY DEF CoreInv, ResetInv

\* What these steps leave alone.
LEMMA LookFrame ==
  ASSUME TypeOK, CoreInv, NEW c \in Consumers, Looking(c), thrown' # "among"
  PROVE  /\ UNCHANGED <<toBeClaimedSeq, readSeq, slotSeq, slotData, pc, pnext, pend, scan, times,
                        thrown>>
         /\ \A d \in Consumers \ {c} :
              /\ cpc'[d] = cpc[d] /\ cmode'[d] = cmode[d] /\ cbegin'[d] = cbegin[d]
              /\ cend'[d] = cend[d] /\ cpos'[d] = cpos[d] /\ cmsg'[d] = cmsg[d]
         /\ \A d \in Consumers : ~Resetting(d) /\ ~Resetting(d)'
         /\ \A d \in Consumers : \A t \in Int :
              (t \in Busy(d)' <=> t \in Busy(d)) /\ (t \in Held(d)' <=> t \in Held(d))
         /\ cmsg'[c] \in {cmsg[c], NONE} \cup {slotData[i] : i \in Slots}
<1> USE ElementTypes, Consts DEF Looking
<1>0. ReaderTypes
  BY DEF TypeOK
<1>1. UNCHANGED <<toBeClaimedSeq, readSeq, slotSeq, slotData, pc, pnext, pend, scan, times>>
  BY DEF Read, LoadCursor, PeekNext, PeekEnd, CopyOut, TakeNothing, GrabFailed, Handled, Wasted,
         Start, sendVars
<1>2. ASSUME NEW d \in Consumers \ {c}
      PROVE  /\ cpc'[d] = cpc[d] /\ cmode'[d] = cmode[d] /\ cbegin'[d] = cbegin[d]
             /\ cend'[d] = cend[d] /\ cpos'[d] = cpos[d] /\ cmsg'[d] = cmsg[d]
  <2> USE <1>0 DEF ReaderTypes
  <2>1. ASSUME NEW mode \in ReadModes, Read(c, mode)
        PROVE  /\ cpc'[d] = cpc[d] /\ cmode'[d] = cmode[d] /\ cbegin'[d] = cbegin[d]
               /\ cend'[d] = cend[d] /\ cpos'[d] = cpos[d] /\ cmsg'[d] = cmsg[d]
    BY <2>1 DEF Read, LoadCursor
  <2>2. CASE PeekNext(c) \/ PeekEnd(c) \/ CopyOut(c)
    BY <2>2 DEF PeekNext, PeekEnd, CopyOut
  <2>3. CASE TakeNothing(c) \/ Wasted(c)
    BY <2>3 DEF TakeNothing, Wasted, Forget
  <2>4. CASE GrabFailed(c)
    BY <2>4 DEF GrabFailed, LoadCursor
  <2>5. CASE Handled(c) \/ Start(c)
    BY <2>5 DEF Handled, Start
  <2> QED BY <2>1, <2>2, <2>3, <2>4, <2>5
<1>3. /\ ~Resetting(c) /\ ~Resetting(c)'
      /\ \A t \in Int : (t \in Busy(c)' <=> t \in Busy(c)) /\ (t \in Held(c)' <=> t \in Held(c))
      /\ cmsg'[c] \in {cmsg[c], NONE} \cup {slotData[i] : i \in Slots}
  <2> USE <1>0 DEF ReaderTypes, Resetting, Busy, Held
  <2>1. ASSUME NEW mode \in ReadModes, Read(c, mode)
        PROVE  /\ cpc[c] = "idle" /\ cpc'[c] = "look" /\ cmsg'[c] = cmsg[c]
    BY <2>1 DEF Read, LoadCursor
  <2>2. CASE PeekNext(c) \/ PeekEnd(c)
    BY <2>2 DEF PeekNext, PeekEnd
  <2>3. CASE CopyOut(c)
    BY <2>3, IdxType DEF CopyOut
  <2>4. CASE TakeNothing(c)
    BY <2>4 DEF TakeNothing, Forget
  <2>5. CASE Wasted(c)
    BY <2>5 DEF Wasted, Forget
  <2>6. CASE GrabFailed(c)
    BY <2>6 DEF GrabFailed, LoadCursor
  <2>7. CASE Handled(c)
    BY <2>7 DEF Handled
  <2>8. CASE Start(c)
    BY <2>8 DEF Start
  <2>9. CASE \E mode \in ReadModes : Read(c, mode)
    BY <2>1, <2>9
  <2> QED BY <2>2, <2>3, <2>4, <2>5, <2>6, <2>7, <2>8, <2>9
<1>4. \A d \in Consumers \ {c} : Busy(d)' = Busy(d) /\ Held(d)' = Held(d)
  BY <1>2 DEF Busy, Held
<1>5. thrown' = thrown /\ \A d \in Consumers : ~Resetting(d)
  <2>1. CASE Start(c)
    BY <2>1 DEF Start, Resetting
  <2>2. CASE ~Start(c)
    <3>1. cpc[c] # "off" /\ thrown' = thrown
      BY <2>2 DEF Read, PeekNext, PeekEnd, CopyOut, TakeNothing, GrabFailed, Handled, Wasted,
                  LoadCursor
    <3> QED BY <1>3, <3>1, NobodyResets
  <2> QED BY <2>1, <2>2
<1>6. \A d \in Consumers : ~Resetting(d)'
  BY <1>2, <1>3, <1>5 DEF Resetting
<1> QED BY <1>1, <1>2, <1>3, <1>4, <1>5, <1>6

\* A message that a consumer finds while the cursor is where it read it stands.
LEMMA FoundStands ==
  ASSUME TypeOK, CoreInv, NEW c \in Consumers, cpc[c] = "look", Found(c), cbegin[c] = readSeq
  PROVE  cend[c] \in 0 .. MaxSeq - 1 /\ Standing(cend[c])
<1> USE ElementTypes
<1>1. cend[c] \in Nat /\ Idx(cend[c]) \in Slots /\ cend[c] # FREE
  BY IdxType DEF FREE
<1>2. cend[c] < toBeClaimedSeq /\ \A p \in Producers : cend[c] \notin Unpublished(p)
  BY <1>1 DEF CoreInv, HeaderInv, Found
<1>3. readSeq <= cend[c]
  BY DEF CoreInv, RangeInv
<1>4. \A d \in Consumers : ~Resetting(d)
  BY NobodyResets DEF Resetting
<1> QED BY <1>1, <1>2, <1>3, <1>4, FoundType, Consts DEF Standing, Live, Resetting

\* What a consumer found on its way is as RangeInv and DataInv have it.
LEMMA LookOwn ==
  ASSUME TypeOK, CoreInv, NEW c \in Consumers, Looking(c), thrown' # "among"
  PROVE  /\ cpc'[c] \in {"look", "cas"} =>
              /\ cmode'[c] \in ReadModes
              /\ cbegin'[c] <= readSeq /\ cbegin'[c] <= cend'[c]
              /\ cbegin'[c] = readSeq => \A t \in cbegin'[c] .. cend'[c] - 1 : Standing(t)
              /\ cpc'[c] = "look" /\ cmode'[c] # "peek" => cend'[c] = cbegin'[c]
              /\ cpc'[c] = "cas" /\ cmode'[c] # "peek" => cend'[c] = cbegin'[c] + 1
         /\ cpc'[c] \in {"handle", "waste"} => cbegin'[c] <= cpos'[c] /\ cpos'[c] <= cend'[c]
         /\ cpc'[c] = "cas" /\ cmode'[c] # "peek" /\ cbegin'[c] = readSeq =>
              /\ Standing(cbegin'[c]) /\ cbegin'[c] \in 0 .. MaxSeq - 1
              /\ cmsg'[c] = slotData[Idx(cbegin'[c])]
<1> USE ElementTypes
<1>0. ReaderTypes
  BY DEF TypeOK
<1>1. RangeInv
  BY DEF CoreInv
<1>2. ASSUME NEW mode \in ReadModes, Read(c, mode)
      PROVE  cpc'[c] = "look" /\ cmode'[c] \in ReadModes /\ cbegin'[c] = readSeq
             /\ cend'[c] = readSeq
  BY <1>0, <1>2 DEF Read, LoadCursor, ReaderTypes
<1>3. CASE \E mode \in ReadModes : Read(c, mode)
  BY <1>2, <1>3
<1>4. CASE GrabFailed(c)
  <2>1. cpc'[c] = "look" /\ cmode'[c] = cmode[c] /\ cbegin'[c] = readSeq /\ cend'[c] = readSeq
        /\ cpc[c] = "cas"
    BY <1>0, <1>4 DEF GrabFailed, LoadCursor, ReaderTypes
  <2>2. cmode[c] \in ReadModes
    BY <1>1, <2>1 DEF RangeInv
  <2> QED BY <2>1, <2>2
<1>5. CASE PeekNext(c)
  <2>1. /\ cpc'[c] = cpc[c] /\ cmode'[c] = cmode[c] /\ cbegin'[c] = cbegin[c]
        /\ cend'[c] = cend[c] + 1 /\ cpc[c] = "look" /\ cmode[c] = "peek" /\ Found(c)
    BY <1>0, <1>5 DEF PeekNext, PeekMore, ReaderTypes
  <2>2. /\ cmode[c] \in ReadModes /\ cbegin[c] <= readSeq /\ cbegin[c] <= cend[c]
        /\ cbegin[c] = readSeq => \A t \in cbegin[c] .. cend[c] - 1 : Standing(t)
    BY <1>1, <2>1 DEF RangeInv
  <2>3. cbegin[c] = readSeq => Standing(cend[c])
    BY <2>1, FoundStands
  <2> QED BY <2>1, <2>2, <2>3
<1>6. CASE PeekEnd(c)
  <2>1. /\ cpc'[c] = "cas" /\ cmode'[c] = cmode[c] /\ cbegin'[c] = cbegin[c]
        /\ cend'[c] = cend[c] /\ cpc[c] = "look" /\ cmode[c] = "peek"
    BY <1>0, <1>6 DEF PeekEnd, ReaderTypes
  <2> QED BY <1>1, <2>1 DEF RangeInv
<1>7. CASE CopyOut(c)
  <2>1. /\ cpc'[c] = "cas" /\ cmode'[c] = cmode[c] /\ cbegin'[c] = cbegin[c]
        /\ cend'[c] = cend[c] + 1 /\ cpc[c] = "look" /\ cmode[c] # "peek" /\ Found(c)
        /\ cmsg'[c] = slotData[Idx(cend[c])]
    BY <1>0, <1>7 DEF CopyOut, ReaderTypes
  <2>2. cmode[c] \in ReadModes /\ cbegin[c] <= readSeq /\ cend[c] = cbegin[c]
    BY <1>1, <2>1 DEF RangeInv
  <2>3. cbegin[c] = readSeq => Standing(cend[c]) /\ cend[c] \in 0 .. MaxSeq - 1
    BY <2>1, FoundStands
  <2>4. cbegin[c] = readSeq => \A t \in cbegin[c] .. cend'[c] - 1 : Standing(t)
    <3>1. \A t \in cbegin[c] .. cend'[c] - 1 : t = cend[c]
      BY <2>1, <2>2
    <3> QED BY <2>3, <3>1
  <2> QED BY <2>1, <2>2, <2>3, <2>4
<1>8. CASE TakeNothing(c) \/ Wasted(c) \/ Start(c)
  <2>1. cpc'[c] = "idle"
    BY <1>0, <1>8 DEF TakeNothing, Wasted, Start, ReaderTypes
  <2> QED BY <2>1
<1>9. CASE Handled(c)
  <2>1. /\ cpc'[c] = "waste" /\ cbegin'[c] = cbegin[c] /\ cend'[c] = cend[c]
        /\ cpos'[c] = cbegin[c] /\ cpc[c] = "handle"
    BY <1>0, <1>9 DEF Handled, ReaderTypes
  <2> QED BY <1>1, <2>1 DEF RangeInv
<1> QED BY <1>3, <1>4, <1>5, <1>6, <1>7, <1>8, <1>9 DEF Looking

\* Looking keeps what holds while no ring is reset under running consumers.
LEMMA LookCore ==
  ASSUME TypeOK, ClaimInv, CoreInv, NEW c \in Consumers, Looking(c), thrown' # "among"
  PROVE  CoreInv'
<1> USE ElementTypes, Consts
<1>1. /\ UNCHANGED <<toBeClaimedSeq, readSeq, slotSeq, slotData, pc, pnext, pend, scan, times,
                     thrown>>
      /\ \A d \in Consumers \ {c} :
           /\ cpc'[d] = cpc[d] /\ cmode'[d] = cmode[d] /\ cbegin'[d] = cbegin[d]
           /\ cend'[d] = cend[d] /\ cpos'[d] = cpos[d] /\ cmsg'[d] = cmsg[d]
      /\ \A d \in Consumers : ~Resetting(d) /\ ~Resetting(d)'
      /\ \A d \in Consumers : \A t \in Int :
           (t \in Busy(d)' <=> t \in Busy(d)) /\ (t \in Held(d)' <=> t \in Held(d))
      /\ cmsg'[c] \in {cmsg[c], NONE} \cup {slotData[i] : i \in Slots}
  BY LookFrame, Zenon
<1>2. \A s \in Int : Live(s)' <=> Live(s)
  BY <1>1, LiveKept
<1>3. \A q \in Producers :
        /\ Unpublished(q)' = Unpublished(q) /\ Promised(q)' = Promised(q)
        /\ HasRoom(q)' <=> HasRoom(q)
  BY <1>1 DEF Unpublished, Promised, HasRoom
<1>4. \A s \in Int : Standing(s)' <=> Standing(s)
  BY <1>1, <1>2, <1>3, StandingKept
<1>5. \A d \in Consumers :
        /\ \A t \in Busy(d)' : t \in Busy(d) /\ t \in Int
        /\ \A t \in Held(d)' : t \in Held(d) /\ t \in Int
  <2>1. \A d \in Consumers : Busy(d)' \subseteq Int /\ Held(d)' \subseteq Int
    <3>1. TypeOK'
      BY TypeRead DEF Looking, ReadStep
    <3>2. \A d \in Consumers : cbegin'[d] \in Int /\ cend'[d] \in Int /\ cpos'[d] \in Int
      BY <3>1 DEF TypeOK, ReaderTypes
    <3> QED BY <3>2 DEF Busy, Held
  <2> QED BY <1>1, <2>1
<1>6. ResetInv'
  BY <1>1 DEF CoreInv, ResetInv
<1>7. HeaderInv'
  BY <1>1, <1>3 DEF CoreInv, HeaderInv
<1>8. StandInv'
  <2>1. \A q \in Producers : \A s, t \in Unpublished(q) : Live(s)' => Live(t)'
    BY <1>2, RangeTypes DEF CoreInv, StandInv
  <2>2. \A q \in Producers : pc[q] \in {"ready", "tryReady", "cas"} \cup Writing => HasRoom(q)
    BY DEF CoreInv, StandInv
  <2>3. \A s \in 0 .. MaxSeq - 1 : Standing(s)' => s < readSeq + CAPACITY /\ slotSeq[Idx(s)] # FREE
    BY <1>4 DEF CoreInv, StandInv
  <2> QED BY <1>1, <1>3, <2>1, <2>2, <2>3 DEF StandInv
<1>9. BusyInv'
  <2> SUFFICES ASSUME NEW d \in Consumers, NEW t \in Busy(d)'
               PROVE  /\ t < readSeq
                      /\ slotSeq[Idx(t)] # FREE
                      /\ \A e \in Consumers : \A u \in Busy(e)' : (d = e /\ t = u) \/ Idx(u) # Idx(t)
                      /\ \A s \in 0 .. MaxSeq - 1 : Standing(s)' => Idx(s) # Idx(t)
                      /\ \A q \in Producers : \A s \in Promised(q) : Live(s)' => Idx(s) # Idx(t)
    BY <1>1, <1>3 DEF BusyInv
  <2>1. t \in Busy(d)
    BY <1>5
  <2>2. \A s \in 0 .. MaxSeq - 1 : Standing(s)' => Idx(s) # Idx(t)
    BY <1>4, <2>1 DEF CoreInv, BusyInv
  <2>3. \A q \in Producers : \A s \in Promised(q) : Live(s)' => Idx(s) # Idx(t)
    BY <1>2, <2>1, RangeTypes DEF CoreInv, BusyInv
  <2> QED BY <1>5, <2>1, <2>2, <2>3 DEF CoreInv, BusyInv
<1>10. RangeInv'
  <2> SUFFICES ASSUME NEW d \in Consumers
               PROVE  /\ cpc'[d] \in {"look", "cas"} =>
                           /\ cmode'[d] \in ReadModes
                           /\ cbegin'[d] <= readSeq /\ cbegin'[d] <= cend'[d]
                           /\ cbegin'[d] = readSeq => \A t \in cbegin'[d] .. cend'[d] - 1 : Standing(t)'
                           /\ cpc'[d] = "look" /\ cmode'[d] # "peek" => cend'[d] = cbegin'[d]
                           /\ cpc'[d] = "cas" /\ cmode'[d] # "peek" => cend'[d] = cbegin'[d] + 1
                      /\ cpc'[d] \in {"handle", "waste"} =>
                           cbegin'[d] <= cpos'[d] /\ cpos'[d] <= cend'[d]
    BY <1>1 DEF RangeInv
  <2>1. CASE d = c
    BY <1>4, <2>1, LookOwn
  <2>2. CASE d # c
    BY <1>1, <1>4, <2>2 DEF CoreInv, RangeInv
  <2> QED BY <2>1, <2>2
<1>11. DataInv'
  <2>1. \A s \in Nat : Unwritten(s) => Unwritten(s)'
    <3>1. NONE \notin Nat
      BY DEF NONE
    <3> QED BY <1>1, <3>1 DEF Unwritten
  <2>2. \A m : Unspent(m)' <=> Unspent(m)
    BY <1>1 DEF Unspent
  <2>3. \A s \in 0 .. MaxSeq - 1 :
          /\ times[s] <= 1
          /\ toBeClaimedSeq <= s => Unwritten(s)'
          /\ Standing(s)' => Unspent(slotData[Idx(s)])
    BY <1>4, <2>1 DEF CoreInv, DataInv
  <2>4. \A q \in Producers : \A s \in Unpublished(q) :
          /\ pc[q] # "commit" => Unwritten(s)'
          /\ pc[q] = "commit" /\ Live(s)' => Unspent(slotData[Idx(s)])
    BY <1>2, <2>1, RangeTypes DEF CoreInv, DataInv
  <2>5. ASSUME NEW d \in Consumers
        PROVE  /\ \A s \in Held(d)' : Unspent(slotData[Idx(s)])
               /\ cpc'[d] = "cas" /\ cmode'[d] # "peek" /\ cbegin'[d] = readSeq =>
                    Unspent(cmsg'[d]) /\ (cmsg'[d] \in Nat => Idx(cmsg'[d]) = Idx(cbegin'[d]))
    <3>1. \A s \in Held(d)' : Unspent(slotData[Idx(s)])
      BY <1>5 DEF CoreInv, DataInv
    <3>2. CASE d = c
      <4>1. ASSUME cpc'[c] = "cas", cmode'[c] # "peek", cbegin'[c] = readSeq
            PROVE  Unspent(cmsg'[c]) /\ (cmsg'[c] \in Nat => Idx(cmsg'[c]) = Idx(cbegin'[c]))
        <5>1. /\ Standing(cbegin'[c]) /\ cbegin'[c] \in 0 .. MaxSeq - 1
              /\ cmsg'[c] = slotData[Idx(cbegin'[c])]
          BY <4>1, LookOwn
        <5>2. Idx(cbegin'[c]) \in Slots
          BY <5>1, IdxType
        <5> QED BY <5>1, <5>2 DEF CoreInv, DataInv
      <4> QED BY <3>1, <3>2, <4>1
    <3>3. CASE d # c
      BY <1>1, <3>1, <3>3 DEF CoreInv, DataInv
    <3> QED BY <3>2, <3>3
  <2>6. \A i \in Slots : slotData[i] \in Nat => Idx(slotData[i]) = i
    BY DEF CoreInv, DataInv
  <2> QED BY <1>1, <1>3, <2>2, <2>3, <2>4, <2>5, <2>6 DEF DataInv
<1> QED BY <1>6, <1>7, <1>8, <1>9, <1>10, <1>11 DEF CoreInv

\* Looking keeps what holds while no client has thrown.
LEMMA LookWhole ==
  ASSUME TypeOK, ClaimInv, CoreInv, WholeInv, NEW c \in Consumers, Looking(c), thrown' # "among"
  PROVE  WholeInv'
<1> USE ElementTypes, Consts
<1>1. /\ UNCHANGED <<toBeClaimedSeq, readSeq, slotSeq, slotData, pc, pnext, pend, scan, times,
                     thrown>>
      /\ \A d \in Consumers \ {c} :
           /\ cpc'[d] = cpc[d] /\ cmode'[d] = cmode[d] /\ cbegin'[d] = cbegin[d]
           /\ cend'[d] = cend[d] /\ cpos'[d] = cpos[d] /\ cmsg'[d] = cmsg[d]
      /\ \A d \in Consumers : ~Resetting(d) /\ ~Resetting(d)'
      /\ \A d \in Consumers : \A t \in Int : t \in Held(d)' <=> t \in Held(d)
  BY LookFrame, Zenon
<1>2. \A q \in Producers : Unpublished(q)' = Unpublished(q) /\ (Claimed(q)' <=> Claimed(q))
  BY <1>1 DEF Unpublished, Claimed
<1>3. \A s \in Int : Standing(s)' <=> Standing(s)
  BY <1>1, <1>2, LiveKept, StandingKept
<1>4. \A d \in Consumers : \A t \in Held(d)' : t \in Held(d)
  <2>1. TypeOK'
    BY TypeRead DEF Looking, ReadStep
  <2>2. \A d \in Consumers : cend'[d] \in Int /\ cpos'[d] \in Int
    BY <2>1 DEF TypeOK, ReaderTypes
  <2>3. \A d \in Consumers : Held(d)' \subseteq Int
    BY <2>2 DEF Held
  <2> QED BY <1>1, <2>3
<1>5. \A q \in Producers : Claimed(q)' =>
        /\ readSeq <= pnext[q]
        /\ pc[q] = "commit" => \A s \in pnext[q] .. pend[q] - 1 : slotData[Idx(s)] = s
  BY <1>2 DEF WholeInv
<1>6. ASSUME NEW s \in 0 .. MaxSeq - 1
      PROVE  /\ Standing(s)' => slotSeq[Idx(s)] = s /\ slotData[Idx(s)] = s
             /\ s < readSeq => times[s] > 0 \/ \E d \in Consumers : s \in Held(d)'
  BY <1>1, <1>3 DEF WholeInv
<1>7. ASSUME NEW d \in Consumers
      PROVE  /\ \A s \in Held(d)' : slotSeq[Idx(s)] = s /\ slotData[Idx(s)] = s
             /\ cpc'[d] = "cas" /\ cmode'[d] # "peek" /\ cbegin'[d] = readSeq =>
                  cmsg'[d] = cbegin'[d]
  <2>1. \A s \in Held(d)' : slotSeq[Idx(s)] = s /\ slotData[Idx(s)] = s
    BY <1>4 DEF WholeInv
  <2>2. CASE d = c
    <3>1. ASSUME cpc'[c] = "cas", cmode'[c] # "peek", cbegin'[c] = readSeq
          PROVE  cmsg'[c] = cbegin'[c]
      <4>1. /\ Standing(cbegin'[c]) /\ cbegin'[c] \in 0 .. MaxSeq - 1
            /\ cmsg'[c] = slotData[Idx(cbegin'[c])]
        BY <3>1, LookOwn
      <4> QED BY <4>1 DEF WholeInv
    <3> QED BY <2>1, <2>2, <3>1
  <2>3. CASE d # c
    BY <1>1, <2>1, <2>3 DEF WholeInv
  <2> QED BY <2>2, <2>3
<1> QED BY <1>1, <1>5, <1>6, <1>7 DEF WholeInv

-----------------------------------------------------------------------------
\* The messages that stand are in different slots ...
LEMMA StandApart ==
  ASSUME TypeOK, CoreInv, NEW s \in Nat, NEW t \in Nat, s # t, Standing(s), Standing(t)
  PROVE  Idx(s) # Idx(t)
<1>1. /\ s \in 0 .. MaxSeq - 1 /\ readSeq <= s
      /\ t \in 0 .. MaxSeq - 1 /\ readSeq <= t
  BY ElementTypes, Consts DEF Standing, Live
<1>2. s < readSeq + CAPACITY /\ t < readSeq + CAPACITY
  BY <1>1 DEF CoreInv, StandInv
<1> QED BY <1>1, <1>2, LapApart, ElementTypes

\* ... and not in one that was promised to a sender for a live number.
LEMMA StandPromised ==
  ASSUME TypeOK, ClaimInv, CoreInv, NEW t \in Nat, Standing(t),
         NEW p \in Producers, NEW s \in Promised(p), Live(s)
  PROVE  Idx(s) # Idx(t)
<1> USE ElementTypes, Consts
<1>1. /\ s \in Unpublished(p) \/ (pc[p] = "cas" /\ s = toBeClaimedSeq)
      /\ s < pend[p] /\ s \in Nat
  BY PromisedClaimed, RangeTypes
<1>2. s # t
  BY <1>1 DEF Standing
<1>3. pc[p] \in {"ready", "tryReady", "cas"} \cup Writing
  BY DEF Promised
<1>4. s < readSeq + CAPACITY /\ readSeq <= s
  BY <1>1, <1>3 DEF CoreInv, StandInv, HasRoom, Live
<1>5. t \in 0 .. MaxSeq - 1 /\ readSeq <= t
  BY DEF Standing, Live
<1>6. t < readSeq + CAPACITY
  BY <1>5 DEF CoreInv, StandInv
<1> QED BY <1>1, <1>2, <1>4, <1>5, <1>6, LapApart

\* A consumer that moves the cursor over its range makes it busy.
LEMMA GrabFrame ==
  ASSUME TypeOK, ClaimInv, CoreInv, NEW c \in Consumers, Grab(c)
  PROVE  /\ UNCHANGED <<toBeClaimedSeq, slotSeq, slotData, pc, pnext, pend, scan, cmode, cbegin,
                        cend, cmsg, thrown>>
         /\ cpc[c] = "cas" /\ readSeq = cbegin[c] /\ readSeq' = cend[c]
         /\ cpos'[c] = cbegin[c] /\ cbegin[c] <= cend[c] /\ cend[c] <= toBeClaimedSeq
         /\ \A t \in cbegin[c] .. cend[c] - 1 : Standing(t)
         /\ \A d \in Consumers \ {c} : cpc'[d] = cpc[d] /\ cpos'[d] = cpos[d]
         /\ \A d \in Consumers : ~Resetting(d) /\ ~Resetting(d)'
         /\ \/ cmode[c] = "peek" /\ cpc'[c] = "handle" /\ times' = times
            \/ /\ cmode[c] # "peek" /\ cpc'[c] = "waste" /\ cend[c] = cbegin[c] + 1
               /\ Given(cmsg[c])
<1> USE ElementTypes
<1>0. ReaderTypes
  BY DEF TypeOK
<1>1. /\ UNCHANGED <<toBeClaimedSeq, slotSeq, slotData, pc, pnext, pend, scan, cmode, cbegin,
                     cend, cmsg, thrown>>
      /\ cpc[c] = "cas" /\ readSeq = cbegin[c] /\ readSeq' = cend[c]
      /\ cpos'[c] = cbegin[c]
      /\ \A d \in Consumers \ {c} : cpc'[d] = cpc[d] /\ cpos'[d] = cpos[d]
      /\ \/ cmode[c] = "peek" /\ cpc'[c] = "handle" /\ times' = times
         \/ cmode[c] # "peek" /\ cpc'[c] = "waste" /\ Given(cmsg[c])
  BY <1>0 DEF Grab, sendVars, ReaderTypes
<1>2. /\ cbegin[c] <= cend[c]
      /\ \A t \in cbegin[c] .. cend[c] - 1 : Standing(t)
      /\ cmode[c] # "peek" => cend[c] = cbegin[c] + 1
  BY <1>1 DEF CoreInv, RangeInv
<1>3. cend[c] <= toBeClaimedSeq
  <2>1. CASE cend[c] = cbegin[c]
    BY <1>1, <2>1 DEF CoreInv, ResetInv
  <2>2. CASE cbegin[c] < cend[c]
    <3>1. Standing(cend[c] - 1)
      BY <1>2, <2>2
    <3> QED BY <3>1 DEF Standing
  <2> QED BY <1>2, <2>1, <2>2
<1>4. \A d \in Consumers : ~Resetting(d)
  BY <1>1, NobodyResets DEF Resetting
<1>5. \A d \in Consumers : ~Resetting(d)'
  BY <1>1, <1>4 DEF Resetting
<1> QED BY <1>1, <1>2, <1>3, <1>4, <1>5

\* What stands after a grab is what stood before beyond the range.
LEMMA GrabStanding ==
  ASSUME TypeOK, ClaimInv, CoreInv, NEW c \in Consumers, Grab(c)
  PROVE  /\ \A s \in Int : Live(s)' <=> Live(s) /\ cend[c] <= s
         /\ \A s \in Int : Standing(s)' <=> Standing(s) /\ cend[c] <= s
         /\ \A q \in Producers : Unpublished(q)' = Unpublished(q) /\ Promised(q)' = Promised(q)
         /\ \A q \in Producers : \A t \in Unpublished(q) : Live(t) => Live(t)'
<1> USE ElementTypes
<1>1. /\ UNCHANGED <<toBeClaimedSeq, pc, pnext, pend, scan>>
      /\ readSeq = cbegin[c] /\ readSeq' = cend[c] /\ cbegin[c] <= cend[c]
      /\ \A t \in cbegin[c] .. cend[c] - 1 : Standing(t)
      /\ \A d \in Consumers : ~Resetting(d) /\ ~Resetting(d)'
  BY GrabFrame
<1>2. \A s \in Int : (Live(s) <=> readSeq <= s) /\ (Live(s)' <=> readSeq' <= s)
  BY <1>1 DEF Live, Resetting
<1>3. \A s \in Int : Live(s)' <=> Live(s) /\ cend[c] <= s
  BY <1>1, <1>2
<1>4. \A q \in Producers : Unpublished(q)' = Unpublished(q) /\ Promised(q)' = Promised(q)
  BY <1>1 DEF Unpublished, Promised
<1>5. \A s \in Int : Standing(s)' <=> Standing(s) /\ cend[c] <= s
  BY <1>1, <1>3, <1>4 DEF Standing
<1>6. ASSUME NEW q \in Producers, NEW t \in Unpublished(q), Live(t) PROVE Live(t)'
  <2>1. t \in Nat /\ readSeq <= t
    BY <1>2, <1>6, RangeTypes
  <2>2. ~Standing(t)
    BY DEF Standing
  <2>3. cend[c] <= t
    BY <1>1, <2>1, <2>2
  <2> QED BY <1>3, <1>6, <2>1, <2>3
<1> QED BY <1>3, <1>4, <1>5, <1>6

\* The ranges of the consumers after a grab.
LEMMA GrabBusy ==
  ASSUME TypeOK, ClaimInv, CoreInv, NEW c \in Consumers, Grab(c)
  PROVE  /\ \A d \in Consumers \ {c} : Busy(d)' = Busy(d) /\ Held(d)' = Held(d)
         /\ Busy(c)' = cbegin[c] .. cend[c] - 1 /\ Held(c) = {}
         /\ Held(c)' = IF cmode[c] = "peek" THEN cbegin[c] .. cend[c] - 1 ELSE {}
<1>1. /\ UNCHANGED <<cbegin, cend>> /\ cpc[c] = "cas" /\ cpos'[c] = cbegin[c]
      /\ \A d \in Consumers \ {c} : cpc'[d] = cpc[d] /\ cpos'[d] = cpos[d]
      /\ \/ cmode[c] = "peek" /\ cpc'[c] = "handle"
         \/ cmode[c] # "peek" /\ cpc'[c] = "waste"
  BY GrabFrame
<1>2. \A d \in Consumers \ {c} : Busy(d)' = Busy(d) /\ Held(d)' = Held(d)
  BY <1>1 DEF Busy, Held
<1> QED BY <1>1, <1>2 DEF Busy, Held

\* A client that is given a message counts for that message only.
LEMMA GivenEffect ==
  ASSUME TypeOK, NEW g, Given(g)
  PROVE  /\ DOMAIN times' = DOMAIN times
         /\ \A m \in 0 .. MaxSeq - 1 : times'[m] = IF m = g THEN times[m] + 1 ELSE times[m]
         /\ \A m : m # g /\ Unspent(m) => Unspent(m)'
         /\ Unspent(g) => \A m \in 0 .. MaxSeq - 1 : times[m] <= 1 => times'[m] <= 1
<1>1. times \in [0 .. MaxSeq - 1 -> Nat]
  BY DEF TypeOK, RingTypes
<1>2. DOMAIN times' = DOMAIN times
  BY <1>1 DEF Given
<1>3. \A m \in 0 .. MaxSeq - 1 : times'[m] = IF m = g THEN times[m] + 1 ELSE times[m]
  BY <1>1 DEF Given
<1>4. \A m : m # g /\ Unspent(m) => Unspent(m)'
  BY <1>1, <1>2, <1>3 DEF Unspent
<1>5. Unspent(g) => \A m \in 0 .. MaxSeq - 1 : times[m] <= 1 => times'[m] <= 1
  BY <1>1, <1>3 DEF Unspent
<1> QED BY <1>2, <1>3, <1>4, <1>5

\* Giving a message to a client while the slots stay as they are keeps DataInv for all
\* that does not lie in that message's slot.
LEMMA GivenKept ==
  ASSUME TypeOK, NEW g, Given(g), UNCHANGED <<slotData, cmsg>>, DataInv,
         g \in {slotData[i] : i \in Slots} \cup {cmsg[c] : c \in Consumers}
  PROVE  /\ \A s \in 0 .. MaxSeq - 1 : Unwritten(s) => Unwritten(s)'
         /\ \A i \in Slots : Unspent(slotData[i]) /\ (g \in Nat => Idx(g) # i)
              => Unspent(slotData[i])'
<1>1. \A s \in 0 .. MaxSeq - 1 : Unwritten(s) => Unwritten(s)'
  <2>1. \A s \in 0 .. MaxSeq - 1 : Unwritten(s) => s # g
    BY DEF Unwritten
  <2> QED BY <2>1, GivenEffect DEF Unwritten
<1>2. ASSUME NEW i \in Slots, Unspent(slotData[i]), g \in Nat => Idx(g) # i
      PROVE  Unspent(slotData[i])'
  <2>1. CASE slotData[i] # g
    BY <1>2, <2>1, GivenEffect
  <2>2. CASE slotData[i] = g
    <3>1. g \notin Nat
      BY <1>2, <2>2 DEF DataInv
    <3>2. DOMAIN times = 0 .. MaxSeq - 1 /\ DOMAIN times' = DOMAIN times
      BY GivenEffect DEF TypeOK, RingTypes
    <3> QED BY <2>2, <3>1, <3>2 DEF Unspent
  <2> QED BY <2>1, <2>2
<1> QED BY <1>1, <1>2

\* A grab keeps what holds while no ring is reset under running consumers.
LEMMA GrabCore ==
  ASSUME TypeOK, ClaimInv, CoreInv, NEW c \in Consumers, Grab(c)
  PROVE  CoreInv'
<1> DEFINE R == cbegin[c] .. cend[c] - 1
<1> USE ElementTypes, Consts
<1>1. /\ UNCHANGED <<toBeClaimedSeq, slotSeq, slotData, pc, pnext, pend, scan, cmode, cbegin,
                     cend, cmsg, thrown>>
      /\ cpc[c] = "cas" /\ readSeq = cbegin[c] /\ readSeq' = cend[c]
      /\ cpos'[c] = cbegin[c] /\ cbegin[c] <= cend[c] /\ cend[c] <= toBeClaimedSeq
      /\ \A t \in R : Standing(t)
      /\ \A d \in Consumers \ {c} : cpc'[d] = cpc[d] /\ cpos'[d] = cpos[d]
      /\ \A d \in Consumers : ~Resetting(d) /\ ~Resetting(d)'
      /\ \/ cmode[c] = "peek" /\ cpc'[c] = "handle" /\ times' = times
         \/ /\ cmode[c] # "peek" /\ cpc'[c] = "waste" /\ cend[c] = cbegin[c] + 1
            /\ Given(cmsg[c])
  BY GrabFrame, Zenon
<1>2. /\ \A s \in Int : Live(s)' <=> Live(s) /\ cend[c] <= s
      /\ \A s \in Int : Standing(s)' <=> Standing(s) /\ cend[c] <= s
      /\ \A q \in Producers : Unpublished(q)' = Unpublished(q) /\ Promised(q)' = Promised(q)
      /\ \A q \in Producers : \A t \in Unpublished(q) : Live(t) => Live(t)'
  BY GrabStanding, Zenon
<1>3. /\ \A d \in Consumers \ {c} : Busy(d)' = Busy(d) /\ Held(d)' = Held(d)
      /\ Busy(c)' = R /\ Held(c) = {}
      /\ Held(c)' = IF cmode[c] = "peek" THEN R ELSE {}
  BY GrabBusy, Zenon
<1>4. \A t \in R : t \in Nat /\ t < cend[c] /\ t \in 0 .. MaxSeq - 1
  OBVIOUS
<1> HIDE DEF R
<1>5. ResetInv'
  BY <1>1 DEF ResetInv
<1>6. HeaderInv'
  BY <1>1, <1>2 DEF CoreInv, HeaderInv
<1>7. StandInv'
  <2>1. ASSUME NEW q \in Producers, NEW s \in Unpublished(q), NEW t \in Unpublished(q), Live(s)'
        PROVE  Live(t)'
    <3>1. Live(s)
      BY <1>2, <2>1, RangeTypes
    <3> QED BY <1>2, <3>1 DEF CoreInv, StandInv
  <2>2. ASSUME NEW q \in Producers, pc[q] \in {"ready", "tryReady", "cas"} \cup Writing
        PROVE  HasRoom(q)'
    <3>1. HasRoom(q)
      BY <2>2 DEF CoreInv, StandInv
    <3> QED BY <1>1, <3>1 DEF HasRoom
  <2>3. \A s \in 0 .. MaxSeq - 1 : Standing(s)' =>
          s < readSeq' + CAPACITY /\ slotSeq[Idx(s)] # FREE
    BY <1>1, <1>2 DEF CoreInv, StandInv
  <2> QED BY <1>1, <1>2, <2>1, <2>2, <2>3 DEF StandInv
<1>8. BusyInv'
  <2> SUFFICES ASSUME NEW d \in Consumers, NEW t \in Busy(d)'
               PROVE  /\ t < readSeq'
                      /\ slotSeq[Idx(t)] # FREE
                      /\ \A e \in Consumers : \A u \in Busy(e)' : (d = e /\ t = u) \/ Idx(u) # Idx(t)
                      /\ \A s \in 0 .. MaxSeq - 1 : Standing(s)' => Idx(s) # Idx(t)
                      /\ \A q \in Producers : \A s \in Promised(q) : Live(s)' => Idx(s) # Idx(t)
    BY <1>1, <1>2 DEF BusyInv
  <2>1. CASE d # c
    <3>1. t \in Busy(d)
      BY <1>3, <2>1
    <3>2. t < readSeq /\ slotSeq[Idx(t)] # FREE /\ t \in Nat
      BY <3>1, RangeTypes DEF CoreInv, BusyInv
    <3>3. ASSUME NEW e \in Consumers, NEW u \in Busy(e)' PROVE (d = e /\ t = u) \/ Idx(u) # Idx(t)
      <4>1. CASE e = c
        BY <1>1, <1>3, <1>4, <3>1, <3>3, <4>1 DEF CoreInv, BusyInv
      <4>2. CASE e # c
        BY <1>3, <3>1, <3>3, <4>2 DEF CoreInv, BusyInv
      <4> QED BY <4>1, <4>2
    <3>4. \A s \in 0 .. MaxSeq - 1 : Standing(s)' => Idx(s) # Idx(t)
      BY <1>2, <3>1 DEF CoreInv, BusyInv
    <3>5. \A q \in Producers : \A s \in Promised(q) : Live(s)' => Idx(s) # Idx(t)
      BY <1>2, <3>1, RangeTypes DEF CoreInv, BusyInv
    <3> QED BY <1>1, <3>2, <3>3, <3>4, <3>5
  <2>2. CASE d = c
    <3>1. t \in R /\ Standing(t) /\ t \in 0 .. MaxSeq - 1 /\ t < cend[c]
      BY <1>1, <1>3, <1>4, <2>2
    <3>2. slotSeq[Idx(t)] # FREE
      BY <3>1 DEF CoreInv, StandInv
    <3>3. ASSUME NEW e \in Consumers, NEW u \in Busy(e)' PROVE (d = e /\ t = u) \/ Idx(u) # Idx(t)
      <4>1. CASE e = c
        BY <1>1, <1>3, <1>4, <2>2, <3>1, <3>3, <4>1, StandApart
      <4>2. CASE e # c
        BY <1>3, <3>1, <3>3, <4>2 DEF CoreInv, BusyInv
      <4> QED BY <4>1, <4>2
    <3>4. \A s \in 0 .. MaxSeq - 1 : Standing(s)' => Idx(s) # Idx(t)
      BY <1>2, <3>1, StandApart
    <3>5. ASSUME NEW q \in Producers, NEW s \in Promised(q), Live(s)' PROVE Idx(s) # Idx(t)
      BY <1>2, <3>1, <3>5, StandPromised, RangeTypes
    <3> QED BY <1>1, <3>1, <3>2, <3>3, <3>4, <3>5
  <2> QED BY <2>1, <2>2
<1>9. \A d \in Consumers \ {c} : cpc[d] \in {"look", "cas"} /\ cbegin[d] = readSeq' =>
        readSeq' = readSeq /\ cbegin[d] = readSeq
  BY <1>1 DEF CoreInv, RangeInv
<1>10. RangeInv'
  <2> SUFFICES ASSUME NEW d \in Consumers
               PROVE  /\ cpc'[d] \in {"look", "cas"} =>
                           /\ cmode[d] \in ReadModes
                           /\ cbegin[d] <= readSeq' /\ cbegin[d] <= cend[d]
                           /\ cbegin[d] = readSeq' => \A t \in cbegin[d] .. cend[d] - 1 : Standing(t)'
                           /\ cpc'[d] = "look" /\ cmode[d] # "peek" => cend[d] = cbegin[d]
                           /\ cpc'[d] = "cas" /\ cmode[d] # "peek" => cend[d] = cbegin[d] + 1
                      /\ cpc'[d] \in {"handle", "waste"} =>
                           cbegin[d] <= cpos'[d] /\ cpos'[d] <= cend[d]
    BY <1>1 DEF RangeInv
  <2>1. CASE d = c
    BY <1>1, <2>1
  <2>2. CASE d # c
    <3>1. ASSUME cpc[d] \in {"look", "cas"}, cbegin[d] = readSeq',
                 NEW t \in cbegin[d] .. cend[d] - 1
          PROVE  Standing(t)'
      <4>1. cbegin[d] = readSeq
        BY <1>9, <2>2, <3>1
      <4>2. Standing(t)
        BY <3>1, <4>1 DEF CoreInv, RangeInv
      <4>3. cend[c] <= t
        BY <1>1, <3>1
      <4> QED BY <1>2, <4>2, <4>3
    <3> QED BY <1>1, <2>2, <3>1 DEF CoreInv, RangeInv
  <2> QED BY <2>1, <2>2
<1>11. DataInv'
  <2>0. DataInv
    BY DEF CoreInv
  <2>1. CASE cmode[c] = "peek"
    <3>1. times' = times /\ Held(c)' = R /\ cpc'[c] = "handle"
      BY <1>1, <1>3, <2>1
    <3>2. \A m : (Unwritten(m)' <=> Unwritten(m)) /\ (Unspent(m)' <=> Unspent(m))
      BY <1>1, <3>1 DEF Unwritten, Unspent
    <3>3. \A s \in 0 .. MaxSeq - 1 :
            /\ times[s] <= 1
            /\ toBeClaimedSeq <= s => Unwritten(s)
            /\ Standing(s)' => Unspent(slotData[Idx(s)])
      BY <1>2, <2>0 DEF DataInv
    <3>4. \A q \in Producers : \A s \in Unpublished(q) :
            /\ pc[q] # "commit" => Unwritten(s)
            /\ pc[q] = "commit" /\ Live(s)' => Unspent(slotData[Idx(s)])
      BY <1>2, <2>0, RangeTypes DEF DataInv
    <3>5. ASSUME NEW d \in Consumers
          PROVE  /\ \A s \in Held(d)' : Unspent(slotData[Idx(s)])
                 /\ cpc'[d] = "cas" /\ cmode[d] # "peek" /\ cbegin[d] = readSeq' =>
                      Unspent(cmsg[d]) /\ (cmsg[d] \in Nat => Idx(cmsg[d]) = Idx(cbegin[d]))
      <4>1. CASE d = c
        BY <1>1, <1>4, <2>0, <3>1, <4>1 DEF DataInv
      <4>2. CASE d # c
        BY <1>1, <1>3, <1>9, <2>0, <4>2 DEF DataInv
      <4> QED BY <4>1, <4>2
    <3>6. \A i \in Slots : slotData[i] \in Nat => Idx(slotData[i]) = i
      BY <2>0 DEF DataInv
    <3> QED BY <1>1, <1>2, <3>1, <3>2, <3>3, <3>4, <3>5, <3>6 DEF DataInv
  <2>2. CASE cmode[c] # "peek"
    <3>1. Given(cmsg[c]) /\ Held(c)' = {} /\ cpc'[c] = "waste" /\ cend[c] = cbegin[c] + 1
      BY <1>1, <1>3, <2>2
    <3>2. Standing(cbegin[c]) /\ cbegin[c] \in 0 .. MaxSeq - 1
      BY <1>1, <1>4, <3>1 DEF R
    <3>3. Unspent(cmsg[c]) /\ (cmsg[c] \in Nat => Idx(cmsg[c]) = Idx(cbegin[c]))
      BY <1>1, <2>0, <2>2 DEF DataInv
    <3>4. /\ \A s \in 0 .. MaxSeq - 1 : Unwritten(s) => Unwritten(s)'
          /\ \A i \in Slots : Unspent(slotData[i]) /\ (cmsg[c] \in Nat => Idx(cmsg[c]) # i)
               => Unspent(slotData[i])'
      BY <1>1, <2>0, <3>1, GivenKept
    <3>5. \A s \in Nat : Idx(s) # Idx(cbegin[c]) /\ Unspent(slotData[Idx(s)])
            => Unspent(slotData[Idx(s)])'
      BY <3>3, <3>4, IdxType
    <3>6. ASSUME NEW s \in 0 .. MaxSeq - 1
          PROVE  /\ times'[s] <= 1
                 /\ toBeClaimedSeq <= s => Unwritten(s)'
                 /\ Standing(s)' => Unspent(slotData[Idx(s)])'
      <4>1. times'[s] <= 1
        BY <2>0, <3>1, <3>3, GivenEffect DEF DataInv
      <4>2. toBeClaimedSeq <= s => Unwritten(s)'
        BY <2>0, <3>4 DEF DataInv
      <4>3. ASSUME Standing(s)' PROVE Unspent(slotData[Idx(s)])'
        <5>1. Standing(s) /\ s # cbegin[c]
          BY <1>2, <3>1, <4>3
        <5>2. Idx(s) # Idx(cbegin[c])
          BY <3>2, <5>1, StandApart
        <5> QED BY <2>0, <3>5, <5>1, <5>2 DEF DataInv
      <4> QED BY <4>1, <4>2, <4>3
    <3>7. ASSUME NEW q \in Producers, NEW s \in Unpublished(q)
          PROVE  /\ pc[q] # "commit" => Unwritten(s)'
                 /\ pc[q] = "commit" /\ Live(s)' => Unspent(slotData[Idx(s)])'
      <4>0. s \in 0 .. MaxSeq - 1
        BY DEF Unpublished
      <4>1. pc[q] # "commit" => Unwritten(s)'
        BY <2>0, <3>4, <4>0 DEF DataInv
      <4>2. ASSUME pc[q] = "commit", Live(s)' PROVE Unspent(slotData[Idx(s)])'
        <5>1. Live(s) /\ s \in Promised(q)
          BY <1>2, <4>0, <4>2 DEF Promised, Unpublished, Waiting, Writing
        <5>2. Idx(s) # Idx(cbegin[c])
          BY <3>2, <5>1, StandPromised
        <5> QED BY <2>0, <3>5, <4>0, <4>2, <5>1, <5>2 DEF DataInv
      <4> QED BY <4>1, <4>2
    <3>8. ASSUME NEW d \in Consumers
          PROVE  /\ \A s \in Held(d)' : Unspent(slotData[Idx(s)])'
                 /\ cpc'[d] = "cas" /\ cmode[d] # "peek" /\ cbegin[d] = readSeq' =>
                      Unspent(cmsg[d])' /\ (cmsg[d] \in Nat => Idx(cmsg[d]) = Idx(cbegin[d]))
      <4>1. CASE d = c
        BY <3>1, <4>1
      <4>2. CASE d # c
        <5>1. ASSUME NEW s \in Held(d) PROVE Unspent(slotData[Idx(s)])'
          <6>1. s \in Busy(d) /\ s \in Nat
            BY HeldBusy, RangeTypes
          <6>2. Idx(s) # Idx(cbegin[c])
            BY <3>2, <6>1 DEF CoreInv, BusyInv
          <6> QED BY <2>0, <3>5, <6>1, <6>2 DEF DataInv
        <5>2. ~(cpc[d] = "cas" /\ cbegin[d] = readSeq')
          BY <1>1, <1>9, <3>1, <4>2
        <5> QED BY <1>1, <1>3, <4>2, <5>1, <5>2
      <4> QED BY <4>1, <4>2
    <3>9. \A i \in Slots : slotData[i] \in Nat => Idx(slotData[i]) = i
      BY <2>0 DEF DataInv
    <3> QED BY <1>1, <1>2, <3>6, <3>7, <3>8, <3>9 DEF DataInv
  <2> QED BY <2>1, <2>2
<1> QED BY <1>5, <1>6, <1>7, <1>8, <1>10, <1>11 DEF CoreInv

\* A grab keeps what holds while no client has thrown.
LEMMA GrabWhole ==
  ASSUME TypeOK, ClaimInv, CoreInv, WholeInv, thrown = "never", NEW c \in Consumers, Grab(c)
  PROVE  WholeInv'
<1> DEFINE R == cbegin[c] .. cend[c] - 1
<1> USE ElementTypes, Consts
<1>1. /\ UNCHANGED <<toBeClaimedSeq, slotSeq, slotData, pc, pnext, pend, scan, cmode, cbegin,
                     cend, cmsg, thrown>>
      /\ cpc[c] = "cas" /\ readSeq = cbegin[c] /\ readSeq' = cend[c]
      /\ cbegin[c] <= cend[c]
      /\ \A t \in R : Standing(t)
      /\ \A d \in Consumers \ {c} : cpc'[d] = cpc[d] /\ cpos'[d] = cpos[d]
      /\ \/ cmode[c] = "peek" /\ cpc'[c] = "handle" /\ times' = times
         \/ /\ cmode[c] # "peek" /\ cpc'[c] = "waste" /\ cend[c] = cbegin[c] + 1
            /\ Given(cmsg[c])
  BY GrabFrame, Zenon
<1>2. \A s \in Int : Standing(s)' <=> Standing(s) /\ cend[c] <= s
  BY GrabStanding, Zenon
<1>3. /\ \A d \in Consumers \ {c} : Held(d)' = Held(d)
      /\ Held(c) = {}
      /\ Held(c)' = IF cmode[c] = "peek" THEN R ELSE {}
  BY GrabBusy, Zenon
<1>4. \A t \in Nat : t \in R <=> readSeq <= t /\ t < readSeq'
  BY <1>1
<1>5. \A t \in R : t \in 0 .. MaxSeq - 1
  OBVIOUS
<1> HIDE DEF R
<1>6. ASSUME NEW q \in Producers, Claimed(q)
      PROVE  /\ readSeq' <= pnext[q]
             /\ pc[q] = "commit" => \A s \in pnext[q] .. pend[q] - 1 : slotData[Idx(s)] = s
  <2>1. /\ readSeq <= pnext[q]
        /\ pc[q] = "commit" => \A s \in pnext[q] .. pend[q] - 1 : slotData[Idx(s)] = s
    BY <1>6 DEF WholeInv
  <2>2. pnext[q] < pend[q]
    BY <1>6 DEF ClaimInv, Claimed, Waiting, Writing
  <2>3. pnext[q] \in Unpublished(q)
    BY <1>6, <2>2 DEF Unpublished, Claimed
  <2>4. ~Standing(pnext[q])
    BY <2>3 DEF Standing
  <2>5. readSeq' <= pnext[q]
    BY <1>1, <1>4, <2>1, <2>4
  <2> QED BY <2>1, <2>5
<1>7. ASSUME NEW s \in 0 .. MaxSeq - 1
      PROVE  /\ Standing(s)' => slotSeq[Idx(s)] = s /\ slotData[Idx(s)] = s
             /\ s < readSeq' => times'[s] > 0 \/ \E d \in Consumers : s \in Held(d)'
  <2>1. Standing(s)' => slotSeq[Idx(s)] = s /\ slotData[Idx(s)] = s
    BY <1>2 DEF WholeInv
  <2>2. times[s] > 0 => times'[s] > 0
    BY <1>1, GivenEffect DEF TypeOK, RingTypes
  <2>3. CASE s < readSeq
    <3>1. times[s] > 0 \/ \E d \in Consumers : s \in Held(d)
      BY <2>3 DEF WholeInv
    <3>2. \A d \in Consumers : s \in Held(d) => s \in Held(d)'
      BY <1>3
    <3> QED BY <2>1, <2>2, <3>1, <3>2
  <2>4. CASE s \in R /\ cmode[c] = "peek"
    BY <1>3, <2>1, <2>4
  <2>5. CASE s \in R /\ cmode[c] # "peek"
    <3>1. s = cbegin[c] /\ Given(cmsg[c])
      BY <1>1, <1>4, <2>5
    <3>2. cmsg[c] = s
      BY <1>1, <2>5, <3>1 DEF WholeInv
    <3>3. times'[s] > 0
      BY <3>1, <3>2, GivenEffect DEF TypeOK, RingTypes
    <3> QED BY <2>1, <3>3
  <2> QED BY <1>4, <2>1, <2>3, <2>4, <2>5
<1>8. ASSUME NEW d \in Consumers
      PROVE  /\ \A s \in Held(d)' : slotSeq[Idx(s)] = s /\ slotData[Idx(s)] = s
             /\ cpc'[d] = "cas" /\ cmode[d] # "peek" /\ cbegin[d] = readSeq' => cmsg[d] = cbegin[d]
  <2>1. CASE d = c
    <3>1. \A s \in R : slotSeq[Idx(s)] = s /\ slotData[Idx(s)] = s
      BY <1>1, <1>5 DEF WholeInv
    <3> QED BY <1>1, <1>3, <2>1, <3>1
  <2>2. CASE d # c
    <3>1. cpc[d] = "cas" /\ cbegin[d] = readSeq' => cbegin[d] = readSeq
      BY <1>1 DEF CoreInv, RangeInv
    <3> QED BY <1>1, <1>3, <2>2, <3>1 DEF WholeInv
  <2> QED BY <2>1, <2>2
<1>9. \A q \in Producers : Claimed(q)' <=> Claimed(q)
  BY <1>1 DEF Claimed
<1> QED BY <1>1, <1>6, <1>7, <1>8, <1>9 DEF WholeInv

-----------------------------------------------------------------------------
\* Handing a message to the client moves it from the held ones to the history.
LEMMA HandleFrame ==
  ASSUME TypeOK, CoreInv, NEW c \in Consumers, Handle(c)
  PROVE  /\ UNCHANGED <<toBeClaimedSeq, readSeq, slotSeq, slotData, pc, pnext, pend, scan, cpc,
                        cmode, cbegin, cend, cmsg, thrown>>
         /\ cpc[c] = "handle" /\ cpos[c] < cend[c] /\ cpos'[c] = cpos[c] + 1
         /\ \A d \in Consumers \ {c} : cpos'[d] = cpos[d]
         /\ Given(slotData[Idx(cpos[c])])
         /\ cpos[c] \in Held(c) /\ cpos[c] \in Busy(c)
         /\ \A d \in Consumers : Busy(d)' = Busy(d)
         /\ \A d \in Consumers \ {c} : Held(d)' = Held(d)
         /\ \A s \in Int : s \in Held(c)' <=> s \in Held(c) /\ s # cpos[c]
<1> USE ElementTypes
<1>0. ReaderTypes
  BY DEF TypeOK
<1>1. /\ UNCHANGED <<toBeClaimedSeq, readSeq, slotSeq, slotData, pc, pnext, pend, scan, cpc,
                     cmode, cbegin, cend, cmsg, thrown>>
      /\ cpc[c] = "handle" /\ cpos[c] < cend[c] /\ cpos'[c] = cpos[c] + 1
      /\ \A d \in Consumers \ {c} : cpos'[d] = cpos[d]
      /\ Given(slotData[Idx(cpos[c])])
  BY <1>0 DEF Handle, sendVars, ReaderTypes
<1>2. cpos[c] \in Held(c)
  BY <1>1 DEF Held
<1>3. \A d \in Consumers : Busy(d)' = Busy(d)
  BY <1>1 DEF Busy
<1>4. \A d \in Consumers \ {c} : Held(d)' = Held(d)
  BY <1>1 DEF Held
<1>5. \A s \in Int : s \in Held(c)' <=> s \in Held(c) /\ s # cpos[c]
  BY <1>1 DEF Held
<1> QED BY <1>1, <1>2, <1>3, <1>4, <1>5, HeldBusy

\* It keeps what holds while no ring is reset under running consumers.
LEMMA HandleCore ==
  ASSUME TypeOK, ClaimInv, CoreInv, NEW c \in Consumers, Handle(c)
  PROVE  CoreInv'
<1> DEFINE x == cpos[c]
           g == slotData[Idx(x)]
<1> USE ElementTypes, Consts
<1>1. /\ UNCHANGED <<toBeClaimedSeq, readSeq, slotSeq, slotData, pc, pnext, pend, scan, cpc,
                     cmode, cbegin, cend, cmsg, thrown>>
      /\ cpc[c] = "handle" /\ x < cend[c] /\ cpos'[c] = x + 1
      /\ \A d \in Consumers \ {c} : cpos'[d] = cpos[d]
      /\ Given(g)
      /\ x \in Held(c) /\ x \in Busy(c)
      /\ \A d \in Consumers : Busy(d)' = Busy(d)
      /\ \A d \in Consumers \ {c} : Held(d)' = Held(d)
      /\ \A s \in Int : s \in Held(c)' <=> s \in Held(c) /\ s # x
  BY HandleFrame, Zenon
<1>2. \A s \in Int : Live(s)' <=> Live(s)
  BY <1>1, LiveKept
<1>3. \A q \in Producers :
        /\ Unpublished(q)' = Unpublished(q) /\ Promised(q)' = Promised(q)
        /\ HasRoom(q)' <=> HasRoom(q)
  BY <1>1 DEF Unpublished, Promised, HasRoom
<1>4. \A s \in Int : Standing(s)' <=> Standing(s)
  BY <1>1, <1>2, <1>3, StandingKept
<1>5. x \in Nat /\ Idx(x) \in Slots
  BY <1>1, RangeTypes, IdxType
<1> HIDE DEF x
<1>6. ResetInv'
  BY <1>1 DEF CoreInv, ResetInv, Resetting
<1>7. HeaderInv'
  BY <1>1, <1>3 DEF CoreInv, HeaderInv
<1>8. StandInv'
  <2>1. \A q \in Producers : \A s, t \in Unpublished(q) : Live(s)' => Live(t)'
    BY <1>2, RangeTypes DEF CoreInv, StandInv
  <2>2. \A q \in Producers : pc[q] \in {"ready", "tryReady", "cas"} \cup Writing => HasRoom(q)
    BY DEF CoreInv, StandInv
  <2>3. \A s \in 0 .. MaxSeq - 1 : Standing(s)' => s < readSeq + CAPACITY /\ slotSeq[Idx(s)] # FREE
    BY <1>4 DEF CoreInv, StandInv
  <2> QED BY <1>1, <1>3, <2>1, <2>2, <2>3 DEF StandInv
<1>9. BusyInv'
  <2> SUFFICES ASSUME NEW d \in Consumers, NEW t \in Busy(d)
               PROVE  /\ t < readSeq
                      /\ slotSeq[Idx(t)] # FREE
                      /\ \A e \in Consumers : \A u \in Busy(e) : (d = e /\ t = u) \/ Idx(u) # Idx(t)
                      /\ \A s \in 0 .. MaxSeq - 1 : Standing(s)' => Idx(s) # Idx(t)
                      /\ \A q \in Producers : \A s \in Promised(q) : Live(s)' => Idx(s) # Idx(t)
    BY <1>1, <1>3 DEF BusyInv
  <2>1. \A s \in 0 .. MaxSeq - 1 : Standing(s)' => Idx(s) # Idx(t)
    BY <1>4 DEF CoreInv, BusyInv
  <2>2. \A q \in Producers : \A s \in Promised(q) : Live(s)' => Idx(s) # Idx(t)
    BY <1>2, RangeTypes DEF CoreInv, BusyInv
  <2> QED BY <2>1, <2>2 DEF CoreInv, BusyInv
<1>10. RangeInv'
  <2>1. \A d \in Consumers : \A t \in cbegin[d] .. cend[d] - 1 : Standing(t)' <=> Standing(t)
    BY <1>4
  <2>2. \A d \in Consumers : cpc[d] \in {"handle", "waste"} =>
          cbegin[d] <= cpos'[d] /\ cpos'[d] <= cend[d]
    BY <1>1 DEF CoreInv, RangeInv, x
  <2> QED BY <1>1, <2>1, <2>2 DEF CoreInv, RangeInv
<1>11. DataInv'
  <2>0. DataInv
    BY DEF CoreInv
  <2>1. Unspent(g) /\ (g \in Nat => Idx(g) = Idx(x))
    BY <1>1, <1>5, <2>0 DEF DataInv
  <2>2. /\ \A s \in 0 .. MaxSeq - 1 : Unwritten(s) => Unwritten(s)'
        /\ \A i \in Slots : Unspent(slotData[i]) /\ (g \in Nat => Idx(g) # i)
             => Unspent(slotData[i])'
    BY <1>1, <1>5, <2>0, GivenKept
  <2>3. \A s \in Nat : Idx(s) # Idx(x) /\ Unspent(slotData[Idx(s)]) => Unspent(slotData[Idx(s)])'
    BY <2>1, <2>2, IdxType
  <2>4. \A t \in 0 .. MaxSeq - 1 : Standing(t) => Idx(t) # Idx(x)
    BY <1>1 DEF CoreInv, BusyInv
  <2>5. ASSUME NEW s \in 0 .. MaxSeq - 1
        PROVE  /\ times'[s] <= 1
               /\ toBeClaimedSeq <= s => Unwritten(s)'
               /\ Standing(s)' => Unspent(slotData[Idx(s)])'
    <3>1. times'[s] <= 1
      BY <1>1, <2>0, <2>1, GivenEffect DEF DataInv
    <3>2. toBeClaimedSeq <= s => Unwritten(s)'
      BY <2>0, <2>2 DEF DataInv
    <3>3. Standing(s)' => Unspent(slotData[Idx(s)])'
      BY <1>4, <2>0, <2>3, <2>4 DEF DataInv
    <3> QED BY <3>1, <3>2, <3>3
  <2>6. ASSUME NEW q \in Producers, NEW s \in Unpublished(q)
        PROVE  /\ pc[q] # "commit" => Unwritten(s)'
               /\ pc[q] = "commit" /\ Live(s)' => Unspent(slotData[Idx(s)])'
    <3>0. s \in 0 .. MaxSeq - 1
      BY DEF Unpublished
    <3>1. pc[q] # "commit" => Unwritten(s)'
      BY <2>0, <2>2, <3>0 DEF DataInv
    <3>2. ASSUME pc[q] = "commit", Live(s)' PROVE Unspent(slotData[Idx(s)])'
      <4>1. Live(s) /\ s \in Promised(q)
        BY <1>2, <3>0, <3>2 DEF Promised, Unpublished, Waiting, Writing
      <4>2. Idx(s) # Idx(x)
        BY <1>1, <4>1 DEF CoreInv, BusyInv
      <4> QED BY <2>0, <2>3, <3>0, <3>2, <4>1, <4>2 DEF DataInv
    <3> QED BY <3>1, <3>2
  <2>7. ASSUME NEW d \in Consumers
        PROVE  /\ \A s \in Held(d)' : Unspent(slotData[Idx(s)])'
               /\ cpc[d] = "cas" /\ cmode[d] # "peek" /\ cbegin[d] = readSeq =>
                    Unspent(cmsg[d])' /\ (cmsg[d] \in Nat => Idx(cmsg[d]) = Idx(cbegin[d]))
    <3>1. ASSUME NEW s \in Held(d)' PROVE Unspent(slotData[Idx(s)])'
      <4>1. s \in Nat
        <5>1. TypeOK'
          BY TypeRead DEF ReadStep
        <5>2. cpos'[d] \in Nat /\ cend'[d] \in Nat
          BY <5>1, <1>1 DEF TypeOK, ReaderTypes
        <5> QED BY <3>1, <5>2 DEF Held
      <4>2. s \in Held(d) /\ (d = c => s # x)
        BY <1>1, <3>1, <4>1
      <4>3. s \in Busy(d)
        BY <4>2, HeldBusy
      <4>4. Idx(s) # Idx(x)
        BY <1>1, <4>2, <4>3 DEF CoreInv, BusyInv
      <4> QED BY <2>0, <2>3, <4>1, <4>2, <4>4 DEF DataInv
    <3>2. ASSUME cpc[d] = "cas", cmode[d] # "peek", cbegin[d] = readSeq
          PROVE  Unspent(cmsg[d])' /\ (cmsg[d] \in Nat => Idx(cmsg[d]) = Idx(cbegin[d]))
      <4>1. Unspent(cmsg[d]) /\ (cmsg[d] \in Nat => Idx(cmsg[d]) = Idx(cbegin[d]))
        BY <2>0, <3>2 DEF DataInv
      <4>2. Standing(cbegin[d])
        BY <3>2 DEF CoreInv, RangeInv
      <4>3. Idx(cbegin[d]) # Idx(x)
        BY <2>4, <4>2 DEF Standing
      <4>4. CASE cmsg[d] # g
        BY <1>1, <4>1, <4>4, GivenEffect
      <4>5. CASE cmsg[d] = g
        <5>1. g \notin Nat
          BY <2>1, <4>1, <4>3, <4>5
        <5>2. DOMAIN times = 0 .. MaxSeq - 1 /\ DOMAIN times' = DOMAIN times
          BY <1>1, GivenEffect DEF TypeOK, RingTypes
        <5> QED BY <1>1, <4>1, <4>5, <5>1, <5>2 DEF Unspent
      <4> QED BY <4>4, <4>5
    <3> QED BY <3>1, <3>2
  <2>8. \A i \in Slots : slotData[i] \in Nat => Idx(slotData[i]) = i
    BY <2>0 DEF DataInv
  <2> QED BY <1>1, <1>3, <2>5, <2>6, <2>7, <2>8 DEF DataInv
<1> QED BY <1>6, <1>7, <1>8, <1>9, <1>10, <1>11 DEF CoreInv

\* It keeps what holds while no client has thrown.
LEMMA HandleWhole ==
  ASSUME TypeOK, ClaimInv, CoreInv, WholeInv, NEW c \in Consumers, Handle(c)
  PROVE  WholeInv'
<1> DEFINE x == cpos[c]
<1> USE ElementTypes, Consts
<1>1. /\ UNCHANGED <<toBeClaimedSeq, readSeq, slotSeq, slotData, pc, pnext, pend, scan, cpc,
                     cmode, cbegin, cend, cmsg, thrown>>
      /\ Given(slotData[Idx(x)]) /\ x \in Held(c)
      /\ \A d \in Consumers \ {c} : Held(d)' = Held(d)
      /\ \A s \in Int : s \in Held(c)' <=> s \in Held(c) /\ s # x
  BY HandleFrame, Zenon
<1>2. \A q \in Producers : Unpublished(q)' = Unpublished(q) /\ (Claimed(q)' <=> Claimed(q))
  BY <1>1 DEF Unpublished, Claimed
<1>3. \A s \in Int : Standing(s)' <=> Standing(s)
  BY <1>1, <1>2, LiveKept, StandingKept
<1>4. slotData[Idx(x)] = x
  BY <1>1 DEF WholeInv
<1> HIDE DEF x
<1>5. ASSUME NEW s \in 0 .. MaxSeq - 1
      PROVE  /\ Standing(s)' => slotSeq[Idx(s)] = s /\ slotData[Idx(s)] = s
             /\ s < readSeq => times'[s] > 0 \/ \E d \in Consumers : s \in Held(d)'
  <2>1. times'[s] = (IF s = x THEN times[s] + 1 ELSE times[s]) /\ times[s] \in Nat
    BY <1>1, <1>4, GivenEffect DEF TypeOK, RingTypes
  <2>2. CASE s = x
    BY <1>3, <2>1, <2>2 DEF WholeInv
  <2>3. CASE s # x
    <3>1. \A d \in Consumers : s \in Held(d) => s \in Held(d)'
      BY <1>1, <2>3
    <3> QED BY <1>3, <2>1, <2>3, <3>1 DEF WholeInv
  <2> QED BY <2>2, <2>3
<1>6. \A d \in Consumers : \A s \in Held(d)' : s \in Held(d)
  <2>1. TypeOK'
    BY TypeRead DEF ReadStep
  <2>2. \A d \in Consumers : cpos'[d] \in Nat /\ cend'[d] \in Nat
    BY <2>1, <1>1 DEF TypeOK, ReaderTypes
  <2>3. \A d \in Consumers : Held(d)' \subseteq Int
    BY <2>2 DEF Held
  <2> QED BY <1>1, <2>3
<1>7. \A d \in Consumers :
        /\ \A s \in Held(d)' : slotSeq[Idx(s)] = s /\ slotData[Idx(s)] = s
        /\ cpc[d] = "cas" /\ cmode[d] # "peek" /\ cbegin[d] = readSeq => cmsg[d] = cbegin[d]
  BY <1>6 DEF WholeInv
<1> QED BY <1>1, <1>2, <1>5, <1>7 DEF WholeInv

-----------------------------------------------------------------------------
\* A consumer that gives a slot back is no longer busy with it.
LEMMA WasteFrame ==
  ASSUME TypeOK, CoreInv, NEW c \in Consumers, markAsToWriteOver(c)
  PROVE  /\ UNCHANGED <<toBeClaimedSeq, readSeq, slotData, pc, pnext, pend, scan, cpc, cmode,
                        cbegin, cend, cmsg, times, thrown>>
         /\ \A i \in Slots : slotSeq'[i] = IF i = Idx(cpos[c]) THEN FREE ELSE slotSeq[i]
         /\ cpc[c] = "waste" /\ cpos[c] < cend[c] /\ cpos'[c] = cpos[c] + 1
         /\ \A d \in Consumers \ {c} : cpos'[d] = cpos[d]
         /\ cpos[c] \in Busy(c)
         /\ \A d \in Consumers : Held(d)' = Held(d)
         /\ \A d \in Consumers \ {c} : Busy(d)' = Busy(d)
         /\ \A s \in Int : s \in Busy(c)' <=> s \in Busy(c) /\ s # cpos[c]
<1> USE ElementTypes
<1>0. ReaderTypes
  BY DEF TypeOK
<1>1. /\ UNCHANGED <<toBeClaimedSeq, readSeq, slotData, pc, pnext, pend, scan, cpc, cmode,
                     cbegin, cend, cmsg, times, thrown>>
      /\ cpc[c] = "waste" /\ cpos[c] < cend[c] /\ cpos'[c] = cpos[c] + 1
      /\ \A d \in Consumers \ {c} : cpos'[d] = cpos[d]
  BY <1>0 DEF markAsToWriteOver, sendVars, ReaderTypes
<1>2. \A i \in Slots : slotSeq'[i] = IF i = Idx(cpos[c]) THEN FREE ELSE slotSeq[i]
  BY DEF markAsToWriteOver, TypeOK, RingTypes
<1>3. cpos[c] \in Busy(c)
  BY <1>1 DEF Busy
<1>4. \A d \in Consumers \ {c} : Busy(d)' = Busy(d)
  BY <1>1 DEF Busy
<1>5. \A s \in Int : s \in Busy(c)' <=> s \in Busy(c) /\ s # cpos[c]
  BY <1>1 DEF Busy
<1>6. \A d \in Consumers : Held(d)' = Held(d)
  BY <1>1 DEF Held
<1> QED BY <1>1, <1>2, <1>3, <1>4, <1>5, <1>6

\* Giving a slot back keeps what holds while no ring is reset under running consumers.
LEMMA WasteCore ==
  ASSUME TypeOK, ClaimInv, CoreInv, NEW c \in Consumers, markAsToWriteOver(c)
  PROVE  CoreInv'
<1> DEFINE x == cpos[c]
<1> USE ElementTypes, Consts
<1>1. /\ UNCHANGED <<toBeClaimedSeq, readSeq, slotData, pc, pnext, pend, scan, cpc, cmode,
                     cbegin, cend, cmsg, times, thrown>>
      /\ \A i \in Slots : slotSeq'[i] = IF i = Idx(x) THEN FREE ELSE slotSeq[i]
      /\ cpc[c] = "waste" /\ x < cend[c] /\ cpos'[c] = x + 1
      /\ \A d \in Consumers \ {c} : cpos'[d] = cpos[d]
      /\ x \in Busy(c)
      /\ \A d \in Consumers : Held(d)' = Held(d)
      /\ \A d \in Consumers \ {c} : Busy(d)' = Busy(d)
      /\ \A s \in Int : s \in Busy(c)' <=> s \in Busy(c) /\ s # x
  BY WasteFrame, Zenon
<1>2. \A s \in Int : Live(s)' <=> Live(s)
  BY <1>1, LiveKept
<1>3. \A q \in Producers :
        /\ Unpublished(q)' = Unpublished(q) /\ Promised(q)' = Promised(q)
        /\ HasRoom(q)' <=> HasRoom(q)
  BY <1>1 DEF Unpublished, Promised, HasRoom
<1>4. \A s \in Int : Standing(s)' <=> Standing(s)
  BY <1>1, <1>2, <1>3, StandingKept
<1>5. \A d \in Consumers : \A t \in Busy(d)' : t \in Busy(d) /\ t \in Nat /\ (d = c => t # x)
  <2>1. TypeOK'
    BY TypeRead DEF ReadStep
  <2>2. \A d \in Consumers : cbegin'[d] \in Nat /\ cpos'[d] \in Nat /\ cend'[d] \in Nat
    BY <2>1 DEF TypeOK, ReaderTypes
  <2>3. \A d \in Consumers : Busy(d)' \subseteq Nat
    BY <2>2 DEF Busy
  <2> QED BY <1>1, <2>3
<1> HIDE DEF x
<1>6. ResetInv'
  BY <1>1 DEF CoreInv, ResetInv, Resetting
<1>7. HeaderInv'
  BY <1>1, <1>3 DEF CoreInv, HeaderInv
<1>8. StandInv'
  <2>1. \A q \in Producers : \A s, t \in Unpublished(q) : Live(s)' => Live(t)'
    BY <1>2, RangeTypes DEF CoreInv, StandInv
  <2>2. \A q \in Producers : pc[q] \in {"ready", "tryReady", "cas"} \cup Writing => HasRoom(q)
    BY DEF CoreInv, StandInv
  <2>3. ASSUME NEW s \in 0 .. MaxSeq - 1, Standing(s)'
        PROVE  s < readSeq + CAPACITY /\ slotSeq'[Idx(s)] # FREE
    <3>1. Standing(s)
      BY <1>4, <2>3
    <3>2. Idx(s) # Idx(x)
      BY <1>1, <3>1 DEF CoreInv, BusyInv
    <3> QED BY <1>1, <3>1, <3>2, IdxType DEF CoreInv, StandInv
  <2> QED BY <1>1, <1>3, <2>1, <2>2, <2>3 DEF StandInv
<1>9. BusyInv'
  <2> SUFFICES ASSUME NEW d \in Consumers, NEW t \in Busy(d)'
               PROVE  /\ t < readSeq
                      /\ slotSeq'[Idx(t)] # FREE
                      /\ \A e \in Consumers : \A u \in Busy(e)' : (d = e /\ t = u) \/ Idx(u) # Idx(t)
                      /\ \A s \in 0 .. MaxSeq - 1 : Standing(s)' => Idx(s) # Idx(t)
                      /\ \A q \in Producers : \A s \in Promised(q) : Live(s)' => Idx(s) # Idx(t)
    BY <1>1, <1>3 DEF BusyInv
  <2>1. t \in Busy(d) /\ t \in Nat /\ (d = c => t # x)
    BY <1>5
  <2>2. Idx(t) # Idx(x)
    BY <1>1, <2>1 DEF CoreInv, BusyInv
  <2>3. t < readSeq /\ slotSeq'[Idx(t)] # FREE
    BY <1>1, <2>1, <2>2, IdxType DEF CoreInv, BusyInv
  <2>4. \A e \in Consumers : \A u \in Busy(e)' : (d = e /\ t = u) \/ Idx(u) # Idx(t)
    BY <1>5, <2>1 DEF CoreInv, BusyInv
  <2>5. \A s \in 0 .. MaxSeq - 1 : Standing(s)' => Idx(s) # Idx(t)
    BY <1>4, <2>1 DEF CoreInv, BusyInv
  <2>6. \A q \in Producers : \A s \in Promised(q) : Live(s)' => Idx(s) # Idx(t)
    BY <1>2, <2>1, RangeTypes DEF CoreInv, BusyInv
  <2> QED BY <2>3, <2>4, <2>5, <2>6
<1>10. RangeInv'
  <2>1. \A d \in Consumers : \A t \in cbegin[d] .. cend[d] - 1 : Standing(t)' <=> Standing(t)
    BY <1>4
  <2>2. \A d \in Consumers : cpc[d] \in {"handle", "waste"} =>
          cbegin[d] <= cpos'[d] /\ cpos'[d] <= cend[d]
    BY <1>1 DEF CoreInv, RangeInv, x
  <2> QED BY <1>1, <2>1, <2>2 DEF CoreInv, RangeInv
<1>11. DataInv'
  <2>1. \A m : (Unwritten(m)' <=> Unwritten(m)) /\ (Unspent(m)' <=> Unspent(m))
    BY <1>1 DEF Unwritten, Unspent
  <2>2. \A s \in 0 .. MaxSeq - 1 : Standing(s)' <=> Standing(s)
    BY <1>4
  <2>3. \A q \in Producers : \A s \in Unpublished(q) : Live(s)' <=> Live(s)
    BY <1>2, RangeTypes
  <2> QED BY <1>1, <1>3, <2>1, <2>2, <2>3 DEF CoreInv, DataInv
<1> QED BY <1>6, <1>7, <1>8, <1>9, <1>10, <1>11 DEF CoreInv

\* Giving a slot back keeps what holds while no client has thrown.
LEMMA WasteWhole ==
  ASSUME TypeOK, ClaimInv, CoreInv, WholeInv, NEW c \in Consumers, markAsToWriteOver(c)
  PROVE  WholeInv'
<1> DEFINE x == cpos[c]
<1> USE ElementTypes, Consts
<1>1. /\ UNCHANGED <<toBeClaimedSeq, readSeq, slotData, pc, pnext, pend, scan, cpc, cmode,
                     cbegin, cend, cmsg, times, thrown>>
      /\ \A i \in Slots : slotSeq'[i] = IF i = Idx(x) THEN FREE ELSE slotSeq[i]
      /\ cpc[c] = "waste" /\ x \in Busy(c)
      /\ \A d \in Consumers : Held(d)' = Held(d)
  BY WasteFrame, Zenon
<1>2. \A q \in Producers : Unpublished(q)' = Unpublished(q) /\ (Claimed(q)' <=> Claimed(q))
  BY <1>1 DEF Unpublished, Claimed
<1>3. \A s \in Int : Standing(s)' <=> Standing(s)
  BY <1>1, <1>2, LiveKept, StandingKept
<1> HIDE DEF x
<1>4. ASSUME NEW s \in 0 .. MaxSeq - 1
      PROVE  /\ Standing(s)' => slotSeq'[Idx(s)] = s /\ slotData[Idx(s)] = s
             /\ s < readSeq => times[s] > 0 \/ \E d \in Consumers : s \in Held(d)
  <2>1. Standing(s) => Idx(s) # Idx(x)
    BY <1>1 DEF CoreInv, BusyInv
  <2> QED BY <1>1, <1>3, <2>1, IdxType DEF WholeInv
<1>5. ASSUME NEW d \in Consumers
      PROVE  /\ \A s \in Held(d) : slotSeq'[Idx(s)] = s /\ slotData[Idx(s)] = s
             /\ cpc[d] = "cas" /\ cmode[d] # "peek" /\ cbegin[d] = readSeq => cmsg[d] = cbegin[d]
  <2>1. ASSUME NEW s \in Held(d) PROVE slotSeq'[Idx(s)] = s /\ slotData[Idx(s)] = s
    <3>1. s \in Busy(d) /\ s \in Nat /\ d # c
      BY <1>1, HeldBusy, RangeTypes DEF Held
    <3>2. Idx(s) # Idx(x)
      BY <1>1, <3>1 DEF CoreInv, BusyInv
    <3> QED BY <1>1, <3>1, <3>2, IdxType DEF WholeInv
  <2> QED BY <2>1 DEF WholeInv
<1> QED BY <1>1, <1>2, <1>4, <1>5 DEF WholeInv

-----------------------------------------------------------------------------
\* What a lone client that throws, and its reset of the ring, do.
LEMMA AloneFrame ==
  ASSUME TypeOK, CoreInv, thrown # "among", thrown' # "among", NEW c \in Consumers,
         Throw(c) \/ ResetSlot(c) \/ ResetLoad(c) \/ ResetStore(c)
  PROVE  /\ UNCHANGED <<toBeClaimedSeq, slotData, pc, pnext, pend, scan, times>>
         /\ readSeq <= readSeq' /\ readSeq' <= toBeClaimedSeq
         /\ \A d \in Consumers \ {c} : cpc[d] = "off" /\ cpc'[d] = "off"
         /\ cpc'[c] \in {"idle", "reset", "store", "off"}
         /\ thrown' # "never"
         /\ cpc'[c] = "store" => readSeq' <= cbegin'[c] /\ cbegin'[c] <= toBeClaimedSeq
         /\ \A i \in Slots : slotSeq'[i] \in {FREE, slotSeq[i]}
         /\ slotSeq' = slotSeq \/ \A s \in Nat : s < toBeClaimedSeq => ~Live(s)'
         /\ \A d \in Consumers : cmsg'[d] \in {cmsg[d], NONE}
         /\ \A s \in Nat : Live(s)' => Live(s)
         /\ \A s, t \in Nat : s < toBeClaimedSeq /\ Live(s)' /\ Live(t) => Live(t)'
<1> USE ElementTypes DEF Live, Resetting
<1>0. ReaderTypes
  BY DEF TypeOK
<1>1. UNCHANGED <<toBeClaimedSeq, slotData, pc, pnext, pend, scan, times>>
  BY DEF Throw, ResetSlot, ResetLoad, ResetStore, sendVars
<1>2. ResetInv
  BY DEF CoreInv
<1>3. \A d \in Consumers \ {c} : cpc'[d] = cpc[d] /\ cbegin'[d] = cbegin[d] /\ cmsg'[d] = cmsg[d]
  BY <1>0 DEF Throw, ResetSlot, ResetLoad, ResetStore, Forget, ReaderTypes
<1>4. CASE Throw(c)
  <2>1. /\ cpc[c] = "handle" /\ cpc'[c] \in {"reset", "idle"} /\ cmsg'[c] = NONE
        /\ UNCHANGED <<readSeq, slotSeq>>
    BY <1>0, <1>4 DEF Throw, Forget, ReaderTypes
  <2>2. thrown' = "alone" /\ \A d \in Consumers \ {c} : cpc[d] = "off"
    BY <1>4 DEF Throw, NoteThrow
  <2>3. \A s \in Nat : Live(s)' => Live(s)
    BY <1>1, <1>3, <2>1, <2>2
  <2>4. \A s, t \in Nat : s < toBeClaimedSeq /\ Live(s)' /\ Live(t) => Live(t)'
    BY <1>1, <1>3, <2>1, <2>2
  <2>5. readSeq <= toBeClaimedSeq
    BY <1>2 DEF ResetInv
  <2> QED BY <1>1, <1>3, <2>1, <2>2, <2>3, <2>4, <2>5
<1>5. CASE ResetSlot(c)
  <2>1. /\ cpc[c] = "reset" /\ UNCHANGED <<readSeq, cpc, cbegin, cmsg, thrown>>
        /\ \A i \in Slots : slotSeq'[i] \in {FREE, slotSeq[i]}
    BY <1>0, <1>5 DEF ResetSlot, TypeOK, RingTypes
  <2>2. thrown # "never" /\ \A d \in Consumers \ {c} : cpc[d] = "off"
    BY <1>2, <2>1 DEF ResetInv
  <2>3. \A s \in Nat : (Live(s)' <=> Live(s)) /\ (s < toBeClaimedSeq => ~Live(s)')
    BY <1>1, <2>1, <2>2
  <2>4. readSeq <= toBeClaimedSeq
    BY <1>2 DEF ResetInv
  <2> QED BY <1>1, <2>1, <2>2, <2>3, <2>4
<1>6. CASE ResetLoad(c)
  <2>1. /\ cpc[c] = "reset" /\ cpc'[c] = "store" /\ UNCHANGED <<readSeq, slotSeq, cmsg, thrown>>
        /\ cbegin'[c] = toBeClaimedSeq
    BY <1>0, <1>6 DEF ResetLoad, ReaderTypes
  <2>2. thrown # "never" /\ \A d \in Consumers \ {c} : cpc[d] = "off"
    BY <1>2, <2>1 DEF ResetInv
  <2>3. \A s \in Nat : Live(s)' <=> Live(s)
    BY <1>1, <1>3, <2>1, <2>2
  <2>4. readSeq <= toBeClaimedSeq
    BY <1>2 DEF ResetInv
  <2>5. \A i \in Slots : slotSeq'[i] \in {FREE, slotSeq[i]}
    BY <2>1
  <2> QED BY <1>1, <1>3, <2>1, <2>2, <2>3, <2>4, <2>5
<1>7. CASE ResetStore(c)
  <2>1. /\ cpc[c] = "store" /\ cpc'[c] = "off" /\ UNCHANGED <<slotSeq, thrown>>
        /\ readSeq' = cbegin[c] /\ cmsg'[c] = NONE
    BY <1>0, <1>7 DEF ResetStore, Forget, ReaderTypes
  <2>2. /\ thrown # "never" /\ \A d \in Consumers \ {c} : cpc[d] = "off"
        /\ readSeq <= cbegin[c] /\ cbegin[c] <= toBeClaimedSeq
    BY <1>2, <2>1 DEF ResetInv
  <2>3. \A s \in Nat : Live(s)' <=> Live(s)
    BY <1>1, <1>3, <2>1, <2>2
  <2>4. \A i \in Slots : slotSeq'[i] \in {FREE, slotSeq[i]}
    BY <2>1
  <2> QED BY <1>1, <1>3, <2>1, <2>2, <2>3, <2>4
<1> QED BY <1>4, <1>5, <1>6, <1>7

\* They keep what holds while no ring is reset under running consumers.
LEMMA AloneCore ==
  ASSUME TypeOK, ClaimInv, CoreInv, thrown # "among", thrown' # "among", NEW c \in Consumers,
         Throw(c) \/ ResetSlot(c) \/ ResetLoad(c) \/ ResetStore(c)
  PROVE  CoreInv'
<1> USE ElementTypes, Consts
<1>1. /\ UNCHANGED <<toBeClaimedSeq, slotData, pc, pnext, pend, scan, times>>
      /\ readSeq <= readSeq' /\ readSeq' <= toBeClaimedSeq
      /\ \A d \in Consumers \ {c} : cpc[d] = "off" /\ cpc'[d] = "off"
      /\ cpc'[c] \in {"idle", "reset", "store", "off"}
      /\ thrown' # "never"
      /\ cpc'[c] = "store" => readSeq' <= cbegin'[c] /\ cbegin'[c] <= toBeClaimedSeq
      /\ \A i \in Slots : slotSeq'[i] \in {FREE, slotSeq[i]}
      /\ slotSeq' = slotSeq \/ \A s \in Nat : s < toBeClaimedSeq => ~Live(s)'
      /\ \A d \in Consumers : cmsg'[d] \in {cmsg[d], NONE}
      /\ \A s \in Nat : Live(s)' => Live(s)
      /\ \A s, t \in Nat : s < toBeClaimedSeq /\ Live(s)' /\ Live(t) => Live(t)'
  BY AloneFrame, Zenon
<1>2. \A q \in Producers : Unpublished(q)' = Unpublished(q)
  BY <1>1 DEF Unpublished
<1>3. \A s \in Nat : Standing(s)' => Standing(s)
  BY <1>1, <1>2 DEF Standing
<1>4. \A d \in Consumers : Busy(d)' = {} /\ Held(d)' = {}
  <2>1. \A d \in Consumers : cpc'[d] \notin {"handle", "waste"}
    BY <1>1
  <2> QED BY <2>1 DEF Busy, Held
<1>5. readSeq' \in Nat
  BY TypeRead DEF ReadStep, TypeOK, RingTypes
<1>6. ResetInv'
  BY <1>1 DEF ResetInv, Resetting
<1>7. HeaderInv'
  BY <1>1, <1>2 DEF CoreInv, HeaderInv
<1>8. StandInv'
  <2>1. ASSUME NEW q \in Producers, NEW s \in Unpublished(q), NEW t \in Unpublished(q), Live(s)'
        PROVE  Live(t)'
    <3>1. s \in Nat /\ t \in Nat /\ s < toBeClaimedSeq
      BY DEF Unpublished, ClaimInv, Claimed
    <3>2. Live(t)
      BY <1>1, <2>1, <3>1 DEF CoreInv, StandInv
    <3> QED BY <1>1, <2>1, <3>1, <3>2
  <2>2. ASSUME NEW q \in Producers, pc[q] \in {"ready", "tryReady", "cas"} \cup Writing
        PROVE  HasRoom(q)'
    <3>1. HasRoom(q)
      BY <2>2 DEF CoreInv, StandInv
    <3> QED BY <1>1, <1>5, <3>1 DEF HasRoom
  <2>3. ASSUME NEW s \in 0 .. MaxSeq - 1, Standing(s)'
        PROVE  s < readSeq' + CAPACITY /\ slotSeq'[Idx(s)] # FREE
    <3>1. Standing(s) /\ Live(s)' /\ s < toBeClaimedSeq
      BY <1>1, <1>3, <2>3 DEF Standing
    <3>2. s < readSeq + CAPACITY /\ slotSeq[Idx(s)] # FREE
      BY <3>1 DEF CoreInv, StandInv
    <3> QED BY <1>1, <1>5, <3>1, <3>2
  <2> QED BY <1>1, <1>2, <2>1, <2>2, <2>3 DEF StandInv
<1>9. BusyInv'
  BY <1>4 DEF BusyInv
<1>10. RangeInv'
  BY <1>1 DEF RangeInv
<1>11. DataInv'
  <2>1. NONE \notin Nat
    BY DEF NONE
  <2>2. \A s \in Nat : Unwritten(s) => Unwritten(s)'
    BY <1>1, <2>1 DEF Unwritten
  <2>3. \A m : Unspent(m)' <=> Unspent(m)
    BY <1>1 DEF Unspent
  <2>4. \A s \in 0 .. MaxSeq - 1 :
          /\ times[s] <= 1
          /\ toBeClaimedSeq <= s => Unwritten(s)'
          /\ Standing(s)' => Unspent(slotData[Idx(s)])
    BY <1>3, <2>2 DEF CoreInv, DataInv
  <2>5. \A q \in Producers : \A s \in Unpublished(q) :
          /\ pc[q] # "commit" => Unwritten(s)'
          /\ pc[q] = "commit" /\ Live(s)' => Unspent(slotData[Idx(s)])
    BY <1>1, <2>2, RangeTypes DEF CoreInv, DataInv
  <2>6. \A i \in Slots : slotData[i] \in Nat => Idx(slotData[i]) = i
    BY DEF CoreInv, DataInv
  <2>7. \A d \in Consumers : cpc'[d] # "cas"
    BY <1>1
  <2> QED BY <1>1, <1>2, <1>4, <2>3, <2>4, <2>5, <2>6, <2>7 DEF DataInv
<1> QED BY <1>6, <1>7, <1>8, <1>9, <1>10, <1>11 DEF CoreInv

-----------------------------------------------------------------------------
\* The initial state satisfies the inductive invariant.
LEMMA PartInit == Init => TypeOK /\ PartInv
<1> SUFFICES ASSUME Init PROVE PartInv
  BY TypeInit
<1> USE Consts
<1>1. /\ toBeClaimedSeq = 0 /\ readSeq = 0
      /\ \A i \in Slots : slotSeq[i] = FREE /\ slotData[i] = NONE
      /\ \A p \in Producers : pc[p] = "idle"
      /\ \A c \in Consumers : cpc[c] \in {"idle", "off"} /\ cmsg[c] = NONE
      /\ \A s \in 0 .. MaxSeq - 1 : times[s] = 0
  BY DEF Init
<1>2. \A p \in Producers : Unpublished(p) = {} /\ ~Claimed(p)
  BY <1>1 DEF Unpublished, Claimed, Waiting, Writing
<1>3. \A s \in Nat : ~Standing(s)
  BY <1>1 DEF Standing
<1>4. \A c \in Consumers : Busy(c) = {} /\ Held(c) = {}
  BY <1>1 DEF Busy, Held
<1>5. \A s \in 0 .. MaxSeq - 1 : Unwritten(s)
  BY <1>1 DEF Unwritten, NONE
<1>6. ResetInv
  BY <1>1 DEF ResetInv, Resetting
<1>7. HeaderInv
  BY <1>1 DEF HeaderInv
<1>8. StandInv
  BY <1>1, <1>2, <1>3 DEF StandInv, Writing
<1>9. BusyInv
  BY <1>4 DEF BusyInv
<1>10. RangeInv
  BY <1>1 DEF RangeInv
<1>11. DataInv
  BY <1>1, <1>2, <1>3, <1>4, <1>5 DEF DataInv, NONE
<1>12. WholeInv
  BY <1>1, <1>2, <1>3, <1>4 DEF WholeInv
<1> QED BY <1>6, <1>7, <1>8, <1>9, <1>10, <1>11, <1>12, TypeInit DEF PartInv, CoreInv

\* A step of a sender keeps the inductive invariant.
LEMMA PartSend ==
  ASSUME TypeOK, PartInv, MaxTryBatch <= 1,
         NEW p \in Producers, Claim(p) \/ TryLoad(p) \/ SendStep(p)
  PROVE  PartInv'
<1>1. ClaimInv /\ ClaimInv' /\ TypeOK'
  BY ClaimSend, TypeSend DEF PartInv
<1>2. thrown' = thrown
  BY DEF Claim, TryLoad, SendStep, Room, Ready, Granted, TryRoom, TryReady, TryFull, TryGranted,
         TryReload, Fill, Commit
<1>3. Private(p) \/ (Claim(p) \/ TryGranted(p)) \/ (Granted(p) \/ Fill(p)) \/ Commit(p)
  BY DEF SendStep, Private
<1>4. ASSUME CoreInv PROVE CoreInv'
  BY <1>1, <1>3, <1>4, PrivateCore, TakeCore, WriteCore, CommitCore
<1>5. ASSUME CoreInv, WholeInv, thrown = "never" PROVE WholeInv'
  BY <1>1, <1>3, <1>5, PrivateWhole, TakeWhole, WriteWhole, CommitWhole
<1> QED BY <1>1, <1>2, <1>4, <1>5 DEF PartInv

\* A step of a consumer keeps the inductive invariant.
LEMMA PartRead ==
  ASSUME TypeOK, PartInv, NEW c \in Consumers, ReadStep(c) \/ Throw(c) \/ Start(c)
  PROVE  PartInv'
<1>1. ClaimInv /\ ClaimInv'
  BY ClaimRead DEF PartInv
<1> DEFINE Alone == Throw(c) \/ ResetSlot(c) \/ ResetLoad(c) \/ ResetStore(c)
<1>2. Looking(c) \/ Grab(c) \/ Handle(c) \/ markAsToWriteOver(c) \/ Alone
  BY DEF ReadStep, Looking
<1>3. thrown' # "among" => thrown # "among"
  BY DEF ReadStep, Throw, Start, Read, LoadCursor, PeekNext, PeekEnd, CopyOut, TakeNothing,
         Grab, GrabFailed, Handle, Handled, markAsToWriteOver, Wasted, ResetSlot, ResetLoad,
         ResetStore, NoteThrow
<1>4. ASSUME thrown' # "among" PROVE CoreInv'
  <2>1. CoreInv /\ thrown # "among"
    BY <1>3, <1>4 DEF PartInv
  <2> QED BY <1>1, <1>2, <1>4, <2>1, LookCore, GrabCore, HandleCore, WasteCore, AloneCore
<1>5. ASSUME thrown' = "never" PROVE WholeInv'
  <2>1. CoreInv /\ thrown # "among"
    BY <1>3, <1>5 DEF PartInv
  <2>2. ~Alone
    BY <1>5, <2>1, AloneFrame
  <2>3. thrown = "never"
    <3>1. CASE Looking(c)
      BY <1>5, <2>1, <3>1, LookFrame
    <3>2. CASE Grab(c) \/ Handle(c) \/ markAsToWriteOver(c)
      BY <1>5, <3>2 DEF Grab, Handle, markAsToWriteOver
    <3> QED BY <1>2, <2>2, <3>1, <3>2
  <2>4. WholeInv
    BY <2>3 DEF PartInv
  <2> QED BY <1>1, <1>2, <1>5, <2>1, <2>2, <2>3, <2>4, LookWhole, GrabWhole, HandleWhole, WasteWhole
<1> QED BY <1>1, <1>4, <1>5 DEF PartInv

\* Every step keeps it.
LEMMA PartStep ==
  ASSUME TypeOK, PartInv, MaxTryBatch <= 1, [Next]_vars PROVE TypeOK' /\ PartInv'
<1>1. CASE UNCHANGED vars
  <2>1. /\ TypeOK' <=> TypeOK
        /\ ClaimInv' <=> ClaimInv
    BY <1>1 DEF vars, sendVars, readVars, TypeOK, RingTypes, SenderTypes, ReaderTypes, ClaimInv,
                Claimed
  <2>2. /\ \A p : Unpublished(p)' = Unpublished(p) /\ Promised(p)' = Promised(p)
        /\ \A p : (Claimed(p)' <=> Claimed(p)) /\ (HasRoom(p)' <=> HasRoom(p))
        /\ \A c : Busy(c)' = Busy(c) /\ Held(c)' = Held(c) /\ (Resetting(c)' <=> Resetting(c))
        /\ \A s : (Live(s)' <=> Live(s)) /\ (Unwritten(s)' <=> Unwritten(s))
        /\ \A s : Unspent(s)' <=> Unspent(s)
    BY <1>1 DEF vars, sendVars, readVars, Unpublished, Promised, Claimed, HasRoom, Busy, Held,
                Resetting, Live, Unwritten, Unspent
  <2>3. \A s : Standing(s)' <=> Standing(s)
    BY <1>1, <2>2 DEF vars, Standing
  <2>4. CoreInv' <=> CoreInv
    BY <1>1, <2>2, <2>3
       DEF vars, sendVars, readVars, CoreInv, ResetInv, HeaderInv, StandInv, BusyInv, RangeInv, DataInv
  <2>5. WholeInv' <=> WholeInv
    BY <1>1, <2>2, <2>3 DEF vars, sendVars, readVars, WholeInv
  <2>6. thrown' = thrown
    BY <1>1 DEF vars
  <2> QED BY <2>1, <2>4, <2>5, <2>6 DEF PartInv
<1>2. ASSUME NEW p \in Producers, Claim(p) \/ TryLoad(p) \/ SendStep(p) PROVE TypeOK' /\ PartInv'
  BY <1>2, PartSend, TypeSend DEF PartInv
<1>3. ASSUME NEW c \in Consumers, ReadStep(c) \/ Throw(c) \/ Start(c) PROVE TypeOK' /\ PartInv'
  BY <1>3, PartRead, TypeRead
<1> QED BY <1>1, <1>2, <1>3 DEF Next

\* The invariant says that nothing is lost ...
LEMMA NothingLostHolds == TypeOK /\ PartInv => NothingLost
<1> SUFFICES ASSUME TypeOK, PartInv, thrown = "never", NEW s \in 0 .. toBeClaimedSeq - 1,
                    \A p \in Producers : s \notin Unpublished(p)
             PROVE  \/ /\ slotSeq[Idx(s)] = s /\ slotData[Idx(s)] = s
                       /\ s >= readSeq \/ \E c \in Consumers : s \in Held(c)
                    \/ times[s] > 0
  BY DEF NothingLost
<1>1. CoreInv /\ WholeInv
  BY DEF PartInv
<1>2. s \in 0 .. MaxSeq - 1 /\ s \in Nat /\ s < toBeClaimedSeq
  BY ElementTypes, Consts
<1>3. CASE readSeq <= s
  <2>1. Standing(s)
    BY <1>1, <1>2, <1>3, NeverReset DEF Standing
  <2> QED BY <1>1, <1>2, <1>3, <2>1, ElementTypes DEF WholeInv
<1>4. CASE s < readSeq
  BY <1>1, <1>2, <1>4 DEF WholeInv
<1> QED BY <1>2, <1>3, <1>4, ElementTypes

\* ... that nothing is given twice ...
LEMMA NoneTwiceHolds == PartInv => NoneTwice
BY DEF PartInv, CoreInv, DataInv, NoneTwice, OneAndOnlyOne

\* ... and that nobody writes to a slot in use.
LEMMA NoDataRaceHolds == TypeOK /\ PartInv => NoDataRace
<1> SUFFICES ASSUME TypeOK, PartInv, thrown = "never", NEW p \in Producers, pc[p] \in Writing,
                    NEW s \in pnext[p] .. pend[p] - 1
             PROVE  /\ \A c \in Consumers, t \in 0 .. MaxSeq - 1 : t \in Busy(c) => Idx(s) # Idx(t)
                    /\ \A q \in Producers \ {p}, t \in 0 .. MaxSeq - 1 :
                         pc[q] \in Writing /\ t \in pnext[q] .. pend[q] - 1 => Idx(s) # Idx(t)
  BY DEF NoDataRace
<1>1. ClaimInv /\ CoreInv /\ WholeInv
  BY DEF PartInv
<1>2. HasRoom(p)
  BY <1>1 DEF CoreInv, StandInv
<1>3. \A q \in Producers : pc[q] \in Writing => \A t \in pnext[q] .. pend[q] - 1 : t \in Promised(q)
  BY DEF Promised, Writing
<1>4. s \in Promised(p)
  BY <1>3
<1>5. /\ \A c \in Consumers : \A t \in Busy(c) : Idx(t) # Idx(s)
      /\ \A q \in Producers \ {p} : \A t \in Promised(q) : pc[q] \in Writing => Idx(t) # Idx(s)
  BY <1>1, <1>2, <1>4, PromisedApart
<1> QED BY <1>3, <1>5

-----------------------------------------------------------------------------
\* The ring is well typed whatever its callers do: every header, number and copy is in
\* range, also when clients throw and when several slots are asked for at once.
THEOREM PartTypeCorrect == Spec => []TypeOK
<1>1. Init => TypeOK /\ ClaimInv
  BY TypeInit
<1>2. TypeOK /\ ClaimInv /\ [Next]_vars => TypeOK' /\ ClaimInv'
  <2> SUFFICES ASSUME TypeOK, ClaimInv, [Next]_vars PROVE TypeOK' /\ ClaimInv'
    OBVIOUS
  <2>1. CASE UNCHANGED vars
    BY <2>1 DEF vars, sendVars, readVars, TypeOK, RingTypes, SenderTypes, ReaderTypes, ClaimInv,
                Claimed
  <2>2. ASSUME NEW p \in Producers, Claim(p) \/ TryLoad(p) \/ SendStep(p) PROVE TypeOK' /\ ClaimInv'
    BY <2>2, TypeSend, ClaimSend
  <2>3. ASSUME NEW c \in Consumers, ReadStep(c) \/ Throw(c) \/ Start(c) PROVE TypeOK' /\ ClaimInv'
    BY <2>3, TypeRead, ClaimRead
  <2> QED BY <2>1, <2>2, <2>3 DEF Next
<1> QED BY <1>1, <1>2, PTL DEF Spec

\* PartInv holds throughout when tryClaim is asked for one slot at a time (tryPut asks
\* for one; for more it looks n times at the first slot and NothingLost fails).
THEOREM PartInductive ==
  ASSUME MaxTryBatch <= 1 PROVE Spec => [](TypeOK /\ PartInv)
<1>1. Init => TypeOK /\ PartInv
  BY PartInit
<1>2. TypeOK /\ PartInv /\ [Next]_vars => (TypeOK /\ PartInv)'
  BY PartStep
<1> QED BY <1>1, <1>2, PTL DEF Spec

\* As long as no client throws every message that was claimed is still its sender's, or
\* whole in its slot, or was given to a client (claim, commit, peek, wasteAfterPeek).
THEOREM PartNothingLost ==
  ASSUME MaxTryBatch <= 1 PROVE Spec => []NothingLost
<1>1. TypeOK /\ PartInv => NothingLost
  BY NothingLostHolds
<1> QED BY <1>1, PartInductive, PTL

\* No message is given to two clients, or to one twice, as long as no ring is reset
\* under running consumers (peek, take and tryTake racing for the cursor).
THEOREM PartNoneTwice ==
  ASSUME MaxTryBatch <= 1 PROVE Spec => []NoneTwice
<1>1. TypeOK /\ PartInv => NoneTwice
  BY NoneTwiceHolds
<1> QED BY <1>1, PartInductive, PTL

\* As long as no client throws no sender writes to a slot that another sender writes to
\* or that a consumer still works on (readyToWriteOver, markAsToWriteOver).
THEOREM PartSlotsExclusive ==
  ASSUME MaxTryBatch <= 1 PROVE Spec => []SlotsExclusive
<1>1. TypeOK /\ PartInv => SlotsExclusive
  BY NoDataRaceHolds DEF SlotsExclusive
<1> QED BY <1>1, PartInductive, PTL
=============================================================================
