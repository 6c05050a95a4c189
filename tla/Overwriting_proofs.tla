-------------------------- MODULE Overwriting_proofs --------------------------
(***************************************************************************)
(* Proofs about the parts that overwrite instead of waiting: OverwritingRing*)
(* for every number of writers and readers, every capacity and every set of*)
(* oversized items, and RtContext for every set of senders, clients, types *)
(* and transports, with any capacities and any way to start the clients.   *)
(***************************************************************************)
EXTENDS OverwritingRing, RtContext, RingArithmetic, SequenceTheorems, FiniteSetTheorems,
        WellFoundedInduction

\* Every number has a slot.
LEMMA OvSlotOf == \A n \in Nat : OvSlot(n) \in OvSlots
BY ModRange, OvAssumption DEF OvSlot, OvSlots

\* Two numbers in one slot are a whole round apart.
LEMMA OvRound ==
  \A m, n \in Nat : OvSlot(m) = OvSlot(n) /\ n < m => n + OvCapacity <= m
<1> SUFFICES ASSUME NEW m \in Nat, NEW n \in Nat, OvSlot(m) = OvSlot(n), n < m,
                    m < n + OvCapacity
             PROVE  FALSE
  BY OvAssumption
<1>1. m # n /\ m < n + OvCapacity /\ n < m + OvCapacity /\ OvCapacity \in Nat \ {0}
  BY OvAssumption
<1>2. m % OvCapacity # n % OvCapacity
  BY <1>1, ModApart
<1> QED BY <1>2 DEF OvSlot

\* The invariant holds at first.
LEMMA OvInitInv == OvInit => OvInv
<1> SUFFICES ASSUME OvInit PROVE OvInv
  OBVIOUS
<1> USE OvAssumption DEF OvInit, OvIdleReader, OvNothing, OvUPDATING, OvWords
<1>1. OvTypeOK
  <2>1. ovSeq \in [OvSlots -> 0 .. OvUPDATING]
    OBVIOUS
  <2>2. ovItem \in [OvSlots -> (-1 .. OvMaxSeq) \X (-1 .. OvMaxSeq)]
    OBVIOUS
  <2>3. ovWriter \in [OvWriters -> [pc : {"idle", "mark", "first", "second", "publish"}, seq : 0 .. OvMaxSeq]]
    OBVIOUS
  <2>4. /\ ovRecord \in [OvReaders -> 0 .. OvMaxSeq]
        /\ \A r \in OvReaders : ovReader[r].pc = "idle" /\ ovReader[r].seq \in 0 .. OvMaxSeq
    OBVIOUS
  <2>5. ovClaimed \in 0 .. OvMaxSeq
    OBVIOUS
  <2>6. ovLapped \in BOOLEAN
    BY Zenon
  <2> QED BY ONLY <2>1, <2>2, <2>3, <2>4, <2>5, <2>6 DEF OvTypeOK, OvUPDATING
<1>2. OvTypes
  BY <1>1 DEF OvTypes
<1>3. OvClaimInv
  BY DEF OvClaimInv, OvBusy
<1>4. OvSlotInv
  BY DEF OvSlotInv
<1>5. OvReaderInv
  BY DEF OvReaderInv
<1>6. OvAloneInv
  BY DEF OvAloneInv, OvBusy
<1>7. OvWholeInv /\ OvCopyInv /\ OvNoTornItem
  BY DEF OvWholeInv, OvCopyInv, OvNoTornItem
<1> QED BY <1>2, <1>3, <1>4, <1>5, <1>6, <1>7 DEF OvInv

\* A number is claimed for a writer.
LEMMA OvClaimKeeps == ASSUME OvInv, NEW w \in OvWriters, OvClaim(w) PROVE OvInv'
<1> USE OvAssumption, OvSlotOf DEF OvUPDATING
<1>1. OvTypes /\ OvClaimInv /\ OvSlotInv /\ OvReaderInv
  BY DEF OvInv
<1>2. OvTypes'
  BY <1>1 DEF OvClaim, OvTypes, OvTypeOK, OvWords, OvClaimInv, OvBusy
<1>3. OvClaimInv'
  BY <1>1 DEF OvClaim, OvTypes, OvTypeOK, OvClaimInv, OvBusy
<1>4. OvSlotInv'
  BY <1>1 DEF OvClaim, OvTypes, OvTypeOK, OvClaimInv, OvBusy, OvSlotInv, OvWritten
<1>5. OvReaderInv'
  BY <1>1 DEF OvClaim, OvTypes, OvTypeOK, OvReaderInv, OvBusy, OvWritten
<1>6. ASSUME ~ovLapped' PROVE (OvAloneInv /\ OvWholeInv /\ OvCopyInv /\ OvNoTornItem)'
  <2>1. OvAloneInv /\ OvWholeInv /\ OvCopyInv /\ OvNoTornItem /\ ~ovLapped
    BY <1>6 DEF OvInv, OvClaim
  <2>2. OvAloneInv'
    <3> USE DEF OvTypes, OvTypeOK, OvClaimInv, OvBusy
    <3>1. ASSUME NEW u \in OvWriters, NEW v \in OvWriters, u # v, OvBusy(u)', OvBusy(v)'
          PROVE  (OvSlot(ovWriter[u].seq) # OvSlot(ovWriter[v].seq))'
      BY <1>1, <1>6, <2>1, <3>1 DEF OvClaim, OvAloneInv
    <3>2. \A i \in OvSlots : ovSeq[i] # OvUPDATING => ovSeq[i] < ovClaimed
      BY <1>1 DEF OvSlotInv, OvWritten
    <3>3. \A v \in OvWriters \ {w} : ovWriter'[v] = ovWriter[v]
      BY <1>1 DEF OvClaim
    <3>4. ovWriter'[w] = [pc |-> "mark", seq |-> ovClaimed] /\ OvSlot(ovClaimed) \in OvSlots
      BY <1>1 DEF OvClaim
    <3>5. ovSeq' = ovSeq /\ ovItem' = ovItem
      BY DEF OvClaim
    <3> QED BY <2>1, <3>1, <3>2, <3>3, <3>4, <3>5 DEF OvAloneInv
  <2>3. OvWholeInv'
    BY <1>1, <2>1 DEF OvClaim, OvTypes, OvTypeOK, OvWords, OvBusy, OvAloneInv, OvWholeInv
  <2>4. OvCopyInv'
    BY <1>1, <2>1 DEF OvClaim, OvTypes, OvTypeOK, OvBusy, OvReaderInv, OvWritten, OvClaimInv, OvAloneInv, OvCopyInv, OvSame
  <2>5. OvNoTornItem'
    BY <2>1 DEF OvClaim, OvNoTornItem
  <2> QED BY <2>2, <2>3, <2>4, <2>5
<1>7. ovLapped' \in BOOLEAN
  BY <1>2 DEF OvTypes, OvTypeOK
<1> QED BY <1>2, <1>3, <1>4, <1>5, <1>6, <1>7 DEF OvInv

\* A slot is marked only by a writer a whole round ahead of its number.
LEMMA OvMarkKeeps == ASSUME OvInv, NEW w \in OvWriters, OvMark(w) PROVE OvInv'
<1> USE OvAssumption, OvSlotOf DEF OvUPDATING
<1>1. OvTypes /\ OvClaimInv /\ OvSlotInv /\ OvReaderInv
  BY DEF OvInv
<1>2. OvTypes'
  <2> USE <1>1 DEF OvTypes, OvTypeOK
  <2>1. (ovSeq \in [OvSlots -> 0 .. OvUPDATING])'
    BY DEF OvMark
  <2>2. (ovItem \in [OvSlots -> OvWords])'
    BY DEF OvMark, OvWords
  <2>3. (ovWriter \in [OvWriters -> [pc : {"idle", "mark", "first", "second", "publish"}, seq : 0 .. OvMaxSeq]])'
    BY DEF OvMark
  <2> QED BY <2>1, <2>2, <2>3 DEF OvMark, OvWords
<1>3. OvClaimInv'
  BY <1>1 DEF OvMark, OvTypes, OvTypeOK, OvClaimInv, OvBusy
<1>4. OvSlotInv'
  BY <1>1 DEF OvMark, OvTypes, OvTypeOK, OvClaimInv, OvBusy, OvSlotInv, OvWritten
<1>5. OvReaderInv'
  BY <1>1 DEF OvMark, OvTypes, OvTypeOK, OvReaderInv, OvBusy, OvWritten
<1>6. ASSUME ~ovLapped' PROVE (OvAloneInv /\ OvWholeInv /\ OvCopyInv /\ OvNoTornItem)'
  <2>1. OvAloneInv /\ OvWholeInv /\ OvCopyInv /\ OvNoTornItem /\ ~ovLapped
    BY <1>6 DEF OvInv, OvMark
  <2>2. OvAloneInv'
    BY <1>1, <1>6, <2>1 DEF OvMark, OvTypes, OvTypeOK, OvWords, OvClaimInv, OvBusy, OvAloneInv
  <2>3. OvWholeInv'
    BY <1>1, <2>1 DEF OvMark, OvTypes, OvTypeOK, OvWords, OvBusy, OvAloneInv, OvWholeInv
  <2>4. OvCopyInv'
    <3>1. ASSUME NEW r \in OvReaders, ovReader[r].pc \in {"first", "second", "check"},
                 OvSame(ovReader[r].seq), ~OvSame(ovReader[r].seq)'
          PROVE  ovReader[r].seq + OvCapacity < ovClaimed
      <4> DEFINE n == ovReader[r].seq  m == ovWriter[w].seq
      <4>1. m \in Nat /\ n \in Nat /\ ovClaimed \in Nat /\ n < OvUPDATING
        BY <1>1 DEF OvTypes, OvTypeOK
      <4>2. OvSlot(m) = OvSlot(n)
        BY <1>1, <3>1, <4>1 DEF OvMark, OvSame, OvTypes, OvTypeOK
      <4>3. n < m /\ m < ovClaimed
        BY <1>1, <2>1, <3>1, <4>1, <4>2 DEF OvMark, OvSame, OvAloneInv, OvBusy, OvClaimInv
      <4> QED BY <4>1, <4>2, <4>3, OvRound
    <3>2. ASSUME NEW r \in OvReaders, OvSame(ovReader[r].seq)' PROVE OvSame(ovReader[r].seq)
      BY <1>1, <3>2 DEF OvMark, OvSame, OvTypes, OvTypeOK
    <3>3. ovReader' = ovReader /\ ovClaimed' = ovClaimed
      BY DEF OvMark
    <3> QED BY <2>1, <3>1, <3>2, <3>3 DEF OvCopyInv
  <2>5. OvNoTornItem'
    BY <2>1 DEF OvMark, OvNoTornItem
  <2> QED BY <2>2, <2>3, <2>4, <2>5
<1>7. ovLapped' \in BOOLEAN
  BY <1>2 DEF OvTypes, OvTypeOK
<1> QED BY <1>2, <1>3, <1>4, <1>5, <1>6, <1>7 DEF OvInv

\* What is written into a slot is seen by no reader whose number it has.
LEMMA OvWriteKeeps == ASSUME OvInv, NEW w \in OvWriters, OvWrite(w) PROVE OvInv'
<1> USE OvAssumption, OvSlotOf DEF OvUPDATING
<1>1. OvTypes /\ OvClaimInv /\ OvSlotInv /\ OvReaderInv
  BY DEF OvInv
<1>2. OvTypes'
  <2> USE <1>1 DEF OvTypes, OvTypeOK
  <2>1. (ovSeq \in [OvSlots -> 0 .. OvUPDATING])'
    BY DEF OvWrite
  <2>2. (ovItem \in [OvSlots -> OvWords])'
    <3> DEFINE n == ovWriter[w].seq
    <3>1. n \in -1 .. OvMaxSeq /\ OvSlot(n) \in OvSlots
      OBVIOUS
    <3>2. PICK half \in {1, 2} : ovItem' = [ovItem EXCEPT ![OvSlot(n)][half] = n]
      BY DEF OvWrite
    <3>3. ASSUME NEW x \in OvWords PROVE [x EXCEPT ![half] = n] \in OvWords
      BY <3>1, <3>2 DEF OvWords
    <3> QED BY <3>2, <3>3 DEF OvWords
  <2>3. (ovWriter \in [OvWriters -> [pc : {"idle", "mark", "first", "second", "publish"}, seq : 0 .. OvMaxSeq]])'
    BY DEF OvWrite
  <2> QED BY <2>1, <2>2, <2>3 DEF OvWrite, OvWords
<1>3. OvClaimInv'
  BY <1>1 DEF OvWrite, OvTypes, OvTypeOK, OvClaimInv, OvBusy
<1>4. OvSlotInv'
  BY <1>1 DEF OvWrite, OvTypes, OvTypeOK, OvClaimInv, OvBusy, OvSlotInv, OvWritten
<1>5. OvReaderInv'
  BY <1>1 DEF OvWrite, OvTypes, OvTypeOK, OvReaderInv, OvBusy, OvWritten
<1>6. ASSUME ~ovLapped' PROVE (OvAloneInv /\ OvWholeInv /\ OvCopyInv /\ OvNoTornItem)'
  <2>1. OvAloneInv /\ OvWholeInv /\ OvCopyInv /\ OvNoTornItem /\ ~ovLapped
    BY <1>6 DEF OvInv, OvWrite
  <2>2. OvAloneInv'
    BY <1>1, <1>6, <2>1 DEF OvWrite, OvTypes, OvTypeOK, OvWords, OvClaimInv, OvBusy, OvAloneInv
  <2>3. OvWholeInv'
    BY <1>1, <2>1 DEF OvWrite, OvTypes, OvTypeOK, OvWords, OvBusy, OvAloneInv, OvWholeInv
  <2>4. OvCopyInv'
    BY <1>1, <2>1 DEF OvWrite, OvTypes, OvTypeOK, OvBusy, OvReaderInv, OvWritten, OvClaimInv, OvAloneInv, OvCopyInv, OvSame
  <2>5. OvNoTornItem'
    BY <2>1 DEF OvWrite, OvNoTornItem
  <2> QED BY <2>2, <2>3, <2>4, <2>5
<1>7. ovLapped' \in BOOLEAN
  BY <1>2 DEF OvTypes, OvTypeOK
<1> QED BY <1>2, <1>3, <1>4, <1>5, <1>6, <1>7 DEF OvInv

\* An item too big for its slot leaves the slot marked.
LEMMA OvTooBigKeeps == ASSUME OvInv, NEW w \in OvWriters, OvTooBig(w) PROVE OvInv'
<1> USE OvAssumption, OvSlotOf DEF OvUPDATING
<1>1. OvTypes /\ OvClaimInv /\ OvSlotInv /\ OvReaderInv
  BY DEF OvInv
<1>2. OvTypes'
  BY <1>1 DEF OvTooBig, OvTypes, OvTypeOK, OvWords, OvClaimInv, OvBusy
<1>3. OvClaimInv'
  BY <1>1 DEF OvTooBig, OvTypes, OvTypeOK, OvClaimInv, OvBusy
<1>4. OvSlotInv'
  BY <1>1 DEF OvTooBig, OvTypes, OvTypeOK, OvClaimInv, OvBusy, OvSlotInv, OvWritten
<1>5. OvReaderInv'
  BY <1>1 DEF OvTooBig, OvTypes, OvTypeOK, OvReaderInv, OvBusy, OvWritten
<1>6. ASSUME ~ovLapped' PROVE (OvAloneInv /\ OvWholeInv /\ OvCopyInv /\ OvNoTornItem)'
  <2>1. OvAloneInv /\ OvWholeInv /\ OvCopyInv /\ OvNoTornItem /\ ~ovLapped
    BY <1>6 DEF OvInv, OvTooBig
  <2>2. OvAloneInv'
    BY <1>1, <1>6, <2>1 DEF OvTooBig, OvTypes, OvTypeOK, OvWords, OvClaimInv, OvBusy, OvAloneInv
  <2>3. OvWholeInv'
    BY <1>1, <2>1 DEF OvTooBig, OvTypes, OvTypeOK, OvWords, OvBusy, OvAloneInv, OvWholeInv
  <2>4. OvCopyInv'
    BY <1>1, <2>1 DEF OvTooBig, OvTypes, OvTypeOK, OvBusy, OvReaderInv, OvWritten, OvClaimInv, OvAloneInv, OvCopyInv, OvSame
  <2>5. OvNoTornItem'
    BY <2>1 DEF OvTooBig, OvNoTornItem
  <2> QED BY <2>2, <2>3, <2>4, <2>5
<1>7. ovLapped' \in BOOLEAN
  BY <1>2 DEF OvTypes, OvTypeOK
<1> QED BY <1>2, <1>3, <1>4, <1>5, <1>6, <1>7 DEF OvInv

\* A number is published with the whole item, and once.
LEMMA OvPublishKeeps == ASSUME OvInv, NEW w \in OvWriters, OvPublish(w) PROVE OvInv'
<1> USE OvAssumption, OvSlotOf DEF OvUPDATING
<1>1. OvTypes /\ OvClaimInv /\ OvSlotInv /\ OvReaderInv
  BY DEF OvInv
<1>2. OvTypes'
  BY <1>1 DEF OvPublish, OvTypes, OvTypeOK, OvWords, OvClaimInv, OvBusy
<1>3. OvClaimInv'
  BY <1>1 DEF OvPublish, OvTypes, OvTypeOK, OvClaimInv, OvBusy
<1>4. OvSlotInv'
  BY <1>1 DEF OvPublish, OvTypes, OvTypeOK, OvClaimInv, OvBusy, OvSlotInv, OvWritten
<1>5. OvReaderInv'
  BY <1>1 DEF OvPublish, OvTypes, OvTypeOK, OvReaderInv, OvBusy, OvWritten
<1>6. ASSUME ~ovLapped' PROVE (OvAloneInv /\ OvWholeInv /\ OvCopyInv /\ OvNoTornItem)'
  <2>1. OvAloneInv /\ OvWholeInv /\ OvCopyInv /\ OvNoTornItem /\ ~ovLapped
    BY <1>6 DEF OvInv, OvPublish
  <2>2. OvAloneInv'
    BY <1>1, <1>6, <2>1 DEF OvPublish, OvTypes, OvTypeOK, OvWords, OvClaimInv, OvBusy, OvAloneInv
  <2>3. OvWholeInv'
    BY <1>1, <2>1 DEF OvPublish, OvTypes, OvTypeOK, OvWords, OvBusy, OvAloneInv, OvWholeInv
  <2>4. OvCopyInv'
    BY <1>1, <2>1 DEF OvPublish, OvTypes, OvTypeOK, OvBusy, OvReaderInv, OvWritten, OvClaimInv, OvAloneInv, OvCopyInv, OvSame
  <2>5. OvNoTornItem'
    BY <2>1 DEF OvPublish, OvNoTornItem
  <2> QED BY <2>2, <2>3, <2>4, <2>5
<1>7. ovLapped' \in BOOLEAN
  BY <1>2 DEF OvTypes, OvTypeOK
<1> QED BY <1>2, <1>3, <1>4, <1>5, <1>6, <1>7 DEF OvInv

\* What a reader keeps to itself, and the same with one field changed.
OvReaderType == [pc : {"idle", "look", "first", "second", "check"},
                 try : BOOLEAN, seq : 0 .. OvMaxSeq, item : OvWords]

\* A reader's record with another pc is one still.
LEMMA OvPcChange ==
  ASSUME NEW y \in OvReaderType, NEW x \in {"idle", "look", "first", "second", "check"}
  PROVE  LET z == [y EXCEPT !.pc = x]
         IN z \in OvReaderType /\ z.pc = x /\ z.seq = y.seq /\ z.item = y.item
BY DEF OvReaderType

\* The same for its number,
LEMMA OvSeqChange ==
  ASSUME NEW y \in OvReaderType, NEW x \in 0 .. OvMaxSeq
  PROVE  LET z == [y EXCEPT !.seq = x]
         IN z \in OvReaderType /\ z.pc = y.pc /\ z.seq = x /\ z.item = y.item
BY DEF OvReaderType

\* for what it copied,
LEMMA OvItemChange ==
  ASSUME NEW y \in OvReaderType, NEW x \in OvWords
  PROVE  LET z == [y EXCEPT !.item = x]
         IN z \in OvReaderType /\ z.pc = y.pc /\ z.seq = y.seq /\ z.item = x
BY DEF OvReaderType

\* and for the call it is in.
LEMMA OvTryChange ==
  ASSUME NEW y \in OvReaderType, NEW x \in BOOLEAN
  PROVE  LET z == [y EXCEPT !.try = x]
         IN z \in OvReaderType /\ z.pc = y.pc /\ z.seq = y.seq /\ z.item = y.item
BY DEF OvReaderType

\* An idle reader's record is one.
LEMMA OvIdleTyped == OvIdleReader \in OvReaderType
BY OvAssumption DEF OvReaderType, OvIdleReader, OvWords

\* A call leaves the reader at its record, and the other readers alone.
LEMMA OvCallReader ==
  ASSUME OvTypes, NEW r \in OvReaders, NEW try \in BOOLEAN, OvCall(r, try)
  PROVE  /\ ovReader' \in [OvReaders -> OvReaderType]
         /\ \A q \in OvReaders \ {r} : ovReader'[q] = ovReader[q]
         /\ ovReader'[r].pc = "look" /\ ovReader'[r].seq = ovRecord[r]
<1> DEFINE a == [OvIdleReader EXCEPT !.pc = "look"]
           b == [a EXCEPT !.try = try]
           c == [b EXCEPT !.seq = ovRecord[r]]
<1>1. a \in OvReaderType /\ a.pc = "look"
  BY OvIdleTyped, OvPcChange
<1>2. b \in OvReaderType /\ b.pc = "look"
  <2> HIDE DEF a
  <2> QED BY <1>1, OvTryChange
<1>3. ovRecord[r] \in 0 .. OvMaxSeq
  BY DEF OvTypes, OvTypeOK
<1>4. c \in OvReaderType /\ c.pc = "look" /\ c.seq = ovRecord[r]
  <2> HIDE DEF a, b
  <2> QED BY <1>2, <1>3, OvSeqChange
<1>5. ovReader' = [ovReader EXCEPT ![r] = c]
  BY Zenon DEF OvCall
<1> HIDE DEF a, b, c
<1>6. ovReader \in [OvReaders -> OvReaderType]
  BY DEF OvTypes, OvReaderType
<1> QED BY <1>4, <1>5, <1>6

\* What a look does to the reader, and to the other readers.
LEMMA OvLookReader ==
  ASSUME OvTypes, OvSlotInv, NEW r \in OvReaders, OvLook(r)
  PROVE  LET n == ovReader[r].seq
         IN /\ ovReader' \in [OvReaders -> OvReaderType]
            /\ \A q \in OvReaders \ {r} : ovReader'[q] = ovReader[q]
            /\ \/ OvSame(n) /\ ovReader'[r].pc = "first" /\ ovReader'[r].seq = n
               \/ OvMissed(n) /\ ovReader'[r].pc = "look" /\ ovReader'[r].seq = OvSkip(n)
<1> DEFINE n == ovReader[r].seq
<1>1. ovReader \in [OvReaders -> OvReaderType] /\ ovReader[r].pc = "look"
  BY DEF OvTypes, OvReaderType, OvLook
<1>2. CASE OvSame(n) /\ ovReader' = [ovReader EXCEPT ![r].pc = "first"]
  <2> DEFINE z == [ovReader[r] EXCEPT !.pc = "first"]
  <2>1. z \in OvReaderType /\ z.pc = "first" /\ z.seq = n
    BY <1>1, OvPcChange
  <2>2. ovReader' = [ovReader EXCEPT ![r] = z]
    BY <1>2
  <2> HIDE DEF z
  <2> QED BY <1>1, <1>2, <2>1, <2>2
<1>3. CASE OvMissed(n) /\ ovReader' = [ovReader EXCEPT ![r].seq = OvSkip(n)]
  <2> DEFINE z == [ovReader[r] EXCEPT !.seq = OvSkip(n)]
  <2>1. OvSkip(n) \in 0 .. OvMaxSeq
    BY <1>3, OvAssumption, OvSlotOf DEF OvSkip, OvMissed, OvSlotInv, OvWritten, OvTypes, OvTypeOK
  <2>2. z \in OvReaderType /\ z.pc = "look" /\ z.seq = OvSkip(n)
    BY <1>1, <2>1, OvSeqChange
  <2>3. ovReader' = [ovReader EXCEPT ![r] = z]
    BY <1>3
  <2> HIDE DEF z
  <2> QED BY <1>1, <1>3, <2>2, <2>3
<1> QED BY <1>2, <1>3 DEF OvLook, OvSame

\* What the check of a copy does to the reader, and to the other readers.
LEMMA OvCheckReader ==
  ASSUME OvTypes, OvReaderInv, NEW r \in OvReaders, OvCheck(r)
  PROVE  LET n == ovReader[r].seq
         IN /\ ovReader' \in [OvReaders -> OvReaderType]
            /\ \A q \in OvReaders \ {r} : ovReader'[q] = ovReader[q]
            /\ \/ OvSame(n) /\ ovReader'[r].pc = "idle" /\ ovReader'[r].seq = 0
               \/ ~OvSame(n) /\ ovReader'[r].pc = "look" /\ ovReader'[r].seq = n + 1
<1> DEFINE n == ovReader[r].seq
<1>1. ovReader \in [OvReaders -> OvReaderType] /\ n + 1 \in 0 .. OvMaxSeq /\ <<-1, -1>> \in OvWords
  BY OvAssumption DEF OvTypes, OvTypeOK, OvReaderType, OvReaderInv, OvWritten, OvWords, OvCheck
<1>2. CASE OvSame(n) /\ ovReader' = [ovReader EXCEPT ![r] = OvIdleReader]
  <2>1. OvIdleReader.pc = "idle" /\ OvIdleReader.seq = 0
    BY DEF OvIdleReader
  <2> QED BY <1>1, <1>2, <2>1, OvIdleTyped
<1>3. CASE /\ ~OvSame(n)
           /\ ovReader' = [ovReader EXCEPT ![r].pc = "look", ![r].seq = n + 1, ![r].item = <<-1, -1>>]
  <2> DEFINE a == [ovReader[r] EXCEPT !.pc = "look"]
             b == [a EXCEPT !.seq = n + 1]
             c == [b EXCEPT !.item = <<-1, -1>>]
  <2>1. a \in OvReaderType /\ a.pc = "look"
    BY <1>1, OvPcChange
  <2>2. b \in OvReaderType /\ b.pc = "look" /\ b.seq = n + 1
    <3> HIDE DEF a
    <3> QED BY <1>1, <2>1, OvSeqChange
  <2>3. c \in OvReaderType /\ c.pc = "look" /\ c.seq = n + 1
    <3> HIDE DEF a, b
    <3> QED BY <1>1, <2>2, OvItemChange
  <2>4. ovReader' = [ovReader EXCEPT ![r] = c]
    BY <1>1, <1>3
  <2> HIDE DEF a, b, c
  <2> QED BY <1>1, <1>3, <2>3, <2>4
<1> QED BY <1>2, <1>3 DEF OvCheck

\* A reader starts at its record.
LEMMA OvCallKeeps == ASSUME OvInv, NEW r \in OvReaders, NEW try \in BOOLEAN, OvCall(r, try) PROVE OvInv'
<1> USE OvAssumption, OvSlotOf DEF OvUPDATING, OvIdleReader
<1>1. OvTypes /\ OvClaimInv /\ OvSlotInv /\ OvReaderInv
  BY DEF OvInv
<1>2. OvTypes'
  <2>1. ovReader' \in [OvReaders -> OvReaderType]
    BY <1>1, OvCallReader
  <2> QED BY <1>1, <2>1 DEF OvCall, OvTypes, OvTypeOK, OvReaderType
<1>3. OvClaimInv'
  BY <1>1 DEF OvCall, OvClaimInv, OvBusy
<1>4. OvSlotInv'
  BY <1>1 DEF OvCall, OvBusy, OvSlotInv, OvWritten
<1>5. OvReaderInv'
  BY <1>1 DEF OvCall, OvTypes, OvTypeOK, OvReaderInv, OvBusy, OvWritten
<1>6. ASSUME ~ovLapped' PROVE (OvAloneInv /\ OvWholeInv /\ OvCopyInv /\ OvNoTornItem)'
  <2>1. OvAloneInv /\ OvWholeInv /\ OvCopyInv /\ OvNoTornItem /\ ~ovLapped
    BY <1>6 DEF OvInv, OvCall
  <2>2. OvAloneInv'
    BY <2>1 DEF OvCall, OvBusy, OvAloneInv
  <2>3. OvWholeInv'
    BY <2>1 DEF OvCall, OvWholeInv
  <2>4. OvCopyInv'
    BY <1>1, <2>1 DEF OvCall, OvTypes, OvTypeOK, OvWords, OvReaderInv, OvWritten, OvWholeInv, OvCopyInv, OvSame
  <2>5. OvNoTornItem'
    BY <1>1, <2>1 DEF OvCall, OvTypes, OvTypeOK, OvWords, OvCopyInv, OvNoTornItem
  <2> QED BY <2>2, <2>3, <2>4, <2>5
<1>7. ovLapped' \in BOOLEAN
  BY <1>2 DEF OvTypes, OvTypeOK
<1> QED BY <1>2, <1>3, <1>4, <1>5, <1>6, <1>7 DEF OvInv


\* A reader that returns without an item has changed nothing.
LEMMA OvStarveKeeps == ASSUME OvInv, NEW r \in OvReaders, OvStarve(r) PROVE OvInv'
<1> USE OvAssumption, OvSlotOf DEF OvUPDATING, OvIdleReader
<1>1. OvTypes /\ OvClaimInv /\ OvSlotInv /\ OvReaderInv
  BY DEF OvInv
<1>2. OvTypes'
  BY <1>1 DEF OvStarve, OvTypes, OvTypeOK, OvWords, OvReaderInv, OvWritten, OvResult, OvSame
<1>3. OvClaimInv'
  BY <1>1 DEF OvStarve, OvClaimInv, OvBusy
<1>4. OvSlotInv'
  BY <1>1 DEF OvStarve, OvBusy, OvSlotInv, OvWritten
<1>5. OvReaderInv'
  BY <1>1 DEF OvStarve, OvTypes, OvTypeOK, OvReaderInv, OvBusy, OvWritten
<1>6. ASSUME ~ovLapped' PROVE (OvAloneInv /\ OvWholeInv /\ OvCopyInv /\ OvNoTornItem)'
  <2>1. OvAloneInv /\ OvWholeInv /\ OvCopyInv /\ OvNoTornItem /\ ~ovLapped
    BY <1>6 DEF OvInv, OvStarve
  <2>2. OvAloneInv'
    BY <2>1 DEF OvStarve, OvBusy, OvAloneInv
  <2>3. OvWholeInv'
    BY <2>1 DEF OvStarve, OvWholeInv
  <2>4. OvCopyInv'
    BY <1>1, <2>1 DEF OvStarve, OvTypes, OvTypeOK, OvWords, OvReaderInv, OvWritten, OvWholeInv, OvCopyInv, OvSame
  <2>5. OvNoTornItem'
    BY <1>1, <2>1 DEF OvStarve, OvTypes, OvTypeOK, OvWords, OvCopyInv, OvNoTornItem
  <2> QED BY <2>2, <2>3, <2>4, <2>5
<1>7. ovLapped' \in BOOLEAN
  BY <1>2 DEF OvTypes, OvTypeOK
<1> QED BY <1>2, <1>3, <1>4, <1>5, <1>6, <1>7 DEF OvInv


\* A reader that finds its number finds it published, with the whole item.
LEMMA OvLookKeeps == ASSUME OvInv, NEW r \in OvReaders, OvLook(r) PROVE OvInv'
<1> USE OvAssumption, OvSlotOf DEF OvUPDATING, OvIdleReader
<1>1. OvTypes /\ OvClaimInv /\ OvSlotInv /\ OvReaderInv
  BY DEF OvInv
<1>2. OvTypes'
  <2>1. ovReader' \in [OvReaders -> OvReaderType]
    BY <1>1, OvLookReader
  <2> QED BY <1>1, <2>1 DEF OvLook, OvTypes, OvTypeOK, OvReaderType
<1>3. OvClaimInv'
  BY <1>1 DEF OvLook, OvClaimInv, OvBusy
<1>4. OvSlotInv'
  BY <1>1 DEF OvLook, OvBusy, OvSlotInv, OvWritten
<1>5. OvReaderInv'
  <2> DEFINE P(q) == /\ ovRecord[q] = ovGot[q].seq + 1
                     /\ ovReader[q].pc # "idle" => ovReader[q].seq >= ovRecord[q]
                     /\ ovReader[q].pc \in {"first", "second", "check"} => OvWritten(ovReader[q].seq)
  <2>1. \A n : OvWritten(n)' <=> OvWritten(n)
    BY DEF OvLook, OvWritten, OvBusy
  <2>2. ASSUME NEW q \in OvReaders, q # r PROVE P(q)'
    <3>1. ovReader'[q] = ovReader[q] /\ ovRecord'[q] = ovRecord[q] /\ ovGot'[q] = ovGot[q]
      BY <1>1, <2>2, OvLookReader DEF OvLook
    <3> QED BY <1>1, <2>1, <3>1 DEF OvReaderInv
  <2>3. P(r)'
    <3> DEFINE n == ovReader[r].seq
    <3>1. OvSame(n) => OvWritten(n)
      BY <1>1 DEF OvSame, OvTypes, OvTypeOK, OvSlotInv
    <3>2. ovReader'[r].seq >= n
      <4>1. n \in Nat /\ ovClaimed \in Nat
        BY <1>1 DEF OvTypes, OvTypeOK
      <4>2. OvSkip(n) >= n /\ n >= n
        BY <4>1 DEF OvSkip
      <4>3. ovReader'[r].seq \in {n, OvSkip(n)}
        BY <1>1, OvLookReader
      <4> QED BY <4>2, <4>3
    <3>3. ovRecord' = ovRecord /\ ovGot' = ovGot /\ ovReader[r].pc = "look"
      BY DEF OvLook
    <3>4. ovReader'[r].pc = "look" \/ (ovReader'[r].pc = "first" /\ ovReader'[r].seq = n /\ OvSame(n))
      BY <1>1, OvLookReader
    <3>5. ovRecord[r] \in Nat /\ n \in Nat /\ ovReader'[r].seq \in Nat
      BY <1>1, <1>2 DEF OvTypes, OvTypeOK
    <3> QED BY <1>1, <2>1, <3>1, <3>2, <3>3, <3>4, <3>5 DEF OvReaderInv
  <2> QED BY <2>2, <2>3 DEF OvReaderInv
<1>6. ASSUME ~ovLapped' PROVE (OvAloneInv /\ OvWholeInv /\ OvCopyInv /\ OvNoTornItem)'
  <2>1. OvAloneInv /\ OvWholeInv /\ OvCopyInv /\ OvNoTornItem /\ ~ovLapped
    BY <1>6 DEF OvInv, OvLook
  <2>2. OvAloneInv'
    BY <2>1 DEF OvLook, OvBusy, OvAloneInv
  <2>3. OvWholeInv'
    BY <2>1 DEF OvLook, OvWholeInv
  <2>4. OvCopyInv'
    <3>1. \A n : OvSame(n)' <=> OvSame(n)
      BY DEF OvLook, OvSame
    <3>2. \A q \in OvReaders \ {r} : ovReader'[q] = ovReader[q]
      BY <1>1, OvLookReader
    <3>3. ovReader'[r].pc \in {"first", "second", "check"} =>
            ovReader'[r].pc = "first" /\ OvSame(ovReader'[r].seq)
      BY <1>1, OvLookReader
    <3>4. ovClaimed' = ovClaimed
      BY DEF OvLook
    <3> QED BY <2>1, <3>1, <3>2, <3>3, <3>4 DEF OvCopyInv
  <2>5. OvNoTornItem'
    BY <1>1, <2>1 DEF OvLook, OvTypes, OvTypeOK, OvWords, OvCopyInv, OvNoTornItem
  <2> QED BY <2>2, <2>3, <2>4, <2>5
<1>7. ovLapped' \in BOOLEAN
  BY <1>2 DEF OvTypes, OvTypeOK
<1> QED BY <1>2, <1>3, <1>4, <1>5, <1>6, <1>7 DEF OvInv


\* A reader copies the words of its number as long as the slot keeps it.
LEMMA OvCopyKeeps == ASSUME OvInv, NEW r \in OvReaders, OvCopy(r) PROVE OvInv'
<1> USE OvAssumption, OvSlotOf DEF OvUPDATING, OvIdleReader
<1>1. OvTypes /\ OvClaimInv /\ OvSlotInv /\ OvReaderInv
  BY DEF OvInv
<1>2. OvTypes'
  BY <1>1 DEF OvCopy, OvTypes, OvTypeOK, OvWords, OvReaderInv, OvWritten, OvResult, OvSame
<1>3. OvClaimInv'
  BY <1>1 DEF OvCopy, OvClaimInv, OvBusy
<1>4. OvSlotInv'
  BY <1>1 DEF OvCopy, OvBusy, OvSlotInv, OvWritten
<1>5. OvReaderInv'
  BY <1>1 DEF OvCopy, OvTypes, OvTypeOK, OvReaderInv, OvBusy, OvWritten
<1>6. ASSUME ~ovLapped' PROVE (OvAloneInv /\ OvWholeInv /\ OvCopyInv /\ OvNoTornItem)'
  <2>1. OvAloneInv /\ OvWholeInv /\ OvCopyInv /\ OvNoTornItem /\ ~ovLapped
    BY <1>6 DEF OvInv, OvCopy
  <2>2. OvAloneInv'
    BY <2>1 DEF OvCopy, OvBusy, OvAloneInv
  <2>3. OvWholeInv'
    BY <2>1 DEF OvCopy, OvWholeInv
  <2>4. OvCopyInv'
    BY <1>1, <2>1 DEF OvCopy, OvTypes, OvTypeOK, OvWords, OvReaderInv, OvWritten, OvWholeInv, OvCopyInv, OvSame
  <2>5. OvNoTornItem'
    BY <1>1, <2>1 DEF OvCopy, OvTypes, OvTypeOK, OvWords, OvCopyInv, OvNoTornItem
  <2> QED BY <2>2, <2>3, <2>4, <2>5
<1>7. ovLapped' \in BOOLEAN
  BY <1>2 DEF OvTypes, OvTypeOK
<1> QED BY <1>2, <1>3, <1>4, <1>5, <1>6, <1>7 DEF OvInv


\* A copy that is returned is of its number, and the next record follows it.
LEMMA OvCheckKeeps == ASSUME OvInv, NEW r \in OvReaders, OvCheck(r) PROVE OvInv'
<1> USE OvAssumption, OvSlotOf DEF OvUPDATING, OvIdleReader
<1>1. OvTypes /\ OvClaimInv /\ OvSlotInv /\ OvReaderInv
  BY DEF OvInv
<1>2. OvTypes'
  <2> DEFINE n == ovReader[r].seq  G == [seq : -1 .. OvMaxSeq, item : OvWords, result : {-1, 0, 1}]
  <2>1. ovReader' \in [OvReaders -> OvReaderType]
    BY <1>1, OvCheckReader
  <2>2. ovRecord' \in [OvReaders -> 0 .. OvMaxSeq]
    BY <1>1 DEF OvCheck, OvReaderInv, OvWritten, OvTypes, OvTypeOK
  <2>3. ovGot' \in [OvReaders -> G]
    <3>1. [seq |-> n, item |-> ovReader[r].item, result |-> OvResult(r, n)] \in G
      BY <1>1 DEF OvTypes, OvResult
    <3>2. ovGot \in [OvReaders -> G]
      BY <1>1 DEF OvTypes
    <3> QED BY <3>1, <3>2 DEF OvCheck
  <2> QED BY <1>1, <2>1, <2>2, <2>3 DEF OvCheck, OvTypes, OvTypeOK, OvReaderType
<1>3. OvClaimInv'
  BY <1>1 DEF OvCheck, OvClaimInv, OvBusy
<1>4. OvSlotInv'
  BY <1>1 DEF OvCheck, OvBusy, OvSlotInv, OvWritten
<1>5. OvReaderInv'
  <2> DEFINE P(q) == /\ ovRecord[q] = ovGot[q].seq + 1
                     /\ ovReader[q].pc # "idle" => ovReader[q].seq >= ovRecord[q]
                     /\ ovReader[q].pc \in {"first", "second", "check"} => OvWritten(ovReader[q].seq)
  <2>1. \A n : OvWritten(n)' <=> OvWritten(n)
    BY DEF OvCheck, OvWritten, OvBusy
  <2>2. ASSUME NEW q \in OvReaders, q # r PROVE P(q)'
    <3>1. ovReader'[q] = ovReader[q] /\ ovRecord'[q] = ovRecord[q] /\ ovGot'[q] = ovGot[q]
      BY <1>1, <2>2, OvCheckReader DEF OvCheck, OvTypes, OvTypeOK
    <3> QED BY <1>1, <2>1, <3>1 DEF OvReaderInv
  <2>3. P(r)'
    <3> DEFINE n == ovReader[r].seq
    <3>1. CASE OvSame(n)
      <4>1. ovReader'[r].pc = "idle"
        BY <1>1, <3>1, OvCheckReader
      <4>2. ovRecord'[r] = n + 1 /\ ovGot'[r].seq = n
        BY <1>1, <3>1 DEF OvCheck, OvTypes, OvTypeOK
      <4> QED BY <4>1, <4>2
    <3>2. CASE ~OvSame(n)
      <4>1. ovReader'[r].pc = "look" /\ ovReader'[r].seq = n + 1
        BY <1>1, <3>2, OvCheckReader
      <4>2. ovRecord' = ovRecord /\ ovGot' = ovGot /\ ovReader[r].pc = "check"
        BY <3>2 DEF OvCheck
      <4>3. n >= ovRecord[r] /\ n \in Nat /\ ovRecord[r] \in Nat /\ ovRecord[r] = ovGot[r].seq + 1
        BY <1>1, <4>2 DEF OvReaderInv, OvTypes, OvTypeOK
      <4> QED BY <4>1, <4>2, <4>3
    <3> QED BY <3>1, <3>2
  <2> QED BY <2>2, <2>3 DEF OvReaderInv
<1>6. ASSUME ~ovLapped' PROVE (OvAloneInv /\ OvWholeInv /\ OvCopyInv /\ OvNoTornItem)'
  <2>1. OvAloneInv /\ OvWholeInv /\ OvCopyInv /\ OvNoTornItem /\ ~ovLapped
    BY <1>6 DEF OvInv, OvCheck
  <2>2. OvAloneInv'
    BY <2>1 DEF OvCheck, OvBusy, OvAloneInv
  <2>3. OvWholeInv'
    BY <2>1 DEF OvCheck, OvWholeInv
  <2>4. OvCopyInv'
    <3>1. \A n : OvSame(n)' <=> OvSame(n)
      BY DEF OvCheck, OvSame
    <3>2. \A q \in OvReaders \ {r} : ovReader'[q] = ovReader[q]
      BY <1>1, OvCheckReader
    <3>3. ovReader'[r].pc \in {"first", "second", "check"} =>
            ovReader'[r].pc = "first" /\ OvSame(ovReader'[r].seq)
      BY <1>1, OvCheckReader
    <3>4. ovClaimed' = ovClaimed
      BY DEF OvCheck
    <3> QED BY <2>1, <3>1, <3>2, <3>3, <3>4 DEF OvCopyInv
  <2>5. OvNoTornItem'
    <3> DEFINE n == ovReader[r].seq
    <3>1. ASSUME OvSame(n) PROVE ovReader[r].item = <<n, n>>
      <4>1. ovReader[r].item[1] = n /\ ovReader[r].item[2] = n
        BY <2>1, <3>1 DEF OvCheck, OvCopyInv
      <4>2. ovReader[r].item \in OvWords
        BY <1>1 DEF OvTypes
      <4> QED BY <4>1, <4>2 DEF OvWords
    <3>2. OvSame(n) => ovGot'[r].seq = n /\ ovGot'[r].item = ovReader[r].item
      BY <1>1 DEF OvCheck, OvTypes
    <3>3. ~OvSame(n) => ovGot'[r] = ovGot[r]
      BY DEF OvCheck
    <3>4. \A q \in OvReaders \ {r} : ovGot'[q] = ovGot[q]
      BY <1>1 DEF OvCheck, OvTypes
    <3> QED BY <2>1, <3>1, <3>2, <3>3, <3>4 DEF OvNoTornItem
  <2> QED BY <2>2, <2>3, <2>4, <2>5
<1>7. ovLapped' \in BOOLEAN
  BY <1>2 DEF OvTypes, OvTypeOK
<1> QED BY <1>2, <1>3, <1>4, <1>5, <1>6, <1>7 DEF OvInv

\* Every step keeps the invariant.
LEMMA OvKeeps == OvInv /\ [OvNext]_ovVars => OvInv'
<1> SUFFICES ASSUME OvInv, [OvNext]_ovVars PROVE OvInv'
  OBVIOUS
<1>1. CASE \E w \in OvWriters : OvClaim(w) \/ OvWriterStep(w)
  BY <1>1, OvClaimKeeps, OvMarkKeeps, OvWriteKeeps, OvTooBigKeeps, OvPublishKeeps DEF OvWriterStep
<1>2. CASE \E r \in OvReaders : OvReaderStep(r) \/ \E try \in BOOLEAN : OvCall(r, try)
  BY <1>2, OvCallKeeps, OvLookKeeps, OvStarveKeeps, OvCopyKeeps, OvCheckKeeps DEF OvReaderStep
<1>3. CASE UNCHANGED ovVars
  BY <1>3 DEF ovVars, OvInv, OvTypes, OvTypeOK, OvClaimInv, OvBusy, OvSlotInv, OvWritten,
              OvReaderInv, OvAloneInv, OvWholeInv, OvCopyInv, OvSame, OvNoTornItem
<1> QED BY <1>1, <1>2, <1>3 DEF OvNext

\* The strengthened invariant holds in every state: see its parts in OverwritingRing.
THEOREM OvInductive == OvSpec => []OvInv
BY OvInitInv, OvKeeps, PTL DEF OvSpec

\* A reader returns no torn item, however the writers overtake it, unless a writer was
\* lapped by another one (MemRingBufferRt.hpp take, tryTake: the number is read again
\* behind the copy).
THEOREM OvItemsWhole == OvSpec => []OvSafety
<1>1. OvInv => OvSafety
  BY DEF OvInv, OvTypes, OvSafety, OvNoTornItem
<1> QED BY <1>1, OvInductive, PTL

\* What a reader returns comes after what it returned before, and its result says so.
LEMMA OvFifoStep ==
  ASSUME OvInv, [OvNext]_ovVars, NEW r \in OvReaders, ovGot'[r] # ovGot[r]
  PROVE  /\ ovGot'[r].seq > ovGot[r].seq
         /\ ovGot'[r].result = 1 <=> ovGot'[r].seq = ovGot[r].seq + 1
<1>1. OvTypes /\ OvReaderInv
  BY DEF OvInv
<1>2. OvCheck(r)
  <2>1. ovGot' # ovGot
    OBVIOUS
  <2>2. PICK q \in OvReaders : OvCheck(q)
    BY <2>1 DEF OvNext, ovVars, OvWriterStep, OvReaderStep, OvClaim, OvMark, OvWrite, OvTooBig,
                OvPublish, OvCall, OvLook, OvStarve, OvCopy
  <2> QED BY <1>1, <2>2 DEF OvCheck, OvTypes
<1> DEFINE n == ovReader[r].seq
<1>3. ovGot'[r].seq = n /\ ovGot'[r].result = OvResult(r, n)
  BY <1>1, <1>2 DEF OvCheck, OvTypes
<1>4. n >= ovRecord[r] /\ ovRecord[r] = ovGot[r].seq + 1 /\ n \in Nat /\ ovGot[r].seq \in Int
  BY <1>1, <1>2 DEF OvCheck, OvReaderInv, OvTypes, OvTypeOK
<1> QED BY <1>3, <1>4 DEF OvResult

\* What a reader passes over in one step is a whole round behind the writers.
LEMMA OvMissedStep ==
  ASSUME OvInv, [OvNext]_ovVars, NEW r \in OvReaders,
         ovReader'[r].seq > ovReader[r].seq, ovReader[r].pc # "idle", ~ovLapped,
         NEW n \in ovReader[r].seq .. ovReader'[r].seq - 1
  PROVE  n + OvCapacity < ovClaimed
<1>1. OvTypes /\ OvReaderInv /\ OvSlotInv /\ OvCopyInv
  BY DEF OvInv
<1>2. OvLook(r) \/ OvCheck(r)
  <2>1. ovReader'[r] # ovReader[r]
    <3>1. ovReader[r].seq \in Nat
      BY <1>1 DEF OvTypes, OvTypeOK
    <3> QED BY <3>1
  <2>2. CASE \E w \in OvWriters : OvClaim(w) \/ OvWriterStep(w)
    BY <2>1, <2>2 DEF OvWriterStep, OvClaim, OvMark, OvWrite, OvTooBig, OvPublish
  <2>3. ASSUME NEW q \in OvReaders, NEW try \in BOOLEAN, OvCall(q, try) PROVE FALSE
    BY <1>1, <2>1, <2>3, OvCallReader DEF OvCall
  <2>4. ASSUME NEW q \in OvReaders, OvStarve(q) PROVE FALSE
    BY <1>1, <2>1, <2>4 DEF OvStarve, OvTypes, OvIdleReader
  <2>5. ASSUME NEW q \in OvReaders, OvCopy(q) PROVE FALSE
    BY <1>1, <2>1, <2>5 DEF OvCopy, OvTypes
  <2>6. ASSUME NEW q \in OvReaders, OvLook(q) \/ OvCheck(q) PROVE q = r
    BY <1>1, <2>1, <2>6, OvLookReader, OvCheckReader
  <2>7. CASE UNCHANGED ovVars
    BY <2>1, <2>7 DEF ovVars
  <2> QED BY <2>2, <2>3, <2>4, <2>5, <2>6, <2>7 DEF OvNext, OvReaderStep
<1> DEFINE m == ovReader[r].seq
<1>3. m \in Nat /\ ovClaimed \in Nat /\ n \in Int /\ m <= n /\ OvCapacity \in Nat
  BY <1>1, OvAssumption DEF OvTypes, OvTypeOK
<1>4. CASE OvLook(r)
  <2>1. OvMissed(m) /\ ovReader'[r].seq = OvSkip(m)
    BY <1>1, <1>3, <1>4, OvLookReader
  <2>2. m + OvCapacity < ovClaimed
    <3> DEFINE k == ovSeq[OvSlot(m)]
    <3>1. k \in Nat /\ m < k /\ OvSlot(k) = OvSlot(m) /\ k < ovClaimed
      BY <1>1, <1>3, <2>1, OvSlotOf DEF OvMissed, OvSlotInv, OvWritten, OvTypes, OvTypeOK
    <3> QED BY <1>3, <3>1, OvRound
  <2> QED BY <1>3, <2>1, <2>2 DEF OvSkip
<1>5. CASE OvCheck(r)
  <2>1. ~OvSame(m) /\ ovReader'[r].seq = m + 1
    BY <1>1, <1>3, <1>5, OvCheckReader
  <2>2. m + OvCapacity < ovClaimed
    BY <1>1, <1>5, <2>1 DEF OvCopyInv, OvCheck
  <2> QED BY <1>3, <2>1, <2>2
<1> QED BY <1>2, <1>4, <1>5

\* Every reader is served in FIFO order, none twice, tryTake's result tells when items were
\* missed, and what a reader misses was overwritten or is being overwritten
\* (MemRingBufferRt.hpp take, tryTake, the ReadRecord).
THEOREM OvInOrder == OvSpec => OvReads
<1>1. OvInv /\ [OvNext]_ovVars =>
        [\A r \in OvReaders : ovGot'[r] # ovGot[r] =>
           /\ ovGot'[r].seq > ovGot[r].seq
           /\ ovGot'[r].result = 1 <=> ovGot'[r].seq = ovGot[r].seq + 1]_ovVars
  BY OvFifoStep
<1>2. OvInv /\ [OvNext]_ovVars =>
        [\A r \in OvReaders : ovReader'[r].seq > ovReader[r].seq /\ ovReader[r].pc # "idle" =>
           \A n \in ovReader[r].seq .. ovReader'[r].seq - 1 : n + OvCapacity < ovClaimed \/ ovLapped]_ovVars
  BY OvMissedStep
<1>3. OvSpec => [][OvNext]_ovVars
  BY PTL DEF OvSpec
<1> QED BY <1>1, <1>2, <1>3, OvInductive, PTL DEF OvReads, OvFifo, OvOnlyOverwrittenMissed

-----------------------------------------------------------------------------
\* The inductive invariant of RtContext.

\* A call in progress.
RtCallType == [pc : {"idle", "put", "notify"}, todo : Seq(RtQueues), msgs : Seq(Nat),
               how : {"put", "try", "batch"}]

\* The sets the variables range over.
RtRanges ==
  /\ rtServes \in [RtClients -> RtQueues] /\ rtSender \in [RtSenders -> RtCallType]
  /\ rtStore = [q \in RtQueues |-> rtStore[q]]
  /\ rtSize \in [RtQueues -> Nat] /\ rtSeq \in [RtQueues -> Nat]
  /\ rtLog \in [RtQueues -> Seq(Nat)] /\ rtTaken \in [RtQueues -> Seq(Nat)]
  /\ rtPushed \in [RtQueues -> SUBSET Nat] /\ rtDropped \in [RtClients -> Nat]

RtDistinct(s) == \A i, j \in DOMAIN s : s[i] = s[j] => i = j

\* Which of the transports on its list a call has still to visit.
RtDue(s) == IF rtSender[s].pc = "notify" THEN 2 ELSE 1

\* A call visits each transport once with messages that are new there; no call has another's messages.
RtCallOf(s) ==
  /\ rtSender[s].todo # <<>> /\ RtDistinct(rtSender[s].todo)
  /\ rtSender[s].msgs \in Seq(1 .. rtSent) /\ RtDistinct(rtSender[s].msgs)
  /\ Len(rtSender[s].msgs) \in 1 .. RtMaxMsg
  /\ rtSender[s].how # "batch" => Len(rtSender[s].msgs) = 1
  /\ rtSender[s].how = "batch" =>
       \A i \in DOMAIN rtSender[s].todo : Len(rtSender[s].msgs) < RtCapacity[rtSender[s].todo[i]]
  /\ \A i \in DOMAIN rtSender[s].todo : RtDue(s) <= i =>
       ToSet(rtSender[s].msgs) \cap ToSet(rtLog[rtSender[s].todo[i]]) = {}
RtCalls ==
  /\ \A s \in RtSenders : rtSender[s].pc # "idle" => RtCallOf(s)
  /\ \A s, u \in RtSenders : s # u /\ rtSender[s].pc # "idle" /\ rtSender[u].pc # "idle" =>
       ToSet(rtSender[s].msgs) \cap ToSet(rtSender[u].msgs) = {}

\* The number of messages of a transport that were taken or pushed out.
RtGone(q) == rtSeq[q] - rtSize[q]

\* What a transport got is numbered by seq_, and the newest of it stand in their slots.
RtLogOf(q) ==
  /\ rtLog[q] \in Seq(1 .. rtSent) /\ RtDistinct(rtLog[q]) /\ Len(rtLog[q]) = rtSeq[q]
  /\ rtSize[q] <= rtSeq[q] /\ rtSize[q] <= RtCapacity[q]
  /\ \A i \in 1 .. rtSeq[q] : RtGone(q) < i => rtStore[q][(i - 1) % RtCapacity[q]] = rtLog[q][i]
RtLogs == \A q \in RtQueues : RtLogOf(q)

\* What is gone was either taken, in order, or pushed out.
RtOutOf(q) ==
  /\ ToSet(rtTaken[q]) \cup rtPushed[q] = {rtLog[q][i] : i \in 1 .. RtGone(q)}
  /\ ToSet(rtTaken[q]) \cap rtPushed[q] = {}
  /\ \A i, j \in DOMAIN rtTaken[q] : i < j =>
       \E a, b \in 1 .. RtGone(q) : a < b /\ rtTaken[q][i] = rtLog[q][a] /\ rtTaken[q][j] = rtLog[q][b]
RtOuts == \A q \in RtQueues : RtOutOf(q)

\* A client that was let go is on its way out and marked as such.
RtLeaving == {"out", "drain", "done"}
RtDropOf(c) ==
  /\ rtThread[c] = "out" => ~rtStillIn[c]
  /\ ~rtStillIn[c] => rtThread[c] \in RtLeaving
  /\ rtStillIn[c] /\ rtThread[c] # "done" => rtDropped[c] = 0
  /\ rtDropped[c] <= 1
RtDrops == \A c \in RtClients : RtDropOf(c)

RtInv ==
  RtTypeOK /\ RtRanges /\ RtCalls /\ RtLogs /\ RtOuts /\ RtNobodySleepsInVain /\ RtDrops

-----------------------------------------------------------------------------
\* A set of naturals has a least element.
LEMMA RtLeast == ASSUME NEW T \in SUBSET Nat, T # {} PROVE \E n \in T : \A m \in T : n <= m
<1>1. IsWellFoundedOn(OpToRel(<, Nat), Nat)
  BY NatLessThanWellFounded
<1>2. PICK x \in T : \A y \in T : ~ (<<y, x>> \in OpToRel(<, Nat))
  BY <1>1, WFMin
<1>3. \A y \in T : <<y, x>> \in Nat \X Nat
  OBVIOUS
<1>4. \A y \in T : ~ (y < x)
  BY <1>2, <1>3 DEF OpToRel
<1> QED BY <1>4

\* Induction: a set with 0 and every successor has all naturals.
LEMMA RtNatSet == ASSUME NEW P, 0 \in P, \A n \in Nat : n \in P => n + 1 \in P PROVE Nat \subseteq P
<1> SUFFICES ASSUME Nat \ P # {} PROVE FALSE
  OBVIOUS
<1>1. PICK n \in Nat \ P : \A m \in Nat \ P : n <= m
  BY RtLeast
<1>2. n # 0 /\ n - 1 \in Nat
  BY <1>1
<1>3. n - 1 \in P
  BY <1>1, <1>2
<1> QED BY <1>1, <1>2, <1>3

RtAscending(S) == {s \in [1 .. Cardinality(S) -> S] : \A i, j \in DOMAIN s : i < j => s[i] < s[j]}

\* Each set of transports can be put in order.
LEMMA RtCanBeOrdered == \A n \in Nat : \A S \in SUBSET (1 .. n) : RtAscending(S) # {}
<1> DEFINE P == {n \in Nat : \A S \in SUBSET (1 .. n) : RtAscending(S) # {}}
<1>1. 0 \in P
  <2>1. \A S \in SUBSET (1 .. 0) : S = {} /\ Cardinality(S) = 0
    <3>1. 1 .. 0 = {}
      OBVIOUS
    <3> QED BY <3>1, FS_EmptySet
  <2>2. \A S \in SUBSET (1 .. 0) : [i \in 1 .. 0 |-> 0] \in RtAscending(S)
    BY <2>1 DEF RtAscending
  <2> QED BY <2>2
<1>2. ASSUME NEW n \in Nat, n \in P PROVE n + 1 \in P
  <2>1. ASSUME NEW S \in SUBSET (1 .. n + 1) PROVE RtAscending(S) # {}
    <3>1. CASE n + 1 \notin S
      <4>1. S \in SUBSET (1 .. n)
        BY <3>1
      <4> QED BY <1>2, <4>1
    <3>2. CASE n + 1 \in S
      <4>0. S \ {n + 1} \in SUBSET (1 .. n)
        OBVIOUS
      <4>1. PICK T \in SUBSET (1 .. n) : T = S \ {n + 1}
        BY <4>0
      <4>2. IsFiniteSet(S) /\ IsFiniteSet(T)
        BY FS_Interval, FS_Subset, 1 \in Int, n + 1 \in Int, n \in Int
      <4>3. Cardinality(T) = Cardinality(S) - 1 /\ Cardinality(S) \in Nat /\ Cardinality(T) \in Nat
        BY <3>2, <4>1, <4>2, FS_RemoveElement, FS_CardinalityType
      <4>4. RtAscending(T) # {}
        BY <1>2
      <4>5. PICK s \in [1 .. Cardinality(T) -> T] : \A i, j \in DOMAIN s : i < j => s[i] < s[j]
        BY <4>4 DEF RtAscending
      <4>6. PICK z : z = [i \in 1 .. Cardinality(S) |-> IF i = Cardinality(S) THEN n + 1 ELSE s[i]]
        OBVIOUS
      <4>7. \A i \in 1 .. Cardinality(S) : i # Cardinality(S) => i \in 1 .. Cardinality(T) /\ s[i] \in T
        BY <4>3, <4>5
      <4>8. \A i \in 1 .. Cardinality(S) : z[i] = IF i = Cardinality(S) THEN n + 1 ELSE s[i]
        BY <4>6
      <4>9. z \in [1 .. Cardinality(S) -> S]
        BY <3>2, <4>1, <4>6, <4>7
      <4>10. ASSUME NEW i \in 1 .. Cardinality(S), NEW j \in 1 .. Cardinality(S), i < j
             PROVE  z[i] < z[j]
        <5>1. i # Cardinality(S) /\ z[i] = s[i] /\ s[i] \in 1 .. n
          <6>1. i # Cardinality(S)
            BY <4>3, <4>10
          <6> QED BY <4>1, <4>7, <4>8, <6>1
        <5>2. CASE j = Cardinality(S)
          BY <4>8, <5>1, <5>2
        <5>3. CASE j # Cardinality(S)
          <6>1. i \in DOMAIN s /\ j \in DOMAIN s
            BY <4>5, <4>7, <5>1, <5>3
          <6> QED BY <4>5, <4>8, <4>10, <5>1, <5>3, <6>1
        <5> QED BY <5>2, <5>3
      <4> QED BY <4>9, <4>10 DEF RtAscending
    <3> QED BY <3>1, <3>2
  <2> QED BY <2>1
<1> HIDE DEF P
<1>3. Nat \subseteq P
  BY <1>1, <1>2, RtNatSet
<1> QED BY <1>3 DEF P

\* RtInOrder lists the transports of a set, each once.
LEMMA RtInOrderLists ==
  ASSUME NEW S \in SUBSET RtQueues
  PROVE  /\ RtInOrder(S) \in Seq(RtQueues) /\ RtDistinct(RtInOrder(S))
         /\ \A i \in DOMAIN RtInOrder(S) : RtInOrder(S)[i] \in S
<1>1. IsFiniteSet(RtQueues) /\ Cardinality(RtQueues) \in Nat /\ RtQueues = 1 .. Cardinality(RtQueues)
  BY RtAssumption, FS_CardinalityType
<1>2. Cardinality(S) \in Nat
  BY <1>1, FS_Subset, FS_CardinalityType
<1>3. RtAscending(S) # {}
  BY <1>1, RtCanBeOrdered
<1>4. /\ RtInOrder(S) \in [1 .. Cardinality(S) -> S]
      /\ \A i, j \in DOMAIN RtInOrder(S) : i < j => RtInOrder(S)[i] < RtInOrder(S)[j]
  BY <1>3 DEF RtInOrder, RtAscending
<1>5. \A i \in DOMAIN RtInOrder(S) : i \in Int /\ RtInOrder(S)[i] \in Int
  BY <1>1, <1>4
<1>6. RtDistinct(RtInOrder(S))
  BY <1>4, <1>5 DEF RtDistinct
<1>7. RtInOrder(S) \in Seq(RtQueues)
  BY <1>2, <1>4, SeqDef
<1> QED BY <1>4, <1>6, <1>7

\* Two lists without a common transport make one without a repetition.
LEMMA RtTwoLists ==
  ASSUME NEW A \in SUBSET RtQueues, NEW B \in SUBSET RtQueues, A \cap B = {}
  PROVE  /\ RtInOrder(A) \o RtInOrder(B) \in Seq(RtQueues)
         /\ RtDistinct(RtInOrder(A) \o RtInOrder(B))
<1>1. PICK a \in Seq(RtQueues) : a = RtInOrder(A) /\ RtDistinct(a) /\ \A i \in DOMAIN a : a[i] \in A
  BY RtInOrderLists
<1>2. PICK b \in Seq(RtQueues) : b = RtInOrder(B) /\ RtDistinct(b) /\ \A i \in DOMAIN b : b[i] \in B
  BY RtInOrderLists
<1>3. /\ a \o b \in Seq(RtQueues) /\ Len(a \o b) = Len(a) + Len(b)
      /\ \A i \in 1 .. Len(a) + Len(b) : (a \o b)[i] = IF i <= Len(a) THEN a[i] ELSE b[i - Len(a)]
  BY ConcatProperties
<1>4. /\ DOMAIN a = 1 .. Len(a) /\ DOMAIN b = 1 .. Len(b) /\ DOMAIN (a \o b) = 1 .. Len(a) + Len(b)
      /\ Len(a) \in Nat /\ Len(b) \in Nat
  BY <1>3, LenProperties
<1>5. \A i \in 1 .. Len(a) + Len(b) : IF i <= Len(a) THEN i \in DOMAIN a ELSE i - Len(a) \in DOMAIN b
  BY <1>4
<1>6. ASSUME NEW i \in 1 .. Len(a) + Len(b), NEW j \in 1 .. Len(a) + Len(b), (a \o b)[i] = (a \o b)[j]
      PROVE  i = j
  <2>1. CASE i <= Len(a) /\ j <= Len(a)
    BY <1>1, <1>3, <1>5, <1>6, <2>1 DEF RtDistinct
  <2>2. CASE ~(i <= Len(a)) /\ ~(j <= Len(a))
    <3>1. i - Len(a) = j - Len(a)
      BY <1>2, <1>3, <1>5, <1>6, <2>2 DEF RtDistinct
    <3> QED BY <1>4, <3>1
  <2>3. CASE i <= Len(a) /\ ~(j <= Len(a))
    BY <1>1, <1>2, <1>3, <1>5, <1>6, <2>3
  <2>4. CASE ~(i <= Len(a)) /\ j <= Len(a)
    BY <1>1, <1>2, <1>3, <1>5, <1>6, <2>4
  <2> QED BY <2>1, <2>2, <2>3, <2>4
<1>7. RtDistinct(a \o b)
  BY <1>4, <1>6 DEF RtDistinct
<1> QED BY <1>1, <1>2, <1>3, <1>7

\* Of no transport is a trivial type registered twice, as bytes and as itself.
LEMMA RtEntriesApart ==
  ASSUME NEW t \in RtTrivial PROVE RtEntries("JustBytes") \cap RtEntries(t) = {}
BY RtAssumption DEF RtEntries, RtRealInterests

\* The transports a message visits are all different.
LEMMA RtTargetsDiffer ==
  ASSUME NEW t \in RtTypes, NEW pred \in BOOLEAN
  PROVE  /\ RtTargets(t, pred) \in Seq(RtQueues) /\ RtDistinct(RtTargets(t, pred))
         /\ RtBytesTargets(t) \in Seq(RtQueues) /\ RtDistinct(RtBytesTargets(t))
<1>1. /\ RtEntries("JustBytes") \in SUBSET RtQueues /\ RtEntries(t) \in SUBSET RtQueues
      /\ t \in RtTrivial => RtEntries("JustBytes") \cap RtEntries(t) = {}
  BY RtEntriesApart DEF RtEntries
<1>2. RtTargets(t, pred) \in Seq(RtQueues) /\ RtDistinct(RtTargets(t, pred))
  <2>1. PICK A \in SUBSET RtQueues : A = {q \in (IF t \in RtTrivial THEN RtUntilTooSmall(RtEntries("JustBytes"), t) ELSE {}) :
                                           pred => t \in RtPred[q]}
    BY <1>1 DEF RtUntilTooSmall
  <2>2. PICK B \in SUBSET RtQueues : B = {q \in (IF RtThrows(t) THEN {} ELSE RtEntries(t)) :
                                           pred => t \in RtPred[q]}
    BY <1>1
  <2>3. A \cap B = {}
    BY <1>1, <2>1, <2>2 DEF RtUntilTooSmall
  <2>4. RtTargets(t, pred) = RtInOrder(A) \o RtInOrder(B)
    BY <2>1, <2>2 DEF RtTargets, RtFiltered
  <2> QED BY <2>3, <2>4, RtTwoLists
<1>3. RtBytesTargets(t) \in Seq(RtQueues) /\ RtDistinct(RtBytesTargets(t))
  <2>1. PICK A \in SUBSET RtQueues : A = {q \in RtEntries("JustBytes") : TRUE => t \in RtPred[q]}
    BY <1>1
  <2>2. PICK B \in SUBSET RtQueues : B = {q \in (IF t \in RtTrivial THEN RtEntries(t) ELSE {}) :
                                           TRUE => t \in RtPred[q]}
    BY <1>1
  <2>3. A \cap B = {}
    BY <1>1, <2>1, <2>2
  <2>4. RtBytesTargets(t) = RtInOrder(A) \o RtInOrder(B)
    BY <2>1, <2>2 DEF RtBytesTargets, RtFiltered
  <2> QED BY <2>3, <2>4, RtTwoLists
<1> QED BY <1>2, <1>3

-----------------------------------------------------------------------------
\* The invariant holds at first.
LEMMA RtInitInv == ASSUME RtInit PROVE RtInv
<1> USE DEF RtInit, RtIdle
<1>0. /\ RtQueues \subseteq Nat /\ RtCapacity \in [RtQueues -> Nat \ {0}] /\ RtMaxMsg \in Nat
      /\ RtDeployments \subseteq [RtClients -> RtQueues]
  BY RtAssumption, FS_CardinalityType
<1>1. RtTypeOK
  <2>1. \A q \in RtQueues : rtStore[q] \in [0 .. RtCapacity[q] - 1 -> 0 .. RtMaxMsg] /\ rtSize[q] \in 0 .. RtCapacity[q]
    BY <1>0
  <2>2. /\ rtSeq \in [RtQueues -> 0 .. RtMaxMsg] /\ rtSent \in 0 .. RtMaxMsg
        /\ rtSleeping \subseteq RtClients /\ rtCounted \subseteq RtClients
        /\ rtThread \in [RtClients -> {"new", "created", "loop", "take", "asleep", "handle", "out", "drain", "done"}]
    BY <1>0
  <2>3. rtStillIn \in [RtClients -> BOOLEAN]
    OBVIOUS
  <2>4. rtStopped \in BOOLEAN
    BY Zenon
  <2> QED BY ONLY <2>1, <2>2, <2>3, <2>4 DEF RtTypeOK
<1>2. RtRanges
  <2>1. rtServes \in [RtClients -> RtQueues] /\ rtStore = [q \in RtQueues |-> rtStore[q]]
    BY <1>0
  <2>2. rtSender \in [RtSenders -> RtCallType]
    BY DEF RtCallType
  <2>3. /\ rtSize \in [RtQueues -> Nat] /\ rtSeq \in [RtQueues -> Nat]
        /\ rtPushed \in [RtQueues -> SUBSET Nat] /\ rtDropped \in [RtClients -> Nat]
    OBVIOUS
  <2>4. rtLog \in [RtQueues -> Seq(Nat)] /\ rtTaken \in [RtQueues -> Seq(Nat)]
    OBVIOUS
  <2> QED BY <2>1, <2>2, <2>3, <2>4 DEF RtRanges
<1>3. RtCalls
  BY DEF RtCalls
<1>4. RtLogs
  <2>1. ASSUME NEW q \in RtQueues PROVE RtLogOf(q)
    BY <1>0 DEF RtLogOf, RtDistinct, RtGone
  <2> QED BY <2>1 DEF RtLogs
<1>5. RtOuts
  <2>1. ASSUME NEW q \in RtQueues PROVE RtOutOf(q)
    BY DEF RtOutOf, RtGone, ToSet
  <2> QED BY <2>1 DEF RtOuts
<1>6. RtNobodySleepsInVain /\ RtDrops
  BY DEF RtNobodySleepsInVain, RtDrops, RtDropOf
<1> QED BY <1>1, <1>2, <1>3, <1>4, <1>5, <1>6 DEF RtInv

RtPoints == {"new", "created", "loop", "take", "asleep", "handle", "out", "drain", "done"}

\* A step of a thread that leaves queues and senders alone.
LEMMA RtQuietKeeps ==
  ASSUME RtInv, UNCHANGED rtSendVars, rtSleeping' \subseteq RtClients,
         rtThread' \in [RtClients -> RtPoints], rtStillIn' \in [RtClients -> BOOLEAN],
         rtStopped' \in BOOLEAN, rtCounted' \subseteq RtClients, rtDropped' \in [RtClients -> Nat],
         \A c \in rtSleeping' : c \in rtSleeping \/ rtSize[rtServes[c]] = 0,
         RtDrops'
  PROVE  RtInv'
<1>1. /\ UNCHANGED <<rtServes, rtStore, rtSize, rtSeq, rtLog, rtTaken, rtPushed, rtSender, rtSent>>
      /\ RtTypeOK /\ RtRanges /\ RtCalls /\ RtLogs /\ RtOuts /\ RtNobodySleepsInVain
  BY DEF RtInv, rtSendVars, rtQueueVars
<1>2. RtTypeOK'
  BY <1>1 DEF RtTypeOK, RtPoints
<1>3. RtRanges'
  BY <1>1 DEF RtRanges
<1>4. RtCalls'
  BY <1>1 DEF RtCalls, RtCallOf, RtDue
<1>5. RtLogs' /\ RtOuts'
  BY <1>1 DEF RtLogs, RtLogOf, RtGone, RtOuts, RtOutOf
<1>6. RtNobodySleepsInVain'
  <2>1. ASSUME NEW c \in rtSleeping', rtSize[rtServes[c]] > 0
        PROVE  \E s \in RtSenders : rtSender[s].pc = "notify" /\ Head(rtSender[s].todo) = rtServes[c]
    <3>1. c \in rtSleeping
      BY <2>1
    <3> QED BY <1>1, <2>1, <3>1 DEF RtNobodySleepsInVain
  <2> QED BY <1>1, <2>1 DEF RtNobodySleepsInVain
<1> QED BY <1>2, <1>3, <1>4, <1>5, <1>6 DEF RtInv

\* A thread goes on to a point at which nobody was let go, without a callback that lets go.
LEMMA RtGoKeeps ==
  ASSUME RtInv, NEW c \in RtClients, NEW pc \in RtPoints, RtGo(c, pc),
         pc = "done" => rtDropped[c] <= 1, pc \in {"new", "created", "loop", "take", "asleep", "handle"} => rtThread[c] \notin RtLeaving,
         pc # "out", rtThread[c] # "done",
         UNCHANGED rtDropVars
  PROVE  rtThread' \in [RtClients -> RtPoints] /\ RtDrops'
<1>1. rtThread \in [RtClients -> RtPoints] /\ RtDrops
  BY DEF RtInv, RtTypeOK, RtPoints
<1>2. /\ rtThread' \in [RtClients -> RtPoints] /\ rtThread'[c] = pc
      /\ \A d \in RtClients : d # c => rtThread'[d] = rtThread[d]
  BY <1>1 DEF RtGo
<1>3. UNCHANGED <<rtStillIn, rtDropped>>
  BY DEF rtDropVars
<1>4. ASSUME NEW d \in RtClients PROVE RtDropOf(d)'
  <2>1. RtDropOf(d)
    BY <1>1 DEF RtDrops
  <2>2. CASE d = c
    BY <1>2, <1>3, <2>1, <2>2 DEF RtDropOf, RtLeaving, RtPoints
  <2>3. CASE d # c
    BY <1>2, <1>3, <2>1, <2>3 DEF RtDropOf
  <2> QED BY <2>2, <2>3
<1> QED BY <1>2, <1>4 DEF RtDrops

\* The steps of a client's thread that take nothing from a queue.
RtQuietStep(c) ==
  \/ RtBegin(c) \/ RtBeginThrows(c) \/ RtBeginFails(c) \/ RtLoop(c) \/ RtSleep(c)
  \/ RtTimeout(c) \/ RtHandle(c) \/ RtOut(c)

\* Those steps keep the invariant.
LEMMA RtQuietStepKeeps == ASSUME RtInv, NEW c \in RtClients, RtQuietStep(c) PROVE RtInv'
<1>1. /\ rtSleeping \subseteq RtClients /\ rtCounted \subseteq RtClients /\ rtStopped \in BOOLEAN
      /\ rtStillIn \in [RtClients -> BOOLEAN] /\ rtDropped \in [RtClients -> Nat] /\ RtDropOf(c)
      /\ rtServes \in [RtClients -> RtQueues]
  BY DEF RtInv, RtTypeOK, RtRanges, RtDrops
<1> USE DEF RtPoints, RtLeaving
<1>2. CASE RtBegin(c)
  <2>1. rtThread' \in [RtClients -> RtPoints] /\ RtDrops'
    BY <1>2, RtGoKeeps DEF RtBegin
  <2> QED BY <1>1, <1>2, <2>1, RtQuietKeeps DEF RtBegin, rtDropVars
<1>9. CASE RtBeginThrows(c)
  <2>1. rtThread' \in [RtClients -> RtPoints] /\ RtDrops'
    BY <1>1, <1>9, RtGoKeeps DEF RtBeginThrows, RtDropOf
  <2> QED BY <1>1, <1>9, <2>1, RtQuietKeeps DEF RtBeginThrows, rtDropVars
<1>3. CASE RtBeginFails(c)
  <2>1. rtThread' \in [RtClients -> RtPoints] /\ RtDrops'
    BY <1>1, <1>3, RtGoKeeps DEF RtBeginFails, RtDropOf
  <2> QED BY <1>1, <1>3, <2>1, RtQuietKeeps DEF RtBeginFails, rtDropVars, rtCtxVars
<1>4. CASE RtLoop(c)
  <2>1. PICK pc \in {"drain", "take"} : RtGo(c, pc)
    BY <1>4 DEF RtLoop
  <2>2. rtThread' \in [RtClients -> RtPoints] /\ RtDrops'
    BY <1>4, <2>1, RtGoKeeps DEF RtLoop
  <2> QED BY <1>1, <1>4, <2>2, RtQuietKeeps DEF RtLoop, rtDropVars, rtCtxVars
<1>5. CASE RtSleep(c)
  <2>1. rtThread' \in [RtClients -> RtPoints] /\ RtDrops'
    BY <1>5, RtGoKeeps DEF RtSleep
  <2> QED BY <1>1, <1>5, <2>1, RtQuietKeeps DEF RtSleep, rtDropVars, rtCtxVars
<1>6. CASE RtTimeout(c)
  <2>1. rtThread' \in [RtClients -> RtPoints] /\ RtDrops'
    BY <1>6, RtGoKeeps DEF RtTimeout
  <2> QED BY <1>1, <1>6, <2>1, RtQuietKeeps DEF RtTimeout, rtDropVars, rtCtxVars
<1>7. CASE RtHandle(c)
  <2>1. rtThread' \in [RtClients -> RtPoints] /\ RtDrops'
    BY <1>7, RtGoKeeps DEF RtHandle
  <2> QED BY <1>1, <1>7, <2>1, RtQuietKeeps DEF RtHandle, rtDropVars, rtCtxVars
<1>8. CASE RtOut(c)
  <2>1. PICK pc \in {"drain", "done"} : RtGo(c, pc)
    BY <1>8 DEF RtOut
  <2>2. rtThread' \in [RtClients -> RtPoints] /\ RtDrops'
    BY <1>1, <1>8, <2>1, RtGoKeeps DEF RtOut, RtDropOf
  <2> QED BY <1>1, <1>8, <2>2, RtQuietKeeps DEF RtOut, rtDropVars, rtCtxVars
<1> QED BY <1>2, <1>3, <1>4, <1>5, <1>6, <1>7, <1>8, <1>9 DEF RtQuietStep

\* The callbacks that may let a client go: after an exception, and at the end.
LEMMA RtLetGoKeeps ==
  ASSUME RtInv, NEW c \in RtClients, NEW goes \in BOOLEAN, RtThrow(c, goes) \/ RtDrained(c)
  PROVE  RtInv'
<1>1. /\ rtSleeping \subseteq RtClients /\ rtCounted \subseteq RtClients /\ rtStopped \in BOOLEAN
      /\ rtStillIn \in [RtClients -> BOOLEAN] /\ rtDropped \in [RtClients -> Nat] /\ RtDrops
      /\ rtThread \in [RtClients -> RtPoints]
  BY DEF RtInv, RtTypeOK, RtRanges, RtPoints
<1>2. RtDropOf(c) /\ rtDropped[c] \in Nat
  BY <1>1 DEF RtDrops
<1>3. /\ rtDropped' \in [RtClients -> Nat] /\ rtStillIn' \in [RtClients -> BOOLEAN]
      /\ rtThread' \in [RtClients -> RtPoints]
      /\ \A d \in RtClients : d # c => rtThread'[d] = rtThread[d] /\ rtStillIn'[d] = rtStillIn[d] /\ rtDropped'[d] = rtDropped[d]
  <2>1. CASE RtThrow(c, goes)
    BY <1>1, <2>1 DEF RtThrow, RtGo, RtPoints
  <2>2. CASE RtDrained(c)
    BY <1>1, <2>2 DEF RtDrained, RtGo, RtPoints, RtLastDrop
  <2> QED BY <2>1, <2>2
<1>4. RtDropOf(c)'
  <2>1. CASE RtThrow(c, goes)
    <3>1. rtThread'[c] = (IF goes THEN "out" ELSE "loop") /\ rtStillIn'[c] = ~goes
      BY <1>1, <2>1 DEF RtThrow, RtGo
    <3>2. rtDropped'[c] = IF goes THEN rtDropped[c] + 1 ELSE rtDropped[c]
      BY <1>1, <2>1 DEF RtThrow
    <3>3. rtStillIn[c] /\ rtDropped[c] = 0
      BY <1>1, <1>2, <2>1 DEF RtThrow, RtDropOf, RtLeaving
    <3>4. CASE goes
      <4>1. ~rtStillIn'[c]
        BY <3>1, <3>4, Zenon
      <4>2. rtThread'[c] = "out" /\ rtDropped'[c] = 1
        BY <3>1, <3>2, <3>3, <3>4
      <4> QED BY <4>1, <4>2 DEF RtDropOf, RtLeaving
    <3>5. CASE ~goes
      <4>1. rtStillIn'[c]
        BY <3>1, <3>5, Zenon
      <4>2. rtThread'[c] = "loop" /\ rtDropped'[c] = 0
        BY <3>1, <3>2, <3>3, <3>5
      <4> QED BY <4>1, <4>2 DEF RtDropOf, RtLeaving
    <3> QED BY <3>4, <3>5
  <2>2. CASE RtDrained(c)
    <3>1. rtThread'[c] = "done" /\ rtStillIn'[c] = rtStillIn[c] /\ rtDropped'[c] = rtDropped[c] + RtLastDrop(c)
      BY <1>1, <2>2 DEF RtDrained, RtGo
    <3>2. rtDropped'[c] <= 1
      BY <1>2, <2>2, <3>1 DEF RtDrained, RtDropOf, RtLastDrop
    <3> QED BY <1>2, <3>1, <3>2 DEF RtDropOf, RtLeaving
  <2> QED BY <2>1, <2>2
<1>5. ASSUME NEW d \in RtClients, d # c PROVE RtDropOf(d)'
  BY <1>1, <1>3, <1>5 DEF RtDrops, RtDropOf
<1>6. RtDrops'
  BY <1>4, <1>5 DEF RtDrops
<1>7. UNCHANGED <<rtSendVars, rtSleeping, rtStopped, rtCounted>>
  BY DEF RtThrow, RtDrained, rtCtxVars
<1> QED BY <1>1, <1>3, <1>6, <1>7, RtQuietKeeps

\* A start creates threads, a stop ends the loops.
LEMMA RtUserKeeps == ASSUME RtInv, (\E q \in RtQueues : RtStart(q)) \/ RtStop PROVE RtInv'
<1>1. /\ rtSleeping \subseteq RtClients /\ rtCounted \subseteq RtClients /\ rtStopped \in BOOLEAN
      /\ rtStillIn \in [RtClients -> BOOLEAN] /\ rtDropped \in [RtClients -> Nat] /\ RtDrops
      /\ rtThread \in [RtClients -> RtPoints]
  BY DEF RtInv, RtTypeOK, RtRanges, RtPoints
<1>2. ASSUME NEW q \in RtQueues, RtStart(q) PROVE RtInv'
  <2>1. /\ rtThread' \in [RtClients -> RtPoints]
        /\ \A c \in RtClients : rtThread'[c] = rtThread[c] \/ (rtThread[c] = "new" /\ rtThread'[c] = "created")
    BY <1>1, <1>2 DEF RtStart, RtPoints
  <2>2. UNCHANGED <<rtSendVars, rtSleeping, rtStillIn, rtDropped, rtStopped, rtCounted>>
    BY <1>2 DEF RtStart, rtDropVars
  <2>3. RtDrops'
    BY <1>1, <2>1, <2>2 DEF RtDrops, RtDropOf, RtLeaving
  <2> QED BY <1>1, <2>1, <2>2, <2>3, RtQuietKeeps
<1>3. CASE RtStop
  <2>1. UNCHANGED <<rtSendVars, rtSleeping, rtThread, rtStillIn, rtDropped, rtCounted>> /\ rtStopped' = TRUE
    BY <1>3 DEF RtStop, rtDropVars
  <2>2. RtDrops'
    BY <1>1, <2>1 DEF RtDrops, RtDropOf
  <2> QED BY <1>1, <2>1, <2>2, RtQuietKeeps
<1> QED BY <1>2, <1>3

-----------------------------------------------------------------------------
\* A function on 1 .. n is a sequence of that length.
LEMMA RtSeqOf ==
  ASSUME NEW T, NEW n \in Nat, NEW f \in [1 .. n -> T] PROVE f \in Seq(T) /\ Len(f) = n
<1>1. f \in Seq(T)
  BY SeqDef
<1> QED BY <1>1, LenProperties

\* What is in a sequence.
LEMMA RtInSeq == ASSUME NEW T, NEW f \in Seq(T) PROVE \A i \in DOMAIN f : f[i] \in T
BY LenProperties, ElementOfSeq

\* A sender begins a call.
LEMMA RtCallKeeps ==
  ASSUME RtInv, NEW s \in RtSenders, NEW n \in Nat \ {0}, NEW targets \in Seq(RtQueues),
         RtDistinct(targets), NEW how \in {"put", "try", "batch"}, how # "batch" => n = 1,
         how = "batch" => \A i \in DOMAIN targets : n < RtCapacity[targets[i]],
         RtCall(s, n, targets, how)
  PROVE  RtInv'
<1>0. /\ RtTypeOK /\ RtRanges /\ RtCalls /\ RtLogs /\ RtOuts /\ RtNobodySleepsInVain /\ RtDrops
      /\ UNCHANGED <<rtServes, rtStore, rtSize, rtSeq, rtLog, rtTaken, rtPushed>>
      /\ UNCHANGED <<rtSleeping, rtThread, rtStillIn, rtDropped, rtStopped, rtCounted>>
  BY DEF RtInv, RtCall, rtQueueVars, rtThreadVars, rtDropVars, rtCtxVars
<1>1. rtSent \in Nat /\ RtMaxMsg \in Nat /\ rtSent' = rtSent + n /\ rtSent + n <= RtMaxMsg
  BY <1>0, RtAssumption DEF RtTypeOK, RtCall
<1>2. PICK msgs : msgs = [i \in 1 .. n |-> rtSent + i]
  OBVIOUS
<1>3. /\ msgs \in Seq(1 .. rtSent + n) /\ Len(msgs) = n /\ DOMAIN msgs = 1 .. n
      /\ \A i \in 1 .. n : msgs[i] = rtSent + i
  <2>1. msgs \in [1 .. n -> 1 .. rtSent + n]
    BY <1>1, <1>2
  <2>2. msgs \in Seq(1 .. rtSent + n)
    BY <2>1, RtSeqOf, n \in Nat
  <2>3. Len(msgs) = n
    BY <2>1, RtSeqOf, n \in Nat
  <2> QED BY <1>2, <2>1, <2>2, <2>3
<1>4. msgs \in Seq(Nat)
  BY <1>1, <1>3, SeqMonotonic, 1 .. rtSent + n \subseteq Nat
<1>5. RtDistinct(msgs) /\ \A m \in ToSet(msgs) : m \in Int /\ m > rtSent
  BY <1>1, <1>3 DEF RtDistinct, ToSet
<1>6. PICK call \in RtCallType : call = IF targets = <<>> THEN RtIdle
                                        ELSE [pc |-> "put", todo |-> targets, msgs |-> msgs, how |-> how]
  <2>1. RtIdle \in RtCallType
    BY EmptySeq DEF RtIdle, RtCallType
  <2>2. [pc |-> "put", todo |-> targets, msgs |-> msgs, how |-> how] \in RtCallType
    BY <1>4 DEF RtCallType
  <2> QED BY <2>1, <2>2
<1>7. /\ rtSender' \in [RtSenders -> RtCallType] /\ rtSender'[s] = call /\ rtSender[s].pc = "idle"
      /\ \A u \in RtSenders : u # s => rtSender'[u] = rtSender[u]
  BY <1>0, <1>2, <1>6 DEF RtCall, RtRanges
<1>8. \A q \in RtQueues : /\ rtLog[q] \in Seq(1 .. rtSent) /\ rtLog[q] \in Seq(1 .. rtSent')
                          /\ \A m \in ToSet(rtLog[q]) : m \in Int /\ m <= rtSent
  <2>1. ASSUME NEW q \in RtQueues
        PROVE  /\ rtLog[q] \in Seq(1 .. rtSent) /\ rtLog[q] \in Seq(1 .. rtSent')
               /\ \A m \in ToSet(rtLog[q]) : m \in Int /\ m <= rtSent
    <3>1. rtLog[q] \in Seq(1 .. rtSent)
      BY <1>0 DEF RtLogs, RtLogOf
    <3>2. 1 .. rtSent \subseteq 1 .. rtSent'
      BY <1>1
    <3>3. rtLog[q] \in Seq(1 .. rtSent')
      BY <3>1, <3>2, SeqMonotonic
    <3>4. \A i \in DOMAIN rtLog[q] : rtLog[q][i] \in 1 .. rtSent
      BY <3>1, LenProperties, ElementOfSeq
    <3> QED BY <1>1, <3>1, <3>3, <3>4 DEF ToSet
  <2> QED BY <2>1
<1>9. RtTypeOK'
  <2>1. rtSent' \in 0 .. RtMaxMsg
    BY <1>1
  <2> QED BY <1>0, <2>1 DEF RtTypeOK
<1>10. RtRanges'
  BY <1>0, <1>7 DEF RtRanges
<1>11. RtCalls'
  <2>1. ASSUME NEW u \in RtSenders, rtSender'[u].pc # "idle" PROVE RtCallOf(u)'
    <3>1. CASE u = s
      <4>1. call.pc = "put" /\ call.todo = targets /\ call.msgs = msgs /\ call.how = how /\ targets # <<>>
        BY <1>6, <1>7, <2>1, <3>1 DEF RtIdle
      <4>2. Len(msgs) \in 1 .. RtMaxMsg
        BY <1>1, <1>3
      <4>3. ASSUME NEW i \in DOMAIN targets PROVE ToSet(msgs) \cap ToSet(rtLog[targets[i]]) = {}
        <5>1. targets[i] \in RtQueues
          BY LenProperties, ElementOfSeq
        <5>2. \A m \in ToSet(msgs) : m \notin ToSet(rtLog[targets[i]])
          BY <1>1, <1>5, <1>8, <5>1
        <5> QED BY <5>2
      <4> QED BY <1>0, <1>1, <1>3, <1>5, <1>7, <3>1, <4>1, <4>2, <4>3 DEF RtCallOf
    <3>2. CASE u # s
      <4>1. RtCallOf(u) /\ rtSender'[u] = rtSender[u]
        BY <1>0, <1>7, <2>1, <3>2 DEF RtCalls
      <4>2. 1 .. rtSent \subseteq 1 .. rtSent' /\ rtSender[u].msgs \in Seq(1 .. rtSent)
        BY <1>1, <4>1 DEF RtCallOf
      <4>3. rtSender[u].msgs \in Seq(1 .. rtSent')
        BY <4>2, SeqMonotonic
      <4> QED BY <1>0, <4>1, <4>3 DEF RtCallOf, RtDue
    <3> QED BY <3>1, <3>2
  <2>2. ASSUME NEW u \in RtSenders, u # s, rtSender'[u].pc # "idle", rtSender'[s].pc # "idle"
        PROVE  ToSet(rtSender'[u].msgs) \cap ToSet(rtSender'[s].msgs) = {}
    <3>1. rtSender'[u] = rtSender[u] /\ RtCallOf(u)
      BY <1>0, <1>7, <2>2 DEF RtCalls
    <3>2. rtSender'[s].msgs = msgs
      BY <1>6, <1>7, <2>2 DEF RtIdle
    <3>3. \A i \in DOMAIN rtSender[u].msgs : rtSender[u].msgs[i] \in 1 .. rtSent
      <4>1. rtSender[u].msgs \in Seq(1 .. rtSent)
        BY <3>1 DEF RtCallOf
      <4> QED BY <4>1, RtInSeq
    <3>4. \A m \in ToSet(rtSender[u].msgs) : m \notin ToSet(msgs)
      BY <1>1, <1>5, <3>3 DEF ToSet
    <3> QED BY <3>1, <3>2, <3>4
  <2>3. ASSUME NEW u \in RtSenders, NEW v \in RtSenders, u # v, rtSender'[u].pc # "idle", rtSender'[v].pc # "idle"
        PROVE  ToSet(rtSender'[u].msgs) \cap ToSet(rtSender'[v].msgs) = {}
    <3>1. CASE u = s \/ v = s
      BY <2>2, <2>3, <3>1
    <3>2. CASE u # s /\ v # s
      BY <1>0, <1>7, <2>3, <3>2 DEF RtCalls
    <3> QED BY <3>1, <3>2
  <2> QED BY <2>1, <2>3 DEF RtCalls
<1>12. RtLogs' /\ RtOuts'
  <2>1. ASSUME NEW q \in RtQueues PROVE RtLogOf(q)'
    <3>1. RtLogOf(q)
      BY <1>0 DEF RtLogs
    <3>2. rtLog[q] \in Seq(1 .. rtSent')
      BY <1>8
    <3> QED BY <1>0, <3>1, <3>2 DEF RtLogOf, RtGone
  <2>2. RtOuts'
    BY <1>0 DEF RtOuts, RtOutOf, RtGone
  <2> QED BY <2>1, <2>2 DEF RtLogs
<1>13. RtNobodySleepsInVain'
  <2>1. ASSUME NEW c \in rtSleeping, rtSize[rtServes[c]] > 0
        PROVE  \E u \in RtSenders : rtSender'[u].pc = "notify" /\ Head(rtSender'[u].todo) = rtServes[c]
    <3>1. PICK u \in RtSenders : rtSender[u].pc = "notify" /\ Head(rtSender[u].todo) = rtServes[c]
      BY <1>0, <2>1 DEF RtNobodySleepsInVain
    <3>2. rtSender'[u] = rtSender[u]
      BY <1>7, <3>1
    <3> QED BY <3>1, <3>2
  <2> QED BY <1>0, <2>1 DEF RtNobodySleepsInVain
<1>14. RtDrops'
  BY <1>0 DEF RtDrops, RtDropOf
<1> QED BY <1>9, <1>10, <1>11, <1>12, <1>13, <1>14 DEF RtInv

\* All the calls there are.
LEMMA RtAnyCallKeeps == ASSUME RtInv, NEW s \in RtSenders, RtAnyCall(s) PROVE RtInv'
<1>1. ASSUME NEW t \in RtTypes, RtSend(s, t) \/ RtSendInPlace(s, t) PROVE RtInv'
  <2>1. PICK pred \in BOOLEAN : RtCall(s, 1, RtTargets(t, pred), "put")
    BY <1>1 DEF RtSend, RtSendInPlace
  <2>2. RtTargets(t, pred) \in Seq(RtQueues) /\ RtDistinct(RtTargets(t, pred))
    BY RtTargetsDiffer
  <2> QED BY <2>1, <2>2, RtCallKeeps
<1>2. ASSUME NEW t \in RtTypes, RtTrySend(s, t) \/ RtTrySendInPlace(s, t) PROVE RtInv'
  <2>1. PICK pred \in BOOLEAN : RtCall(s, 1, RtTargets(t, pred), "try")
    BY <1>2 DEF RtTrySend, RtTrySendInPlace
  <2>2. RtTargets(t, pred) \in Seq(RtQueues) /\ RtDistinct(RtTargets(t, pred))
    BY RtTargetsDiffer
  <2> QED BY <2>1, <2>2, RtCallKeeps
<1>3. ASSUME NEW t \in RtTypes, RtSendJustBytes(s, t) PROVE RtInv'
  <2>1. RtBytesTargets(t) \in Seq(RtQueues) /\ RtDistinct(RtBytesTargets(t))
    BY RtTargetsDiffer, TRUE \in BOOLEAN
  <2> QED BY <1>3, <2>1, RtCallKeeps DEF RtSendJustBytes
<1>4. ASSUME NEW t \in RtTypes, NEW n \in RtBatches, RtSendRange(s, t, n) PROVE RtInv'
  <2>1. RtTargets(t, TRUE) \in Seq(RtQueues) /\ RtDistinct(RtTargets(t, TRUE)) /\ n \in Nat \ {0}
    BY RtTargetsDiffer, RtAssumption, TRUE \in BOOLEAN
  <2> QED BY <1>4, <2>1, RtCallKeeps DEF RtSendRange
<1> QED BY <1>1, <1>2, <1>3, <1>4 DEF RtAnyCall

-----------------------------------------------------------------------------
\* A call goes on, waits to notify, or is given up: it still visits each transport once.
LEMMA RtCallsGoOn ==
  ASSUME RtRanges, RtCalls, NEW s \in RtSenders, rtSender[s].pc # "idle", rtSent' = rtSent,
         NEW to, to \in {RtIdle, RtOnward(s), [rtSender[s] EXCEPT !.pc = "notify"]},
         rtSender' = [rtSender EXCEPT ![s] = to],
         \A q \in RtQueues : ToSet(rtLog'[q]) \subseteq ToSet(rtLog[q]) \cup ToSet(rtSender[s].msgs),
         \A i \in DOMAIN rtSender[s].todo : 2 <= i => rtLog'[rtSender[s].todo[i]] = rtLog[rtSender[s].todo[i]]
  PROVE  rtSender' \in [RtSenders -> RtCallType] /\ RtCalls'
<1>1. /\ rtSender \in [RtSenders -> RtCallType] /\ rtSender[s] \in RtCallType /\ RtCallOf(s)
      /\ rtSender[s].todo \in Seq(RtQueues)
  BY DEF RtRanges, RtCalls, RtCallType
<1>2. PICK todo \in Seq(RtQueues) : todo = rtSender[s].todo /\ todo # <<>> /\ RtDistinct(todo)
  BY <1>1 DEF RtCallOf
<1>3. PICK msgs \in Seq(1 .. rtSent) : msgs = rtSender[s].msgs
  BY <1>1 DEF RtCallOf
<1>4. /\ Tail(todo) \in Seq(RtQueues) /\ Len(Tail(todo)) = Len(todo) - 1 /\ Len(todo) \in Nat \ {0}
      /\ DOMAIN todo = 1 .. Len(todo) /\ DOMAIN Tail(todo) = 1 .. Len(todo) - 1
      /\ \A i \in 1 .. Len(todo) - 1 : Tail(todo)[i] = todo[i + 1]
  BY <1>2, HeadTailProperties, LenProperties, EmptySeq
<1>5. /\ to \in RtCallType
      /\ to.pc # "idle" => to.msgs = msgs /\ to.how = rtSender[s].how
      /\ to.pc = "notify" => to.todo = todo
      /\ to.pc = "put" => to.todo = Tail(todo) /\ Len(todo) # 1
      /\ to.pc \in {"idle", "notify", "put"}
  <2>0. rtSender[s] \in RtCallType /\ RtIdle \in RtCallType
    BY <1>1, EmptySeq DEF RtIdle, RtCallType
  <2>1. CASE to = RtIdle
    BY <2>0, <2>1 DEF RtIdle
  <2>2. CASE to = [rtSender[s] EXCEPT !.pc = "notify"]
    BY <1>2, <1>3, <2>0, <2>2 DEF RtCallType
  <2>3. CASE to = RtOnward(s)
    <3>1. CASE Len(todo) = 1
      BY <1>2, <2>0, <2>3, <3>1 DEF RtOnward, RtIdle
    <3>2. CASE Len(todo) # 1
      <4>1. to = [rtSender[s] EXCEPT !.pc = "put", !.todo = Tail(@)]
        BY <1>2, <2>3, <3>2 DEF RtOnward
      <4>2. /\ rtSender[s] = [pc |-> rtSender[s].pc, todo |-> todo, msgs |-> msgs, how |-> rtSender[s].how]
            /\ rtSender[s].how \in {"put", "try", "batch"} /\ msgs \in Seq(Nat)
        BY <1>2, <1>3, <2>0 DEF RtCallType
      <4>3. to = [pc |-> "put", todo |-> Tail(todo), msgs |-> msgs, how |-> rtSender[s].how]
        BY <1>2, <1>3, <4>1, <4>2
      <4> QED BY <1>4, <3>2, <4>2, <4>3 DEF RtCallType
    <3> QED BY <3>1, <3>2
  <2> QED BY <2>1, <2>2, <2>3
<1>6. /\ rtSender' \in [RtSenders -> RtCallType] /\ rtSender'[s] = to
      /\ \A u \in RtSenders : u # s => rtSender'[u] = rtSender[u]
  BY <1>1, <1>5
<1>7. ASSUME NEW i \in 1 .. Len(todo), 2 <= i PROVE ToSet(msgs) \cap ToSet(rtLog'[todo[i]]) = {}
  <2>1. rtLog'[todo[i]] = rtLog[todo[i]]
    BY <1>2, <1>4, <1>7
  <2>2. RtDue(s) <= i
    BY <1>7 DEF RtDue
  <2>3. ToSet(msgs) \cap ToSet(rtLog[todo[i]]) = {}
    BY <1>1, <1>2, <1>3, <1>4, <2>2 DEF RtCallOf
  <2> QED BY <2>1, <2>3
<1>8. ASSUME to.pc # "idle" PROVE RtCallOf(s)'
  <2>1. /\ to.msgs = msgs /\ to.how = rtSender[s].how /\ msgs \in Seq(1 .. rtSent') /\ RtDistinct(msgs)
        /\ Len(msgs) \in 1 .. RtMaxMsg
        /\ to.how # "batch" => Len(msgs) = 1
        /\ to.how = "batch" => \A i \in 1 .. Len(todo) : Len(msgs) < RtCapacity[todo[i]]
    BY <1>1, <1>2, <1>3, <1>4, <1>5, <1>8 DEF RtCallOf
  <2>2. CASE to.pc = "notify"
    BY <1>2, <1>4, <1>5, <1>6, <1>7, <2>1, <2>2 DEF RtCallOf, RtDue
  <2>3. CASE to.pc = "put"
    <3>1. to.todo = Tail(todo) /\ Len(todo) # 1 /\ Tail(todo) # <<>>
      <4>1. to.todo = Tail(todo) /\ Len(todo) # 1 /\ Len(Tail(todo)) # 0
        BY <1>4, <1>5, <2>3
      <4>2. Len(<<>>) = 0
        BY EmptySeq
      <4> QED BY <4>1, <4>2
    <3>2. \A i \in DOMAIN Tail(todo) : i + 1 \in 1 .. Len(todo) /\ 2 <= i + 1 /\ Tail(todo)[i] = todo[i + 1]
      BY <1>4
    <3>3. RtDistinct(Tail(todo))
      <4>1. ASSUME NEW i \in DOMAIN Tail(todo), NEW j \in DOMAIN Tail(todo), Tail(todo)[i] = Tail(todo)[j]
            PROVE  i = j
        <5>1. i + 1 = j + 1
          BY <1>2, <1>4, <3>2, <4>1 DEF RtDistinct
        <5> QED BY <1>4, <5>1
      <4> QED BY <4>1 DEF RtDistinct
    <3>4. \A i \in DOMAIN Tail(todo) : ToSet(msgs) \cap ToSet(rtLog'[Tail(todo)[i]]) = {}
      BY <1>7, <3>2
    <3>5. to.how = "batch" => \A i \in DOMAIN Tail(todo) : Len(msgs) < RtCapacity[Tail(todo)[i]]
      BY <2>1, <3>2
    <3> QED BY <1>6, <2>1, <3>1, <3>3, <3>4, <3>5 DEF RtCallOf
  <2> QED BY <1>5, <1>8, <2>2, <2>3
<1>9. ASSUME NEW u \in RtSenders, u # s, rtSender'[u].pc # "idle" PROVE RtCallOf(u)'
  <2>1. /\ RtCallOf(u) /\ rtSender'[u] = rtSender[u]
        /\ ToSet(rtSender[u].msgs) \cap ToSet(msgs) = {} /\ rtSender[u].todo \in Seq(RtQueues)
    BY <1>3, <1>6, <1>9 DEF RtCalls, RtRanges, RtCallType
  <2>2. ASSUME NEW i \in DOMAIN rtSender[u].todo, RtDue(u) <= i
        PROVE  ToSet(rtSender[u].msgs) \cap ToSet(rtLog'[rtSender[u].todo[i]]) = {}
    <3>1. rtSender[u].todo[i] \in RtQueues
      BY <2>1, RtInSeq
    <3>2. ToSet(rtSender[u].msgs) \cap ToSet(rtLog[rtSender[u].todo[i]]) = {}
      BY <2>1, <2>2 DEF RtCallOf
    <3> QED BY <1>3, <2>1, <3>1, <3>2
  <2> QED BY <2>1, <2>2 DEF RtCallOf, RtDue
<1>10. ASSUME NEW u \in RtSenders, NEW v \in RtSenders, u # v, rtSender'[u].pc # "idle", rtSender'[v].pc # "idle"
       PROVE  ToSet(rtSender'[u].msgs) \cap ToSet(rtSender'[v].msgs) = {}
  <2>1. \A x \in {u, v} : rtSender'[x].msgs = rtSender[x].msgs /\ rtSender[x].pc # "idle"
    BY <1>3, <1>5, <1>6, <1>10
  <2> QED BY <1>10, <2>1 DEF RtCalls
<1> QED BY <1>6, <1>8, <1>9, <1>10 DEF RtCalls

\* A step that leaves the queues alone.
LEMMA RtQueuesKept ==
  ASSUME RtLogs, RtOuts, UNCHANGED <<rtStore, rtSize, rtSeq, rtLog, rtTaken, rtPushed, rtSent>>
  PROVE  RtLogs' /\ RtOuts'
<1>1. ASSUME NEW q \in RtQueues PROVE RtLogOf(q)' /\ RtOutOf(q)'
  <2>1. RtLogOf(q) /\ RtOutOf(q)
    BY DEF RtLogs, RtOuts
  <2>2. RtLogOf(q)'
    BY <2>1 DEF RtLogOf, RtGone
  <2> QED BY <2>1, <2>2 DEF RtOutOf, RtGone
<1> QED BY <1>1 DEF RtLogs, RtOuts

\* trySend gives up, or a sender has notified.
LEMMA RtSenderKeeps ==
  ASSUME RtInv, NEW s \in RtSenders, RtTryFails(s) \/ RtNotify(s) PROVE RtInv'
<1>0. /\ RtTypeOK /\ RtRanges /\ RtCalls /\ RtLogs /\ RtOuts /\ RtNobodySleepsInVain /\ RtDrops
      /\ UNCHANGED <<rtServes, rtStore, rtSize, rtSeq, rtLog, rtTaken, rtPushed, rtSent>>
      /\ UNCHANGED <<rtThread, rtStillIn, rtDropped, rtStopped, rtCounted>>
  BY DEF RtInv, RtTryFails, RtNotify, rtQueueVars, rtThreadVars, rtDropVars, rtCtxVars
<1>1. PICK to : /\ to \in {RtIdle, RtOnward(s), [rtSender[s] EXCEPT !.pc = "notify"]}
                /\ rtSender' = [rtSender EXCEPT ![s] = to]
  BY DEF RtTryFails, RtNotify
<1>2. rtSender[s].pc # "idle"
  BY DEF RtTryFails, RtNotify
<1>3. rtSender' \in [RtSenders -> RtCallType] /\ RtCalls'
  BY <1>0, <1>1, <1>2, RtCallsGoOn
<1>4. RtLogs' /\ RtOuts'
  BY <1>0, RtQueuesKept
<1>5. RtNobodySleepsInVain'
  <2>1. ASSUME NEW c \in rtSleeping', rtSize[rtServes[c]] > 0
        PROVE  \E u \in RtSenders : rtSender'[u].pc = "notify" /\ Head(rtSender'[u].todo) = rtServes[c]
    <3>1. c \in rtSleeping
      BY <2>1 DEF RtTryFails, RtNotify, rtThreadVars
    <3>2. PICK u \in RtSenders : rtSender[u].pc = "notify" /\ Head(rtSender[u].todo) = rtServes[c]
      BY <1>0, <2>1, <3>1 DEF RtNobodySleepsInVain
    <3>3. u # s
      BY <2>1, <3>2 DEF RtTryFails, RtNotify
    <3>4. rtSender'[u] = rtSender[u]
      BY <1>0, <1>1, <3>3 DEF RtRanges
    <3> QED BY <3>2, <3>4
  <2> QED BY <1>0, <2>1 DEF RtNobodySleepsInVain
<1>6. RtTypeOK'
  <2>1. rtSleeping' \subseteq RtClients
    BY <1>0 DEF RtTypeOK, RtTryFails, RtNotify, rtThreadVars
  <2> QED BY <1>0, <2>1 DEF RtTypeOK
<1>7. RtRanges' /\ RtDrops'
  BY <1>0, <1>3 DEF RtRanges, RtDrops, RtDropOf
<1> QED BY <1>3, <1>4, <1>5, <1>6, <1>7 DEF RtInv

-----------------------------------------------------------------------------
\* The oldest item is taken.
LEMMA RtTakeKeeps ==
  ASSUME RtInv, NEW q \in RtQueues, RtTakeFrom(q), rtSleeping' \subseteq rtSleeping,
         rtThread' \in [RtClients -> RtPoints], RtDrops',
         UNCHANGED <<rtStillIn, rtDropped, rtStopped, rtCounted>>
  PROVE  RtInv'
<1>0. /\ RtTypeOK /\ RtRanges /\ RtCalls /\ RtLogs /\ RtOuts /\ RtNobodySleepsInVain /\ RtDrops
      /\ UNCHANGED <<rtServes, rtStore, rtSeq, rtLog, rtPushed, rtSender, rtSent>>
  BY DEF RtInv, RtTakeFrom
<1>1. RtLogOf(q) /\ RtOutOf(q)
  BY <1>0 DEF RtLogs, RtOuts
<1>2. /\ rtSize[q] \in Nat /\ rtSeq[q] \in Nat /\ rtSize[q] > 0 /\ rtSize[q] <= rtSeq[q]
      /\ rtSize[q] <= RtCapacity[q] /\ RtCapacity[q] \in Nat
  BY <1>0, <1>1, RtAssumption DEF RtRanges, RtTakeFrom, RtLogOf
<1>3. PICK g \in Nat : g = rtSeq[q] - rtSize[q]
  BY <1>2
<1>4. /\ rtSize' \in [RtQueues -> Nat] /\ rtSize'[q] = rtSize[q] - 1
      /\ \A p \in RtQueues : p # q => rtSize'[p] = rtSize[p]
  BY <1>0, <1>2 DEF RtTakeFrom, RtRanges
<1>5. /\ RtGone(q) = g /\ RtGone(q)' = g + 1 /\ g + 1 \in 1 .. rtSeq[q]
  BY <1>0, <1>2, <1>3, <1>4 DEF RtGone
<1>6. /\ rtLog[q] \in Seq(Nat) /\ DOMAIN rtLog[q] = 1 .. rtSeq[q]
      /\ \A i \in 1 .. rtSeq[q] : rtLog[q][i] \in Nat
  BY <1>0, <1>1, LenProperties, RtInSeq DEF RtRanges, RtLogOf
<1>7. RtItem(q, rtSeq[q] - rtSize[q]) = rtLog[q][g + 1]
  <2>1. rtStore[q][(g + 1 - 1) % RtCapacity[q]] = rtLog[q][g + 1]
    BY <1>1, <1>3, <1>5 DEF RtLogOf
  <2> QED BY <1>3, <2>1 DEF RtItem
<1>8. PICK m \in Nat : m = rtLog[q][g + 1]
  BY <1>5, <1>6
<1>9. /\ rtTaken' \in [RtQueues -> Seq(Nat)] /\ rtTaken'[q] = Append(rtTaken[q], m)
      /\ \A p \in RtQueues : p # q => rtTaken'[p] = rtTaken[p]
  <2>1. rtTaken' = [rtTaken EXCEPT ![q] = Append(@, m)]
    BY <1>7, <1>8 DEF RtTakeFrom
  <2>2. rtTaken \in [RtQueues -> Seq(Nat)]
    BY <1>0 DEF RtRanges
  <2>3. Append(rtTaken[q], m) \in Seq(Nat)
    BY <2>2
  <2> QED BY <2>1, <2>2, <2>3
<1>10. PICK taken \in Seq(Nat) : taken = rtTaken[q]
  BY <1>0 DEF RtRanges
<1>11. /\ Append(taken, m) \in Seq(Nat) /\ DOMAIN Append(taken, m) = 1 .. Len(taken) + 1
       /\ Len(taken) \in Nat /\ DOMAIN taken = 1 .. Len(taken)
       /\ Append(taken, m)[Len(taken) + 1] = m
       /\ \A i \in 1 .. Len(taken) : Append(taken, m)[i] = taken[i]
  BY AppendProperties, LenProperties
<1>12. RtTypeOK'
  <2>1. rtSize'[q] \in 0 .. RtCapacity[q]
    BY <1>2, <1>4
  <2>2. \A p \in RtQueues : rtSize'[p] \in 0 .. RtCapacity[p]
    BY <1>0, <1>4, <2>1 DEF RtTypeOK
  <2>3. rtSleeping' \subseteq RtClients
    BY <1>0 DEF RtTypeOK
  <2> QED BY <1>0, <2>2, <2>3 DEF RtTypeOK, RtPoints
<1>13. RtRanges'
  BY <1>0, <1>4, <1>9 DEF RtRanges
<1>14. RtCalls'
  BY <1>0 DEF RtCalls, RtCallOf, RtDue
<1>15. RtLogs'
  <2>1. RtLogOf(q)'
    <3>1. \A i \in 1 .. rtSeq[q] : g + 1 < i => g < i
      BY <1>3
    <3>2. \A i \in 1 .. rtSeq[q] : g < i => rtStore[q][(i - 1) % RtCapacity[q]] = rtLog[q][i]
      BY <1>1, <1>5 DEF RtLogOf
    <3>3. rtSize'[q] <= rtSeq[q] /\ rtSize'[q] <= RtCapacity[q]
      BY <1>2, <1>4
    <3>4. rtLog[q] \in Seq(1 .. rtSent) /\ RtDistinct(rtLog[q]) /\ Len(rtLog[q]) = rtSeq[q]
      BY <1>1 DEF RtLogOf
    <3> QED BY <1>0, <1>5, <3>1, <3>2, <3>3, <3>4 DEF RtLogOf
  <2>2. ASSUME NEW p \in RtQueues, p # q PROVE RtLogOf(p)'
    <3>1. RtLogOf(p) /\ rtSize'[p] = rtSize[p]
      BY <1>0, <1>4, <2>2 DEF RtLogs
    <3> QED BY <1>0, <3>1 DEF RtLogOf, RtGone
  <2> QED BY <2>1, <2>2 DEF RtLogs
<1>16. RtOuts'
  <2>1. RtOutOf(q)'
    <3>1. ToSet(Append(taken, m)) = ToSet(taken) \cup {m}
      BY <1>11 DEF ToSet
    <3>2. {rtLog[q][i] : i \in 1 .. g + 1} = {rtLog[q][i] : i \in 1 .. g} \cup {m}
      BY <1>8
    <3>3. ToSet(taken) \cup rtPushed[q] = {rtLog[q][i] : i \in 1 .. g} /\ ToSet(taken) \cap rtPushed[q] = {}
      BY <1>1, <1>5, <1>10 DEF RtOutOf
    <3>4. m \notin rtPushed[q]
      <4>1. \A i \in 1 .. g : i \in DOMAIN rtLog[q] /\ g + 1 \in DOMAIN rtLog[q] /\ i # g + 1
        BY <1>2, <1>5, <1>6
      <4>2. \A i \in 1 .. g : rtLog[q][i] # m
        BY <1>1, <1>8, <4>1 DEF RtLogOf, RtDistinct
      <4> QED BY <3>3, <4>2
    <3>5. ASSUME NEW i \in 1 .. Len(taken) + 1, NEW j \in 1 .. Len(taken) + 1, i < j
          PROVE  \E a, b \in 1 .. g + 1 : /\ a < b /\ Append(taken, m)[i] = rtLog[q][a]
                                          /\ Append(taken, m)[j] = rtLog[q][b]
      <4>1. CASE j = Len(taken) + 1
        <5>1. i \in 1 .. Len(taken) /\ Append(taken, m)[i] = taken[i] /\ Append(taken, m)[j] = m
          BY <1>11, <3>5, <4>1
        <5>2. taken[i] \in ToSet(taken)
          BY <1>11, <5>1 DEF ToSet
        <5>3. PICK a \in 1 .. g : taken[i] = rtLog[q][a]
          BY <3>3, <5>2
        <5>4. a \in 1 .. g + 1 /\ g + 1 \in 1 .. g + 1 /\ a < g + 1
          OBVIOUS
        <5> QED BY <1>8, <5>1, <5>3, <5>4
      <4>2. CASE j # Len(taken) + 1
        <5>1. /\ i \in DOMAIN taken /\ j \in DOMAIN taken
              /\ Append(taken, m)[i] = taken[i] /\ Append(taken, m)[j] = taken[j]
          BY <1>11, <3>5, <4>2
        <5>2. PICK a \in 1 .. g, b \in 1 .. g : a < b /\ taken[i] = rtLog[q][a] /\ taken[j] = rtLog[q][b]
          BY <1>1, <1>5, <1>10, <3>5, <5>1 DEF RtOutOf
        <5>3. a \in 1 .. g + 1 /\ b \in 1 .. g + 1
          OBVIOUS
        <5> QED BY <5>1, <5>2, <5>3
      <4> QED BY <4>1, <4>2
    <3>8. rtTaken'[q] = Append(taken, m) /\ rtPushed'[q] = rtPushed[q] /\ rtLog'[q] = rtLog[q]
      BY <1>0, <1>9, <1>10
    <3>6. /\ ToSet(rtTaken'[q]) \cup rtPushed'[q] = {rtLog'[q][i] : i \in 1 .. g + 1}
          /\ ToSet(rtTaken'[q]) \cap rtPushed'[q] = {}
      BY <3>1, <3>2, <3>3, <3>4, <3>8
    <3>7. ASSUME NEW i \in DOMAIN rtTaken'[q], NEW j \in DOMAIN rtTaken'[q], i < j
          PROVE  \E a, b \in 1 .. g + 1 : a < b /\ rtTaken'[q][i] = rtLog'[q][a] /\ rtTaken'[q][j] = rtLog'[q][b]
      <4>1. i \in 1 .. Len(taken) + 1 /\ j \in 1 .. Len(taken) + 1
        BY <1>11, <3>8
      <4>2. PICK a \in 1 .. g + 1, b \in 1 .. g + 1 :
              a < b /\ Append(taken, m)[i] = rtLog[q][a] /\ Append(taken, m)[j] = rtLog[q][b]
        BY <3>5, <3>7, <4>1
      <4> QED BY <3>8, <4>2
    <3> QED BY <1>5, <3>6, <3>7 DEF RtOutOf
  <2>2. ASSUME NEW p \in RtQueues, p # q PROVE RtOutOf(p)'
    <3>1. RtOutOf(p) /\ rtSize'[p] = rtSize[p] /\ rtTaken'[p] = rtTaken[p]
      BY <1>0, <1>4, <1>9, <2>2 DEF RtOuts
    <3> QED BY <1>0, <3>1 DEF RtOutOf, RtGone
  <2> QED BY <2>1, <2>2 DEF RtOuts
<1>17. RtNobodySleepsInVain'
  <2>1. ASSUME NEW c \in rtSleeping', rtSize'[rtServes[c]] > 0
        PROVE  \E u \in RtSenders : rtSender[u].pc = "notify" /\ Head(rtSender[u].todo) = rtServes[c]
    <3>1. c \in RtClients /\ c \in rtSleeping /\ rtServes[c] \in RtQueues
      BY <1>0 DEF RtTypeOK, RtRanges
    <3>2. rtSize[rtServes[c]] > 0
      BY <1>2, <1>4, <2>1, <3>1
    <3> QED BY <1>0, <3>1, <3>2 DEF RtNobodySleepsInVain
  <2> QED BY <1>0, <2>1 DEF RtNobodySleepsInVain
<1> QED BY <1>12, <1>13, <1>14, <1>15, <1>16, <1>17 DEF RtInv

\* The steps that take: of a client, at the end of its life, and by hand.
LEMMA RtTakerKeeps ==
  ASSUME RtInv, NEW c \in RtClients, RtTryTake(c) \/ RtDrain(c)
  PROVE  RtInv'
<1>1. PICK pc \in {"handle", "drain"} : /\ RtGo(c, pc) /\ rtThread[c] # "done"
                                        /\ pc = "handle" => rtThread[c] \notin RtLeaving
  BY DEF RtTryTake, RtDrain, RtTakeInto, RtLeaving
<1>2. /\ RtTakeFrom(rtServes[c]) /\ UNCHANGED rtDropVars /\ UNCHANGED rtCtxVars
      /\ rtSleeping' \subseteq rtSleeping
  BY DEF RtTryTake, RtDrain, RtTakeInto
<1>3. rtServes[c] \in RtQueues
  BY DEF RtInv, RtRanges
<1>4. rtThread' \in [RtClients -> RtPoints] /\ RtDrops'
  <2>1. pc \in RtPoints /\ pc # "done" /\ pc # "out"
    BY DEF RtPoints
  <2> QED BY <1>1, <1>2, <2>1, RtGoKeeps
<1>5. UNCHANGED <<rtStillIn, rtDropped, rtStopped, rtCounted>>
  BY <1>2 DEF rtDropVars, rtCtxVars
<1> QED BY <1>2, <1>3, <1>4, <1>5, RtTakeKeeps

\* runOnce takes as a client's thread does.
LEMMA RtRunOnceKeeps == ASSUME RtInv, NEW q \in RtQueues, RtRunOnce(q) PROVE RtInv'
<1>1. /\ RtTakeFrom(q) /\ UNCHANGED <<rtSleeping, rtThread, rtStillIn, rtDropped, rtStopped, rtCounted>>
  BY DEF RtRunOnce, rtThreadVars, rtDropVars, rtCtxVars
<1>2. rtThread' \in [RtClients -> RtPoints] /\ RtDrops'
  BY <1>1 DEF RtInv, RtTypeOK, RtPoints, RtDrops, RtDropOf
<1> QED BY <1>1, <1>2, RtTakeKeeps

-----------------------------------------------------------------------------
\* A number below the modulus is its own remainder.
LEMMA RtSmall == ASSUME NEW a \in Nat, NEW w \in Nat, a < w PROVE a % w = a
OBVIOUS

\* How many are pushed out: no more than there are, and only to a queue that gets full.
LEMMA RtPushOutsAre ==
  ASSUME NEW q \in RtQueues, NEW n \in Nat \ {0}, n <= RtMaxMsg, NEW how \in {"put", "try", "batch"},
         rtSize[q] \in 0 .. RtCapacity[q], how # "batch" => n = 1, how = "batch" => n < RtCapacity[q],
         how = "try" => rtSize[q] < RtCapacity[q]
  PROVE  /\ RtPushOuts(q, n, how) \in 0 .. rtSize[q]
         /\ rtSize[q] - RtPushOuts(q, n, how) + n <= RtCapacity[q]
         /\ (rtSize[q] - RtPushOuts(q, n, how) + n) % RtWord = rtSize[q] - RtPushOuts(q, n, how) + n
         /\ RtPushOuts(q, n, how) > 0 =>
              rtSize[q] - RtPushOuts(q, n, how) + n = RtCapacity[q] - (IF how = "batch" THEN 1 ELSE 0)
<1>1. /\ RtCapacity[q] \in Nat \ {0} /\ RtMaxMsg \in Nat /\ RtWord \in Nat
      /\ RtWord > RtCapacity[q] + RtMaxMsg
  BY RtAssumption
<1>2. PICK cap \in Nat \ {0} : cap = RtCapacity[q]
  BY <1>1
<1>3. PICK size \in 0 .. cap : size = rtSize[q]
  BY <1>2
<1>4. ASSUME NEW j \in 0 .. size + n PROVE (size - j + n) % RtWord = size - j + n
  <2>1. size - j + n \in Nat /\ size - j + n < RtWord
    BY <1>1, <1>2, <1>3
  <2> QED BY <1>1, <2>1, RtSmall
<1>5. PICK least \in 0 .. size : /\ size + n < cap => least = 0
                                 /\ cap <= size + n => least = size + n - (IF how = "batch" THEN cap - 1 ELSE cap)
  <2>1. cap <= size + n => size + n - (IF how = "batch" THEN cap - 1 ELSE cap) \in 0 .. size
    BY <1>2, <1>3
  <2> QED BY <1>2, <1>3, <2>1
<1>6. RtPushOuts(q, n, how) = least \/ (how = "try" /\ RtPushOuts(q, n, how) = 0)
      \/ (how = "put" /\ size + 1 <= cap /\ RtPushOuts(q, n, how) = 0)
  <2>1. CASE how = "batch"
    <3>1. \A j \in 0 .. size + n : cap <= size - j + n <=> j < least
      BY <1>2, <1>3, <1>5, <2>1
    <3>2. \A j \in 0 .. size + n : RtCapacity[q] <= (rtSize[q] - j + n) % RtWord <=> j < least
      BY <1>2, <1>3, <1>4, <3>1
    <3>3. /\ least \in 0 .. RtWord /\ least \in 0 .. size + n
          /\ \A j \in 0 .. least - 1 : j \in 0 .. size + n
      BY <1>1, <1>2, <1>3, <1>5
    <3>4. /\ least \in 0 .. RtWord /\ ~(RtCapacity[q] <= (rtSize[q] - least + n) % RtWord)
          /\ \A j \in 0 .. least - 1 : RtCapacity[q] <= (rtSize[q] - j + n) % RtWord
      BY <3>2, <3>3
    <3>5. \A k \in 0 .. RtWord :
            /\ ~(RtCapacity[q] <= (rtSize[q] - k + n) % RtWord)
            /\ \A j \in 0 .. k - 1 : RtCapacity[q] <= (rtSize[q] - j + n) % RtWord
            => k = least
      <4>1. ASSUME NEW k \in 0 .. RtWord, ~(RtCapacity[q] <= (rtSize[q] - k + n) % RtWord),
                   \A j \in 0 .. k - 1 : RtCapacity[q] <= (rtSize[q] - j + n) % RtWord
            PROVE  k = least
        <5>1. ~(k < least)
          <6>1. k < least => k \in 0 .. size + n
            BY <3>3
          <6> QED BY <3>2, <4>1, <6>1
        <5>2. ~(least < k)
          <6>1. least < k => least \in 0 .. k - 1
            BY <3>3
          <6> QED BY <3>4, <4>1, <6>1
        <5> QED BY <1>1, <5>1, <5>2
      <4> QED BY <4>1
    <3>6. RtPushOuts(q, n, how)
            = CHOOSE k \in 0 .. RtWord :
                /\ ~(RtCapacity[q] <= (rtSize[q] - k + n) % RtWord)
                /\ \A j \in 0 .. k - 1 : RtCapacity[q] <= (rtSize[q] - j + n) % RtWord
      BY <2>1 DEF RtPushOuts
    <3> QED BY <3>4, <3>5, <3>6
  <2>2. CASE how = "try"
    BY <2>2 DEF RtPushOuts
  <2>3. CASE how = "put"
    <3>1. RtPushOuts(q, n, how) = IF RtCapacity[q] <= rtSize[q] THEN 1 ELSE 0
      BY <2>3 DEF RtPushOuts
    <3> QED BY <1>2, <1>3, <1>5, <2>3, <3>1
  <2> QED BY <2>1, <2>2, <2>3
<1>7. PICK k \in 0 .. size : /\ k = RtPushOuts(q, n, how) /\ size - k + n <= cap
                             /\ k > 0 => size - k + n = cap - (IF how = "batch" THEN 1 ELSE 0)
  <2>1. CASE RtPushOuts(q, n, how) = least
    BY <1>2, <1>3, <1>5, <2>1
  <2>2. CASE RtPushOuts(q, n, how) = 0 /\ size + 1 <= cap /\ n = 1
    BY <1>2, <1>3, <2>2
  <2> QED BY <1>2, <1>3, <1>6, <2>1, <2>2
<1>8. k \in 0 .. size + n
  BY <1>3
<1> QED BY <1>2, <1>3, <1>4, <1>7, <1>8

-----------------------------------------------------------------------------
\* Not more messages than there are numbers.
LEMMA RtFewEnough ==
  ASSUME NEW m \in Nat, NEW f \in Seq(1 .. m), RtDistinct(f) PROVE Len(f) <= m
<1>1. Len(f) \in Nat /\ f \in [1 .. Len(f) -> 1 .. m] /\ DOMAIN f = 1 .. Len(f)
  BY LenProperties
<1>2. /\ IsFiniteSet(1 .. m) /\ Cardinality(1 .. m) = m
      /\ IsFiniteSet(1 .. Len(f)) /\ Cardinality(1 .. Len(f)) = Len(f)
  <2>1. \A n \in Nat : IsFiniteSet(1 .. n) /\ Cardinality(1 .. n) = n
    BY FS_Interval
  <2> QED BY <1>1, <2>1
<1>3. ASSUME Cardinality(1 .. m) < Cardinality(1 .. Len(f)) PROVE FALSE
  <2>1. \E x, y \in 1 .. Len(f) : x # y /\ f[x] = f[y]
    BY <1>1, <1>2, <1>3, FS_PigeonHole
  <2> QED BY <1>1, <2>1 DEF RtDistinct
<1> QED BY <1>1, <1>2, <1>3

\* A put: the transport, the messages and how many are pushed out.
RtPuts(s, q, msgs, n, k) ==
  /\ rtSender[s].pc = "put" /\ rtSender[s].todo # <<>> /\ q = rtSender[s].todo[1]
  /\ q = Head(rtSender[s].todo) /\ msgs = rtSender[s].msgs
  /\ n = Len(msgs) /\ n \in 1 .. RtCapacity[q] /\ k <= rtSize[q] /\ rtSize[q] - k + n <= RtCapacity[q]
  /\ k > 0 => rtSize[q] - k + n = RtCapacity[q] - (IF rtSender[s].how = "batch" THEN 1 ELSE 0)
  /\ rtPushed' = [rtPushed EXCEPT ![q] = @ \cup {RtItem(q, rtSeq[q] - rtSize[q] + j) : j \in 0 .. k - 1}]
  /\ rtStore' = [rtStore EXCEPT ![q] = RtFilled(q, msgs)]
  /\ rtSeq' = [rtSeq EXCEPT ![q] = @ + n]
  /\ rtSize' = [rtSize EXCEPT ![q] = rtSize[q] - k + n]
  /\ rtLog' = [rtLog EXCEPT ![q] = @ \o msgs]
  /\ rtSender' = [rtSender EXCEPT ![s] =
       IF rtSize[q] - k + n = n THEN [rtSender[s] EXCEPT !.pc = "notify"] ELSE RtOnward(s)]

\* putInPlace, putBatchInPlace and tryPut do that: size_ never wraps.
LEMMA RtPutIs ==
  ASSUME RtInv, NEW s \in RtSenders, RtPut(s)
  PROVE  \E q \in RtQueues, msgs \in Seq(1 .. rtSent), n \in Nat, k \in Nat : RtPuts(s, q, msgs, n, k)
<1>0. RtTypeOK /\ RtRanges /\ RtCalls /\ rtSender[s].pc = "put"
  BY DEF RtInv, RtPut
<1>1. RtCallOf(s) /\ rtSender[s] \in RtCallType /\ rtSender[s].todo \in Seq(RtQueues)
  BY <1>0 DEF RtCalls, RtRanges, RtCallType
<1>2. PICK todo \in Seq(RtQueues) : todo = rtSender[s].todo /\ todo # <<>>
  BY <1>1 DEF RtCallOf
<1>3. Head(todo) \in RtQueues /\ Head(todo) = todo[1] /\ 1 \in DOMAIN todo
  BY <1>2, HeadTailProperties, EmptySeq, LenProperties
<1>4. PICK q \in RtQueues : q = Head(rtSender[s].todo)
  BY <1>2, <1>3
<1>5. PICK msgs \in Seq(1 .. rtSent) : msgs = rtSender[s].msgs /\ Len(msgs) \in 1 .. RtMaxMsg
  BY <1>1 DEF RtCallOf
<1>6. PICK n \in Nat \ {0} : n = Len(msgs) /\ n <= RtMaxMsg
  BY <1>5, RtAssumption
<1>7. PICK how \in {"put", "try", "batch"} : how = rtSender[s].how
  BY <1>1 DEF RtCallType
<1>8. how # "batch" => n = 1
  BY <1>1, <1>5, <1>6, <1>7 DEF RtCallOf
<1>9. how = "batch" => n < RtCapacity[q]
  BY <1>1, <1>2, <1>3, <1>4, <1>5, <1>6, <1>7 DEF RtCallOf
<1>10. how = "try" => rtSize[q] < RtCapacity[q]
  BY <1>4, <1>7 DEF RtPut
<1>11. rtSize[q] \in 0 .. RtCapacity[q] /\ RtCapacity[q] \in Nat \ {0}
  BY <1>0, RtAssumption DEF RtTypeOK
<1>12. PICK k \in 0 .. rtSize[q] :
         /\ k = RtPushOuts(q, n, how) /\ rtSize[q] - k + n <= RtCapacity[q]
         /\ (rtSize[q] - k + n) % RtWord = rtSize[q] - k + n
         /\ k > 0 => rtSize[q] - k + n = RtCapacity[q] - (IF how = "batch" THEN 1 ELSE 0)
  BY <1>6, <1>8, <1>9, <1>10, <1>11, RtPushOutsAre
<1>13. k \in Nat /\ k <= rtSize[q] /\ n \in 1 .. RtCapacity[q]
  BY <1>6, <1>8, <1>9, <1>11, <1>12
<1>14. rtPushed' = [rtPushed EXCEPT ![q] = @ \cup {RtItem(q, rtSeq[q] - rtSize[q] + j) : j \in 0 .. k - 1}]
  BY <1>4, <1>5, <1>6, <1>7, <1>12 DEF RtPut
<1>15. /\ rtStore' = [rtStore EXCEPT ![q] = RtFilled(q, msgs)]
       /\ rtSeq' = [rtSeq EXCEPT ![q] = @ + n] /\ rtLog' = [rtLog EXCEPT ![q] = @ \o msgs]
  BY <1>4, <1>5, <1>6 DEF RtPut
<1>16. rtSize' = [rtSize EXCEPT ![q] = rtSize[q] - k + n]
  BY <1>4, <1>5, <1>6, <1>7, <1>12 DEF RtPut
<1>17. rtSender' = [rtSender EXCEPT ![s] =
         IF rtSize[q] - k + n = n THEN [rtSender[s] EXCEPT !.pc = "notify"] ELSE RtOnward(s)]
  BY <1>4, <1>5, <1>6, <1>7, <1>12 DEF RtPut, RtNotifies
<1>18. RtPuts(s, q, msgs, n, k)
  BY <1>0, <1>2, <1>3, <1>4, <1>5, <1>6, <1>7, <1>12, <1>13, <1>14, <1>15, <1>16, <1>17 DEF RtPuts
<1> QED BY <1>13, <1>18

\* What a sequence with another behind it consists of.
LEMMA RtConcat ==
  ASSUME NEW T, NEW a \in Seq(T), NEW b \in Seq(T), NEW l \in Nat, l = Len(a), NEW n \in Nat, n = Len(b)
  PROVE  /\ a \o b \in Seq(T) /\ Len(a \o b) = l + n
         /\ DOMAIN a = 1 .. l /\ DOMAIN b = 1 .. n /\ DOMAIN (a \o b) = 1 .. l + n
         /\ \A i \in 1 .. l : (a \o b)[i] = a[i]
         /\ \A i \in l + 1 .. l + n : (a \o b)[i] = b[i - l]
         /\ ToSet(a \o b) = ToSet(a) \cup ToSet(b)
<1>1. /\ a \o b \in Seq(T) /\ Len(a \o b) = l + n
      /\ \A i \in 1 .. l + n : (a \o b)[i] = IF i <= l THEN a[i] ELSE b[i - l]
  BY ConcatProperties
<1>2. DOMAIN a = 1 .. l /\ DOMAIN b = 1 .. n /\ DOMAIN (a \o b) = 1 .. l + n
  BY <1>1, LenProperties
<1>3. \A i \in 1 .. l : i \in 1 .. l + n /\ i <= l
  OBVIOUS
<1>4. \A i \in l + 1 .. l + n : i \in 1 .. l + n /\ ~(i <= l) /\ i - l \in 1 .. n
  OBVIOUS
<1>5. \A j \in 1 .. n : l + j \in l + 1 .. l + n /\ l + j - l = j
  OBVIOUS
<1>6. \A i \in 1 .. l + n : i \in 1 .. l \/ i \in l + 1 .. l + n
  OBVIOUS
<1>7. \A i \in 1 .. l : (a \o b)[i] = a[i]
  BY <1>1, <1>3
<1>8. \A i \in l + 1 .. l + n : (a \o b)[i] = b[i - l]
  BY <1>1, <1>4
<1>9. ToSet(a \o b) \subseteq ToSet(a) \cup ToSet(b)
  <2>1. ASSUME NEW m \in ToSet(a \o b) PROVE m \in ToSet(a) \cup ToSet(b)
    <3>1. PICK i \in 1 .. l + n : m = (a \o b)[i]
      BY <1>2, <2>1 DEF ToSet
    <3>2. CASE i \in 1 .. l
      BY <1>2, <1>7, <3>1, <3>2 DEF ToSet
    <3>3. CASE i \in l + 1 .. l + n
      <4>1. m = b[i - l] /\ i - l \in DOMAIN b
        BY <1>2, <1>4, <1>8, <3>1, <3>3
      <4> QED BY <4>1 DEF ToSet
    <3> QED BY <1>6, <3>2, <3>3
  <2> QED BY <2>1
<1>10. ToSet(a) \subseteq ToSet(a \o b)
  <2>1. \A i \in DOMAIN a : i \in DOMAIN (a \o b) /\ a[i] = (a \o b)[i]
    BY <1>2, <1>3, <1>7
  <2> QED BY <2>1 DEF ToSet
<1>11. ToSet(b) \subseteq ToSet(a \o b)
  <2>1. ASSUME NEW j \in 1 .. n PROVE l + j \in DOMAIN (a \o b) /\ b[j] = (a \o b)[l + j]
    <3>1. l + j \in l + 1 .. l + n /\ l + j - l = j
      BY <1>5
    <3>2. (a \o b)[l + j] = b[l + j - l]
      BY <1>8, <3>1
    <3> QED BY <1>2, <1>4, <3>1, <3>2
  <2>2. \A j \in DOMAIN b : b[j] \in ToSet(a \o b)
    BY <1>2, <2>1 DEF ToSet
  <2> QED BY <2>2 DEF ToSet
<1> QED BY <1>1, <1>2, <1>7, <1>8, <1>9, <1>10, <1>11

\* The numbers a put is about: what is gone, what is there, and the transport's log afterwards.
RtPutNumbers(q, msgs, n, k, g) ==
  /\ g = rtSeq[q] - rtSize[q] /\ g \in Nat /\ rtSize[q] \in Nat /\ rtSeq[q] \in Nat
  /\ n \in 1 .. RtCapacity[q] /\ k \in 0 .. rtSize[q] /\ RtCapacity[q] \in Nat \ {0}
  /\ rtSize[q] - k + n <= RtCapacity[q]
  /\ rtSeq'[q] = rtSeq[q] + n /\ rtSize'[q] = rtSize[q] - k + n
  /\ RtGone(q) = g /\ RtGone(q)' = g + k /\ rtSize'[q] \in Nat /\ rtSeq'[q] \in Nat
  /\ DOMAIN rtLog[q] = 1 .. rtSeq[q] /\ DOMAIN msgs = 1 .. n /\ DOMAIN rtLog'[q] = 1 .. rtSeq[q] + n
  /\ rtLog'[q] \in Seq(1 .. rtSent) /\ Len(rtLog'[q]) = rtSeq[q] + n
  /\ \A i \in 1 .. rtSeq[q] : rtLog'[q][i] = rtLog[q][i]
  /\ \A i \in rtSeq[q] + 1 .. rtSeq[q] + n : rtLog'[q][i] = msgs[i - rtSeq[q]]
  /\ \A i \in 1 .. rtSeq[q] + n : rtLog'[q][i] \in 1 .. rtSent
  /\ ToSet(rtLog'[q]) = ToSet(rtLog[q]) \cup ToSet(msgs)
  /\ rtSent \in Nat

\* What is gone after a put, in numbers.
LEMMA RtBackAndForth ==
  ASSUME NEW a \in Nat, NEW b \in Nat, NEW n \in Nat, NEW k \in 0 .. b, b <= a
  PROVE  k <= b /\ a + n - (b - k + n) = a - b + k /\ b - k + n \in Nat /\ a - b \in Nat /\ a + n \in Nat
OBVIOUS

\* A put's numbers fit together.
LEMMA RtPutCounts ==
  ASSUME RtInv, NEW s \in RtSenders, NEW q \in RtQueues, NEW msgs \in Seq(1 .. rtSent),
         NEW n \in Nat, NEW k \in Nat, RtPuts(s, q, msgs, n, k)
  PROVE  RtPutNumbers(q, msgs, n, k, rtSeq[q] - rtSize[q])
<1>0. RtTypeOK /\ RtRanges /\ RtLogs /\ RtLogOf(q)
  BY DEF RtInv, RtLogs
<1>1. /\ rtSize[q] \in Nat /\ rtSeq[q] \in Nat /\ rtSize[q] <= rtSeq[q] /\ rtSent \in Nat
      /\ rtLog[q] \in Seq(1 .. rtSent) /\ Len(rtLog[q]) = rtSeq[q] /\ RtCapacity[q] \in Nat \ {0}
  BY <1>0, RtAssumption DEF RtTypeOK, RtRanges, RtLogOf
<1>2. /\ n \in 1 .. RtCapacity[q] /\ k \in 0 .. rtSize[q] /\ n = Len(msgs)
      /\ rtSize[q] - k + n <= RtCapacity[q]
  BY <1>1 DEF RtPuts
<1>3. rtSeq'[q] = rtSeq[q] + n /\ rtSize'[q] = rtSize[q] - k + n /\ rtLog'[q] = rtLog[q] \o msgs
  BY <1>0 DEF RtPuts, RtRanges
<1>4. PICK log \in Seq(1 .. rtSent), seq \in Nat : log = rtLog[q] /\ seq = rtSeq[q] /\ seq = Len(log)
  BY <1>1
<1>5. /\ log \o msgs \in Seq(1 .. rtSent) /\ Len(log \o msgs) = seq + n
      /\ DOMAIN log = 1 .. seq /\ DOMAIN msgs = 1 .. n /\ DOMAIN (log \o msgs) = 1 .. seq + n
      /\ \A i \in 1 .. seq : (log \o msgs)[i] = log[i]
      /\ \A i \in seq + 1 .. seq + n : (log \o msgs)[i] = msgs[i - seq]
      /\ ToSet(log \o msgs) = ToSet(log) \cup ToSet(msgs)
  <2>1. log \in Seq(1 .. rtSent) /\ msgs \in Seq(1 .. rtSent) /\ seq = Len(log) /\ n = Len(msgs)
    BY <1>2, <1>4
  <2> QED BY <2>1, RtConcat
<1>9. \A i \in 1 .. seq + n : (log \o msgs)[i] \in 1 .. rtSent
  BY <1>5, RtInSeq
<1>11. rtLog'[q] = log \o msgs
  BY <1>3, <1>4
<1>12. /\ rtSeq[q] - rtSize[q] \in Nat /\ RtGone(q) = rtSeq[q] - rtSize[q]
       /\ RtGone(q)' = rtSeq[q] - rtSize[q] + k /\ rtSize'[q] \in Nat /\ rtSeq'[q] \in Nat
  <2>1. RtGone(q)' = rtSeq'[q] - rtSize'[q]
    BY DEF RtGone
  <2>2. PICK a \in Nat, b \in Nat : a = rtSeq[q] /\ b = rtSize[q] /\ b <= a
    BY <1>1
  <2>3. k <= b /\ a + n - (b - k + n) = a - b + k /\ b - k + n \in Nat /\ a - b \in Nat /\ a + n \in Nat
    <3>1. k \in 0 .. b /\ b <= a
      BY <1>2, <2>2
    <3> QED BY <3>1, RtBackAndForth
  <2>4. RtGone(q) = a - b
    BY <2>2 DEF RtGone
  <2>5. rtSeq'[q] = a + n /\ rtSize'[q] = b - k + n
    BY <1>3, <2>2
  <2>6. RtGone(q)' = a - b + k /\ rtSize'[q] \in Nat /\ rtSeq'[q] \in Nat
    BY <2>1, <2>3, <2>5
  <2> QED BY <2>2, <2>3, <2>4, <2>6
<1> QED BY <1>1, <1>2, <1>3, <1>4, <1>5, <1>9, <1>11, <1>12 DEF RtPutNumbers

\* The newest of the log stand in their slots after a put.
LEMMA RtPutFills ==
  ASSUME RtInv, NEW s \in RtSenders, NEW q \in RtQueues, NEW msgs \in Seq(1 .. rtSent),
         NEW n \in Nat, NEW k \in Nat, NEW g, RtPutNumbers(q, msgs, n, k, g)
  PROVE  \A i \in 1 .. rtSeq[q] + n : g + k < i => RtFilled(q, msgs)[(i - 1) % RtCapacity[q]] = rtLog'[q][i]
<1>1. PICK cap \in Nat \ {0} : cap = RtCapacity[q]
  BY DEF RtPutNumbers
<1>2. PICK seq \in Nat : seq = rtSeq[q]
  BY DEF RtPutNumbers
<1>3. /\ g \in Nat /\ g <= seq /\ n \in 1 .. cap /\ k \in Nat /\ seq - g - k + n <= cap /\ DOMAIN msgs = 1 .. n
      /\ g + k <= seq
  <2>1. /\ g = seq - rtSize[q] /\ g \in Nat /\ rtSize[q] \in Nat /\ n \in 1 .. cap /\ k \in 0 .. rtSize[q]
        /\ rtSize[q] - k + n <= cap /\ DOMAIN msgs = 1 .. n
    BY <1>1, <1>2 DEF RtPutNumbers
  <2>2. PICK size \in Nat : size = rtSize[q]
    BY <2>1
  <2>3. g = seq - size /\ k \in 0 .. size /\ size - k + n <= cap
    BY <2>1, <2>2
  <2> QED BY <2>1, <2>3
<1>4. \A i \in 0 .. cap - 1 :
        RtFilled(q, msgs)[i] = LET here == {j \in 1 .. n : (seq + j - 1) % cap = i}
                               IN IF here = {} THEN rtStore[q][i] ELSE msgs[CHOOSE j \in here : TRUE]
  BY <1>1, <1>2, <1>3 DEF RtFilled
<1>5. ASSUME NEW i \in 1 .. seq + n, g + k < i
      PROVE  RtFilled(q, msgs)[(i - 1) % cap] = rtLog'[q][i]
  <2>1. (i - 1) % cap \in 0 .. cap - 1
    BY <1>2, ModRange, i - 1 \in Int
  <2>2. CASE i <= seq
    <3>1. ASSUME NEW j \in 1 .. n, (seq + j - 1) % cap = (i - 1) % cap PROVE FALSE
      <4>1. /\ seq + j - 1 \in Nat /\ i - 1 \in Nat /\ seq + j - 1 # i - 1
            /\ seq + j - 1 < (i - 1) + cap /\ i - 1 < (seq + j - 1) + cap
        BY <1>3, <1>5, <2>2
      <4> QED BY <3>1, <4>1, ModApart
    <3>2. {j \in 1 .. n : (seq + j - 1) % cap = (i - 1) % cap} = {}
      BY <3>1
    <3>3. RtFilled(q, msgs)[(i - 1) % cap] = rtStore[q][(i - 1) % cap]
      BY <1>4, <2>1, <3>2
    <3>4. i \in 1 .. seq /\ g < i
      BY <1>3, <1>5, <2>2
    <3>5. rtStore[q][(i - 1) % cap] = rtLog[q][i]
      BY <1>1, <1>2, <3>4 DEF RtInv, RtLogs, RtLogOf, RtPutNumbers
    <3> QED BY <1>2, <3>3, <3>4, <3>5 DEF RtPutNumbers
  <2>3. CASE i > seq
    <3>1. i - seq \in 1 .. n /\ seq + (i - seq) - 1 = i - 1
      BY <2>3
    <3>2. ASSUME NEW j \in 1 .. n, (seq + j - 1) % cap = (i - 1) % cap PROVE j = i - seq
      <4>1. /\ seq + j - 1 \in Nat /\ i - 1 \in Nat
            /\ seq + j - 1 < (i - 1) + cap /\ i - 1 < (seq + j - 1) + cap
        BY <1>3, <2>3
      <4>2. seq + j - 1 = i - 1
        BY <3>2, <4>1, ModApart
      <4> QED BY <4>2
    <3>3. {j \in 1 .. n : (seq + j - 1) % cap = (i - 1) % cap} = {i - seq}
      <4>1. i - seq \in {j \in 1 .. n : (seq + j - 1) % cap = (i - 1) % cap}
        BY <3>1
      <4>2. \A j \in {j \in 1 .. n : (seq + j - 1) % cap = (i - 1) % cap} : j = i - seq
        BY <3>2
      <4> QED BY <4>1, <4>2
    <3>4. RtFilled(q, msgs)[(i - 1) % cap] = msgs[i - seq]
      <4>1. (CHOOSE j \in {i - seq} : TRUE) = i - seq
        OBVIOUS
      <4> QED BY <1>4, <2>1, <3>3, <4>1
    <3>5. i \in seq + 1 .. seq + n
      BY <2>3
    <3> QED BY <1>2, <3>4, <3>5 DEF RtPutNumbers
  <2> QED BY <2>2, <2>3
<1> QED BY <1>1, <1>2, <1>5

\* What is pushed out are the oldest items.
LEMMA RtPushedOut ==
  ASSUME RtInv, NEW q \in RtQueues, NEW msgs, NEW n, NEW k, NEW g, RtPutNumbers(q, msgs, n, k, g)
  PROVE  {RtItem(q, rtSeq[q] - rtSize[q] + j) : j \in 0 .. k - 1} = {rtLog[q][i] : i \in g + 1 .. g + k}
<1>1. /\ g \in Nat /\ k \in Nat /\ g = rtSeq[q] - rtSize[q] /\ g + k <= rtSeq[q] /\ rtSeq[q] \in Nat /\ RtGone(q) = g
  <2>1. g \in Nat /\ g = rtSeq[q] - rtSize[q] /\ rtSize[q] \in Nat /\ rtSeq[q] \in Nat /\ k \in 0 .. rtSize[q] /\ RtGone(q) = g
    BY DEF RtPutNumbers
  <2> QED BY <2>1
<1>2. ASSUME NEW j \in 0 .. k - 1 PROVE RtItem(q, g + j) = rtLog[q][g + j + 1] /\ g + j + 1 \in g + 1 .. g + k
  <2>1. g + j + 1 \in 1 .. rtSeq[q] /\ g < g + j + 1 /\ g + j + 1 - 1 = g + j /\ g + j + 1 \in g + 1 .. g + k
    BY <1>1
  <2>2. rtStore[q][(g + j + 1 - 1) % RtCapacity[q]] = rtLog[q][g + j + 1]
    BY <1>1, <2>1 DEF RtInv, RtLogs, RtLogOf
  <2> QED BY <2>1, <2>2 DEF RtItem
<1>3. \A i \in g + 1 .. g + k : i - g - 1 \in 0 .. k - 1 /\ g + (i - g - 1) + 1 = i
  BY <1>1
<1>4. {RtItem(q, g + j) : j \in 0 .. k - 1} \subseteq {rtLog[q][i] : i \in g + 1 .. g + k}
  BY <1>2
<1>5. ASSUME NEW i \in g + 1 .. g + k PROVE rtLog[q][i] \in {RtItem(q, g + j) : j \in 0 .. k - 1}
  <2>1. i - g - 1 \in 0 .. k - 1 /\ g + (i - g - 1) + 1 = i
    BY <1>3
  <2>2. RtItem(q, g + (i - g - 1)) = rtLog[q][i]
    BY <1>2, <2>1
  <2> QED BY <2>1, <2>2
<1> QED BY <1>1, <1>4, <1>5

\* A message is put into a queue.
LEMMA RtPutKeeps == ASSUME RtInv, NEW s \in RtSenders, RtPut(s) PROVE RtInv'
<1>0. /\ RtTypeOK /\ RtRanges /\ RtCalls /\ RtLogs /\ RtOuts /\ RtNobodySleepsInVain /\ RtDrops
      /\ UNCHANGED <<rtServes, rtTaken, rtSent>>
      /\ UNCHANGED <<rtSleeping, rtThread, rtStillIn, rtDropped, rtStopped, rtCounted>>
  BY DEF RtInv, RtPut, rtThreadVars, rtDropVars, rtCtxVars
<1>1. PICK q \in RtQueues, msgs \in Seq(1 .. rtSent), n \in Nat, k \in Nat : RtPuts(s, q, msgs, n, k)
  BY RtPutIs
<1>2. PICK g : g = rtSeq[q] - rtSize[q]
  OBVIOUS
<1>3. RtPutNumbers(q, msgs, n, k, g)
  BY <1>1, <1>2, RtPutCounts
<1>4. PICK cap \in Nat \ {0} : cap = RtCapacity[q]
  BY RtAssumption
<1>5. /\ g \in Nat /\ RtGone(q)' = g + k /\ RtGone(q) = g /\ rtSeq[q] \in Nat /\ g + k <= rtSeq[q] /\ rtSent \in Nat
  <2>1. g \in Nat /\ g = rtSeq[q] - rtSize[q] /\ rtSize[q] \in Nat /\ rtSeq[q] \in Nat /\ k \in 0 .. rtSize[q]
    BY <1>3 DEF RtPutNumbers
  <2> QED BY <1>3, <2>1 DEF RtPutNumbers
<1>6. /\ rtSize' = [rtSize EXCEPT ![q] = rtSize'[q]] /\ rtSize'[q] \in Nat /\ rtSize'[q] <= cap
      /\ rtSeq' = [rtSeq EXCEPT ![q] = rtSeq'[q]] /\ rtSeq'[q] \in Nat
      /\ rtLog' = [rtLog EXCEPT ![q] = rtLog'[q]]
  BY <1>0, <1>1, <1>3, <1>4 DEF RtPuts, RtPutNumbers, RtRanges
<1>7. \A p \in RtQueues : p # q => /\ rtSize'[p] = rtSize[p] /\ rtSeq'[p] = rtSeq[p] /\ rtLog'[p] = rtLog[p]
                                   /\ rtStore'[p] = rtStore[p] /\ rtPushed'[p] = rtPushed[p]
  BY <1>0, <1>1 DEF RtPuts, RtRanges
<1>8. RtCallOf(s) /\ msgs = rtSender[s].msgs /\ rtSender[s].pc = "put" /\ rtSender[s].todo \in Seq(RtQueues)
      /\ q = rtSender[s].todo[1] /\ rtSender[s].todo # <<>>
  BY <1>0, <1>1 DEF RtPuts, RtCalls, RtRanges, RtCallType
<1>9. 1 \in DOMAIN rtSender[s].todo /\ \A i \in DOMAIN rtSender[s].todo : i \in Nat
  BY <1>8, LenProperties, EmptySeq
<1>10. RtDistinct(msgs) /\ ToSet(msgs) \cap ToSet(rtLog[q]) = {}
  BY <1>8, <1>9 DEF RtCallOf, RtDue
<1>11. rtStore'[q] = RtFilled(q, msgs) /\ rtStore' = [p \in RtQueues |-> rtStore'[p]]
  <2>1. rtStore = [p \in RtQueues |-> rtStore[p]] /\ rtStore' = [rtStore EXCEPT ![q] = RtFilled(q, msgs)]
    BY <1>0, <1>1 DEF RtRanges, RtPuts
  <2>2. DOMAIN rtStore = RtQueues
    BY <2>1
  <2> QED BY <2>1, <2>2
<1>12. RtDistinct(rtLog'[q])
  <2>1. /\ \A i \in 1 .. rtSeq[q] : rtLog'[q][i] = rtLog[q][i] /\ rtLog[q][i] \in ToSet(rtLog[q])
        /\ \A i \in rtSeq[q] + 1 .. rtSeq[q] + n :
             /\ rtLog'[q][i] = msgs[i - rtSeq[q]] /\ i - rtSeq[q] \in DOMAIN msgs
             /\ msgs[i - rtSeq[q]] \in ToSet(msgs)
    <3>1. \A i \in rtSeq[q] + 1 .. rtSeq[q] + n : i - rtSeq[q] \in 1 .. n
      BY <1>5
    <3> QED BY <1>3, <3>1 DEF RtPutNumbers, ToSet
  <2>2. ASSUME NEW i \in 1 .. rtSeq[q] + n, NEW j \in 1 .. rtSeq[q] + n, rtLog'[q][i] = rtLog'[q][j]
        PROVE  i = j
    <3>1. /\ i \in 1 .. rtSeq[q] \/ i \in rtSeq[q] + 1 .. rtSeq[q] + n
          /\ j \in 1 .. rtSeq[q] \/ j \in rtSeq[q] + 1 .. rtSeq[q] + n
      BY <1>5
    <3>2. CASE i \in 1 .. rtSeq[q] /\ j \in 1 .. rtSeq[q]
      <4>1. i \in DOMAIN rtLog[q] /\ j \in DOMAIN rtLog[q] /\ rtLog[q][i] = rtLog[q][j]
        BY <1>3, <2>1, <2>2, <3>2 DEF RtPutNumbers
      <4> QED BY <1>0, <4>1 DEF RtLogs, RtLogOf, RtDistinct
    <3>3. CASE i \in rtSeq[q] + 1 .. rtSeq[q] + n /\ j \in rtSeq[q] + 1 .. rtSeq[q] + n
      <4>1. i - rtSeq[q] = j - rtSeq[q]
        BY <1>10, <2>1, <2>2, <3>3 DEF RtDistinct
      <4> QED BY <1>5, <4>1
    <3>4. CASE i \in 1 .. rtSeq[q] /\ j \in rtSeq[q] + 1 .. rtSeq[q] + n
      BY <1>10, <2>1, <2>2, <3>4
    <3>5. CASE i \in rtSeq[q] + 1 .. rtSeq[q] + n /\ j \in 1 .. rtSeq[q]
      BY <1>10, <2>1, <2>2, <3>5
    <3> QED BY <3>1, <3>2, <3>3, <3>4, <3>5
  <2> QED BY <1>3, <2>2 DEF RtPutNumbers, RtDistinct
<1>13. RtLogs'
  <2>1. RtLogOf(q)'
    <3>1. rtLog'[q] \in Seq(1 .. rtSent) /\ Len(rtLog'[q]) = rtSeq'[q] /\ rtSeq'[q] = rtSeq[q] + n
      BY <1>3 DEF RtPutNumbers
    <3>2. rtSize'[q] <= rtSeq'[q]
      <4>1. g + k = rtSeq'[q] - rtSize'[q] /\ g + k \in Nat
        BY <1>5 DEF RtGone
      <4> QED BY <1>6, <4>1
    <3>3. \A i \in 1 .. rtSeq[q] + n : g + k < i => RtFilled(q, msgs)[(i - 1) % RtCapacity[q]] = rtLog'[q][i]
      BY <1>1, <1>3, RtPutFills
    <3>4. \A i \in 1 .. rtSeq'[q] : RtGone(q)' < i => rtStore'[q][(i - 1) % RtCapacity[q]] = rtLog'[q][i]
      BY <1>5, <1>11, <3>1, <3>3
    <3> QED BY <1>0, <1>4, <1>6, <1>12, <3>1, <3>2, <3>4 DEF RtLogOf
  <2>2. ASSUME NEW p \in RtQueues, p # q PROVE RtLogOf(p)'
    <3>1. RtLogOf(p)
      BY <1>0 DEF RtLogs
    <3> QED BY <1>0, <1>7, <2>2, <3>1 DEF RtLogOf, RtGone
  <2> QED BY <2>1, <2>2 DEF RtLogs
<1>14. RtRanges' /\ RtCalls'
  <2>1. PICK to : /\ to \in {RtIdle, RtOnward(s), [rtSender[s] EXCEPT !.pc = "notify"]}
                  /\ rtSender' = [rtSender EXCEPT ![s] = to]
    BY <1>1 DEF RtPuts
  <2>2. \A p \in RtQueues : ToSet(rtLog'[p]) \subseteq ToSet(rtLog[p]) \cup ToSet(rtSender[s].msgs)
    <3>1. ToSet(rtLog'[q]) = ToSet(rtLog[q]) \cup ToSet(msgs)
      BY <1>3 DEF RtPutNumbers
    <3> QED BY <1>7, <1>8, <3>1
  <2>3. ASSUME NEW i \in DOMAIN rtSender[s].todo, 2 <= i
        PROVE  rtLog'[rtSender[s].todo[i]] = rtLog[rtSender[s].todo[i]]
    <3>1. rtSender[s].todo[i] \in RtQueues
      BY <1>8, RtInSeq
    <3>2. rtSender[s].todo[i] # q
      BY <1>8, <1>9, <2>3 DEF RtCallOf, RtDistinct
    <3> QED BY <1>7, <3>1, <3>2
  <2>4. rtSender' \in [RtSenders -> RtCallType] /\ RtCalls'
    BY <1>0, <1>8, <2>1, <2>2, <2>3, RtCallsGoOn
  <2>5. rtLog' \in [RtQueues -> Seq(Nat)]
    <3>1. 1 .. rtSent \subseteq Nat /\ rtLog'[q] \in Seq(1 .. rtSent)
      BY <1>3 DEF RtPutNumbers
    <3>2. rtLog'[q] \in Seq(Nat)
      BY <3>1, SeqMonotonic
    <3> QED BY <1>0, <1>6, <3>2 DEF RtRanges
  <2>6. rtPushed' \in [RtQueues -> SUBSET Nat]
    <3>1. \A i \in g + 1 .. g + k : rtLog[q][i] \in Nat
      <4>1. \A i \in g + 1 .. g + k : i \in DOMAIN rtLog[q]
        BY <1>3, <1>5 DEF RtPutNumbers
      <4> QED BY <1>0, <4>1, RtInSeq DEF RtRanges
    <3>2. {RtItem(q, rtSeq[q] - rtSize[q] + j) : j \in 0 .. k - 1} \subseteq Nat
      BY <1>3, <3>1, RtPushedOut
    <3>3. PICK out \in SUBSET Nat : rtPushed' = [rtPushed EXCEPT ![q] = @ \cup out]
      BY <1>1, <3>2 DEF RtPuts
    <3> QED BY <1>0, <3>3 DEF RtRanges
  <2>7. rtSize' \in [RtQueues -> Nat] /\ rtSeq' \in [RtQueues -> Nat]
    BY <1>0, <1>6 DEF RtRanges
  <2> QED BY <1>0, <1>11, <2>4, <2>5, <2>6, <2>7 DEF RtRanges
<1>15. RtTypeOK'
  <2>1. rtSeq' \in [RtQueues -> 0 .. RtMaxMsg]
    <3>1. rtSeq'[q] <= rtSent
      BY <1>3, <1>5, <1>12, RtFewEnough DEF RtPutNumbers
    <3>2. rtSeq'[q] \in 0 .. RtMaxMsg
      BY <1>0, <1>5, <1>6, <3>1, RtAssumption DEF RtTypeOK
    <3> QED BY <1>0, <1>6, <3>2 DEF RtTypeOK
  <2>2. ASSUME NEW p \in RtQueues
        PROVE  rtStore'[p] \in [0 .. RtCapacity[p] - 1 -> 0 .. RtMaxMsg] /\ rtSize'[p] \in 0 .. RtCapacity[p]
    <3>1. CASE p = q
      <4>1. \A i \in DOMAIN msgs : msgs[i] \in 0 .. RtMaxMsg
        <5>1. \A i \in DOMAIN msgs : msgs[i] \in 1 .. rtSent
          BY RtInSeq
        <5> QED BY <1>0, <1>5, <5>1, RtAssumption DEF RtTypeOK
      <4>2. rtStore[q] \in [0 .. RtCapacity[q] - 1 -> 0 .. RtMaxMsg]
        BY <1>0 DEF RtTypeOK
      <4>3. ASSUME NEW i \in 0 .. RtCapacity[q] - 1,
                   NEW here, here = {j \in DOMAIN msgs : (rtSeq[q] + j - 1) % RtCapacity[q] = i}
            PROVE  (IF here = {} THEN rtStore[q][i] ELSE msgs[CHOOSE j \in here : TRUE]) \in 0 .. RtMaxMsg
        BY <4>1, <4>2, <4>3
      <4>4. RtFilled(q, msgs) \in [0 .. RtCapacity[q] - 1 -> 0 .. RtMaxMsg]
        BY <4>3 DEF RtFilled
      <4> QED BY <1>4, <1>6, <1>11, <3>1, <4>4
    <3>2. CASE p # q
      BY <1>0, <1>7, <3>2 DEF RtTypeOK
    <3> QED BY <3>1, <3>2
  <2> QED BY <1>0, <2>1, <2>2 DEF RtTypeOK
<1>16. RtOuts'
  <2>1. RtOutOf(q)'
    <3>1. /\ ToSet(rtTaken[q]) \cup rtPushed[q] = {rtLog[q][i] : i \in 1 .. g} /\ ToSet(rtTaken[q]) \cap rtPushed[q] = {}
          /\ \A i, j \in DOMAIN rtTaken[q] : i < j =>
               \E a, b \in 1 .. g : a < b /\ rtTaken[q][i] = rtLog[q][a] /\ rtTaken[q][j] = rtLog[q][b]
      BY <1>0, <1>5 DEF RtOuts, RtOutOf
    <3>2. rtPushed'[q] = rtPushed[q] \cup {rtLog[q][i] : i \in g + 1 .. g + k}
      <4>1. PICK out : out = {RtItem(q, rtSeq[q] - rtSize[q] + j) : j \in 0 .. k - 1}
        OBVIOUS
      <4>2. rtPushed' = [rtPushed EXCEPT ![q] = @ \cup out]
        BY <1>1, <4>1 DEF RtPuts
      <4>3. rtPushed'[q] = rtPushed[q] \cup out
        BY <1>0, <4>2 DEF RtRanges
      <4> QED BY <1>3, <4>1, <4>3, RtPushedOut
    <3>3. \A i \in 1 .. g + k : i \in 1 .. rtSeq[q] /\ rtLog'[q][i] = rtLog[q][i] /\ i \in DOMAIN rtLog[q]
      <4>1. \A i \in 1 .. g + k : i \in 1 .. rtSeq[q]
        BY <1>5
      <4> QED BY <1>3, <4>1 DEF RtPutNumbers
    <3>4. {rtLog'[q][i] : i \in 1 .. g + k} = {rtLog[q][i] : i \in 1 .. g} \cup {rtLog[q][i] : i \in g + 1 .. g + k}
      <4>1. /\ \A i \in 1 .. g + k : i \in 1 .. g \/ i \in g + 1 .. g + k
            /\ \A i \in 1 .. g : i \in 1 .. g + k
            /\ \A i \in g + 1 .. g + k : i \in 1 .. g + k
        BY <1>5
      <4>2. {rtLog'[q][i] : i \in 1 .. g + k} = {rtLog[q][i] : i \in 1 .. g + k}
        BY <3>3
      <4>3. {rtLog[q][i] : i \in 1 .. g + k} = {rtLog[q][i] : i \in 1 .. g} \cup {rtLog[q][i] : i \in g + 1 .. g + k}
        BY <4>1
      <4> QED BY <4>2, <4>3
    <3>5. ToSet(rtTaken[q]) \cap {rtLog[q][i] : i \in g + 1 .. g + k} = {}
      <4>1. ASSUME NEW i \in g + 1 .. g + k, rtLog[q][i] \in ToSet(rtTaken[q]) PROVE FALSE
        <5>1. PICK a \in 1 .. g : rtLog[q][a] = rtLog[q][i]
          BY <3>1, <4>1
        <5>2. a \in 1 .. g + k /\ i \in 1 .. g + k /\ a # i
          BY <1>5
        <5>3. a = i
          BY <1>0, <3>3, <5>1, <5>2 DEF RtLogs, RtLogOf, RtDistinct
        <5> QED BY <5>2, <5>3
      <4> QED BY <4>1
    <3>6. ASSUME NEW i \in DOMAIN rtTaken[q], NEW j \in DOMAIN rtTaken[q], i < j
          PROVE  \E a, b \in 1 .. g + k : a < b /\ rtTaken[q][i] = rtLog'[q][a] /\ rtTaken[q][j] = rtLog'[q][b]
      <4>1. PICK a \in 1 .. g, b \in 1 .. g : a < b /\ rtTaken[q][i] = rtLog[q][a] /\ rtTaken[q][j] = rtLog[q][b]
        BY <3>1, <3>6
      <4>2. a \in 1 .. g + k /\ b \in 1 .. g + k
        BY <1>5
      <4> QED BY <3>3, <4>1, <4>2
    <3>7. /\ ToSet(rtTaken[q]) \cup rtPushed'[q] = {rtLog'[q][i] : i \in 1 .. g + k}
          /\ ToSet(rtTaken[q]) \cap rtPushed'[q] = {}
      BY <3>1, <3>2, <3>4, <3>5
    <3> QED BY <1>0, <1>5, <3>6, <3>7 DEF RtOutOf
  <2>2. ASSUME NEW p \in RtQueues, p # q PROVE RtOutOf(p)'
    <3>1. RtOutOf(p)
      BY <1>0 DEF RtOuts
    <3> QED BY <1>0, <1>7, <2>2, <3>1 DEF RtOutOf, RtGone
  <2> QED BY <2>1, <2>2 DEF RtOuts
<1>17. RtNobodySleepsInVain'
  <2>1. ASSUME NEW c \in rtSleeping, rtSize'[rtServes[c]] > 0
        PROVE  \E u \in RtSenders : rtSender'[u].pc = "notify" /\ Head(rtSender'[u].todo) = rtServes[c]
    <3>1. rtServes[c] \in RtQueues
      BY <1>0 DEF RtTypeOK, RtRanges
    <3>2. CASE rtSize[rtServes[c]] > 0
      <4>1. PICK u \in RtSenders : rtSender[u].pc = "notify" /\ Head(rtSender[u].todo) = rtServes[c]
        BY <1>0, <3>2 DEF RtNobodySleepsInVain
      <4>2. rtSender'[u] = rtSender[u]
        BY <1>0, <1>1, <1>8, <4>1 DEF RtPuts, RtRanges
      <4> QED BY <4>1, <4>2
    <3>3. CASE ~(rtSize[rtServes[c]] > 0)
      <4>1. rtServes[c] = q
        BY <1>7, <2>1, <3>1, <3>3
      <4>2. rtSize[q] = 0 /\ k = 0 /\ rtSize[q] - k + n = n
        <5>1. rtSize[q] \in Nat /\ k \in 0 .. rtSize[q] /\ n \in Nat
          BY <1>3 DEF RtPutNumbers
        <5> QED BY <3>3, <4>1, <5>1
      <4>3. rtSender'[s] = [rtSender[s] EXCEPT !.pc = "notify"] /\ q = Head(rtSender[s].todo)
        BY <1>0, <1>1, <4>2 DEF RtPuts, RtRanges
      <4>4. rtSender[s] \in RtCallType
        BY <1>0 DEF RtRanges
      <4> QED BY <4>1, <4>3, <4>4 DEF RtCallType
    <3> QED BY <3>2, <3>3
  <2> QED BY <1>0, <2>1 DEF RtNobodySleepsInVain
<1>18. RtDrops'
  BY <1>0 DEF RtDrops, RtDropOf
<1> QED BY <1>13, <1>14, <1>15, <1>16, <1>17, <1>18 DEF RtInv

-----------------------------------------------------------------------------
\* Every step of a BlockingContextRt keeps the invariant.
LEMMA RtStepKeeps == ASSUME RtInv, [RtNext]_rtVars PROVE RtInv'
<1>1. CASE UNCHANGED rtVars
  <2>1. /\ UNCHANGED rtSendVars
        /\ UNCHANGED <<rtSleeping, rtThread, rtStillIn, rtDropped, rtStopped, rtCounted>>
    BY <1>1 DEF rtVars, rtThreadVars, rtDropVars, rtCtxVars
  <2>2. /\ rtSleeping \subseteq RtClients /\ rtCounted \subseteq RtClients /\ rtStopped \in BOOLEAN
        /\ rtStillIn \in [RtClients -> BOOLEAN] /\ rtDropped \in [RtClients -> Nat] /\ RtDrops
        /\ rtThread \in [RtClients -> RtPoints]
    BY DEF RtInv, RtTypeOK, RtRanges, RtPoints
  <2>3. RtDrops'
    BY <2>1, <2>2 DEF RtDrops, RtDropOf
  <2> QED BY <2>1, <2>2, <2>3, RtQuietKeeps
<1>2. ASSUME NEW s \in RtSenders, RtAnyCall(s) \/ RtSenderStep(s) PROVE RtInv'
  BY <1>2, RtAnyCallKeeps, RtPutKeeps, RtSenderKeeps DEF RtSenderStep
<1>3. ASSUME NEW c \in RtClients, RtClientStep(c) \/ RtTimeout(c) PROVE RtInv'
  <2>1. RtQuietStep(c) \/ RtTryTake(c) \/ RtDrain(c) \/ RtDrained(c)
    BY <1>3 DEF RtClientStep, RtQuietStep
  <2>2. CASE RtDrained(c)
    <3>1. TRUE \in BOOLEAN
      OBVIOUS
    <3> QED BY <2>2, <3>1, RtLetGoKeeps
  <2> QED BY <2>1, <2>2, RtQuietStepKeeps, RtTakerKeeps
<1>4. ASSUME NEW c \in RtClients, NEW goes \in BOOLEAN, RtThrow(c, goes) PROVE RtInv'
  BY <1>4, RtLetGoKeeps
<1>5. ASSUME NEW q \in RtQueues, RtStart(q) \/ RtRunOnce(q) PROVE RtInv'
  BY <1>5, RtUserKeeps, RtRunOnceKeeps
<1>6. ASSUME RtStop PROVE RtInv'
  BY <1>6, RtUserKeeps
<1> QED BY <1>1, <1>2, <1>3, <1>4, <1>5, <1>6 DEF RtNext

\* The last of a row, counted from the first of them.
LEMMA RtFromThere ==
  ASSUME NEW a \in Nat, NEW b \in Nat, b <= a, NEW i \in a - b + 1 .. a
  PROVE  i - (a - b) \in 1 .. b /\ a - b + (i - (a - b)) = i
OBVIOUS

\* How many the last of a row are, and where each of them is.
LEMMA RtLastOfRow ==
  ASSUME NEW a \in Nat, NEW b \in Nat, b <= a
  PROVE  a - (a - b + 1) + 1 = b /\ \A i \in 1 .. b : a - b + 1 + i - 1 = a - b + i
OBVIOUS

\* What is between the gone and the end of a row is in it.
LEMMA RtInRow ==
  ASSUME NEW a \in Nat, NEW b \in Nat, NEW k \in 0 .. b, a - b \in Nat, NEW i \in a - b + 1 .. a - b + k
  PROVE  i \in 1 .. a
OBVIOUS

\* How far behind a put leaves what it pushes out.
LEMMA RtBehind ==
  ASSUME NEW a \in Nat, NEW b \in Nat, NEW n \in Nat, NEW k \in Nat, NEW cap \in Nat, NEW spare \in {0, 1},
         NEW i \in Nat, b - k + n = cap - spare, i <= a - b + k
  PROVE  i + cap - spare <= a + n
OBVIOUS

\* What is queued are the newest messages of the transport's log.
LEMMA RtQueuedNewest ==
  ASSUME RtInv, NEW q \in RtQueues
  PROVE  /\ RtQueued(q) = SubSeq(rtLog[q], Len(rtLog[q]) - rtSize[q] + 1, Len(rtLog[q]))
         /\ ToSet(RtQueued(q)) = {rtLog[q][i] : i \in RtGone(q) + 1 .. rtSeq[q]}
         /\ RtGone(q) \in Nat /\ rtSeq[q] \in Nat /\ RtGone(q) <= rtSeq[q]
         /\ DOMAIN rtLog[q] = 1 .. rtSeq[q]
<1>1. /\ RtLogOf(q) /\ rtSize[q] \in Nat /\ rtSeq[q] \in Nat /\ RtCapacity[q] \in Nat \ {0}
  BY RtAssumption DEF RtInv, RtLogs, RtRanges
<1>2. PICK size \in Nat, seq \in Nat, cap \in Nat \ {0} :
        size = rtSize[q] /\ seq = rtSeq[q] /\ cap = RtCapacity[q] /\ size <= seq
  BY <1>1 DEF RtLogOf
<1>3. PICK log \in Seq(1 .. rtSent) :
        /\ log = rtLog[q] /\ Len(log) = seq
        /\ \A i \in 1 .. seq : seq - size < i => rtStore[q][(i - 1) % cap] = log[i]
  BY <1>1, <1>2 DEF RtLogOf, RtGone
<1>4. DOMAIN log = 1 .. seq
  BY <1>3, LenProperties
<1>5. ASSUME NEW i \in 1 .. size PROVE RtItem(q, rtSeq[q] - rtSize[q] + i - 1) = log[seq - size + i]
  <2>1. seq - size + i \in 1 .. seq /\ seq - size < seq - size + i
    BY <1>2
  <2>2. rtStore[q][(seq - size + i - 1) % cap] = log[seq - size + i]
    BY <1>3, <2>1
  <2> QED BY <1>2, <2>2 DEF RtItem
<1>6. RtQueued(q) = [i \in 1 .. size |-> log[seq - size + i]]
  BY <1>2, <1>5 DEF RtQueued
<1>7. SubSeq(log, seq - size + 1, seq) = [i \in 1 .. size |-> log[seq - size + i]]
  <2>1. seq - size + 1 \in 1 .. Len(log) + 1 /\ seq \in (seq - size + 1) - 1 .. Len(log)
    BY <1>2, <1>3
  <2>2. seq - (seq - size + 1) + 1 = size /\ \A i \in 1 .. size : seq - size + 1 + i - 1 = seq - size + i
    BY <1>2, RtLastOfRow
  <2>3. /\ SubSeq(log, seq - size + 1, seq) \in Seq(1 .. rtSent)
        /\ Len(SubSeq(log, seq - size + 1, seq)) = size
        /\ \A i \in 1 .. size : SubSeq(log, seq - size + 1, seq)[i] = log[seq - size + i]
    <3>1. seq - size + 1 \in Int /\ seq \in Int /\ (seq - size + 1 <= seq <=> size > 0)
      BY <1>2
    <3>2. \A i \in seq - size + 1 .. seq : log[i] \in 1 .. rtSent
      <4>1. \A i \in seq - size + 1 .. seq : i \in 1 .. seq
        BY <1>2
      <4>2. \A i \in 1 .. seq : log[i] \in 1 .. rtSent
        BY <1>3, <1>4, RtInSeq
      <4> QED BY <4>1, <4>2
    <3>3. /\ SubSeq(log, seq - size + 1, seq) \in Seq(1 .. rtSent)
          /\ Len(SubSeq(log, seq - size + 1, seq))
               = IF seq - size + 1 <= seq THEN seq - (seq - size + 1) + 1 ELSE 0
          /\ \A i \in 1 .. seq - (seq - size + 1) + 1 :
               SubSeq(log, seq - size + 1, seq)[i] = log[seq - size + 1 + i - 1]
      BY <3>1, <3>2, SubSeqProperties
    <3>4. (IF seq - size + 1 <= seq THEN seq - (seq - size + 1) + 1 ELSE 0) = size
      BY <1>2, <2>2, <3>1
    <3> QED BY <2>2, <3>3, <3>4
  <2>4. SubSeq(log, seq - size + 1, seq) = [i \in 1 .. size |-> SubSeq(log, seq - size + 1, seq)[i]]
    BY <2>3, LenProperties
  <2> QED BY <2>3, <2>4
<1>8. ToSet(RtQueued(q)) = {log[i] : i \in seq - size + 1 .. seq}
  <2>1. ToSet(RtQueued(q)) = {log[seq - size + i] : i \in 1 .. size}
    BY <1>6 DEF ToSet
  <2>2. \A i \in 1 .. size : seq - size + i \in seq - size + 1 .. seq
    BY <1>2
  <2>3. ASSUME NEW i \in seq - size + 1 .. seq
        PROVE  i - (seq - size) \in 1 .. size /\ seq - size + (i - (seq - size)) = i
    BY <1>2, RtFromThere
  <2> QED BY <2>1, <2>2, <2>3
<1>9. RtGone(q) = seq - size /\ seq - size \in Nat /\ seq - size <= seq
  BY <1>2 DEF RtGone
<1>10. RtQueued(q) = SubSeq(rtLog[q], Len(rtLog[q]) - rtSize[q] + 1, Len(rtLog[q]))
  BY <1>2, <1>3, <1>6, <1>7
<1>11. ToSet(RtQueued(q)) = {rtLog[q][i] : i \in RtGone(q) + 1 .. rtSeq[q]}
  BY <1>2, <1>3, <1>8, <1>9
<1> QED BY <1>2, <1>3, <1>4, <1>9, <1>10, <1>11

\* The place of a message in a transport's log.
LEMMA RtPlace ==
  ASSUME RtInv, NEW q \in RtQueues, NEW i \in DOMAIN rtLog[q]
  PROVE  (CHOOSE j \in DOMAIN rtLog[q] : rtLog[q][j] = rtLog[q][i]) = i
<1>1. RtDistinct(rtLog[q])
  BY DEF RtInv, RtLogs, RtLogOf
<1> QED BY <1>1 DEF RtDistinct

\* Every message of a transport is accounted for.
LEMMA RtAllAccounted == ASSUME RtInv PROVE RtAccounted
<1>1. ASSUME NEW q \in RtQueues
      PROVE  /\ RtQueued(q) = SubSeq(rtLog[q], Len(rtLog[q]) - rtSize[q] + 1, Len(rtLog[q]))
             /\ ToSet(rtTaken[q]) \cup rtPushed[q] \cup ToSet(RtQueued(q)) = ToSet(rtLog[q])
             /\ ToSet(rtTaken[q]) \cap (rtPushed[q] \cup ToSet(RtQueued(q))) = {}
             /\ \A i, j \in DOMAIN rtTaken[q] : i < j =>
                  (CHOOSE a \in DOMAIN rtLog[q] : rtLog[q][a] = rtTaken[q][i])
                    < (CHOOSE a \in DOMAIN rtLog[q] : rtLog[q][a] = rtTaken[q][j])
  <2>1. RtOutOf(q) /\ RtDistinct(rtLog[q])
    BY DEF RtInv, RtOuts, RtLogs, RtLogOf
  <2>2. PICK g \in Nat, seq \in Nat :
          /\ g = RtGone(q) /\ seq = rtSeq[q] /\ g <= seq /\ DOMAIN rtLog[q] = 1 .. seq
          /\ RtQueued(q) = SubSeq(rtLog[q], Len(rtLog[q]) - rtSize[q] + 1, Len(rtLog[q]))
          /\ ToSet(RtQueued(q)) = {rtLog[q][i] : i \in g + 1 .. seq}
    BY RtQueuedNewest
  <2>3. /\ ToSet(rtTaken[q]) \cup rtPushed[q] = {rtLog[q][i] : i \in 1 .. g}
        /\ ToSet(rtTaken[q]) \cap rtPushed[q] = {}
        /\ \A i, j \in DOMAIN rtTaken[q] : i < j =>
             \E a, b \in 1 .. g : a < b /\ rtTaken[q][i] = rtLog[q][a] /\ rtTaken[q][j] = rtLog[q][b]
    BY <2>1, <2>2 DEF RtOutOf
  <2>4. 1 .. seq = (1 .. g) \cup (g + 1 .. seq)
    BY <2>2
  <2>5. ToSet(rtLog[q]) = {rtLog[q][i] : i \in 1 .. g} \cup {rtLog[q][i] : i \in g + 1 .. seq}
    BY <2>2, <2>4 DEF ToSet
  <2>6. {rtLog[q][i] : i \in 1 .. g} \cap {rtLog[q][i] : i \in g + 1 .. seq} = {}
    <3>1. ASSUME NEW i \in 1 .. g, NEW j \in g + 1 .. seq, rtLog[q][i] = rtLog[q][j] PROVE FALSE
      <4>1. i # j /\ i \in 1 .. seq /\ j \in 1 .. seq
        BY <2>2
      <4> QED BY <2>1, <2>2, <3>1, <4>1 DEF RtDistinct
    <3> QED BY <3>1
  <2>7. ASSUME NEW i \in DOMAIN rtTaken[q], NEW j \in DOMAIN rtTaken[q], i < j
        PROVE  (CHOOSE a \in DOMAIN rtLog[q] : rtLog[q][a] = rtTaken[q][i])
                 < (CHOOSE a \in DOMAIN rtLog[q] : rtLog[q][a] = rtTaken[q][j])
    <3>1. PICK a \in 1 .. g, b \in 1 .. g : a < b /\ rtTaken[q][i] = rtLog[q][a] /\ rtTaken[q][j] = rtLog[q][b]
      BY <2>3, <2>7
    <3>2. a \in DOMAIN rtLog[q] /\ b \in DOMAIN rtLog[q]
      BY <2>2, <2>4
    <3>3. /\ (CHOOSE x \in DOMAIN rtLog[q] : rtLog[q][x] = rtLog[q][a]) = a
          /\ (CHOOSE x \in DOMAIN rtLog[q] : rtLog[q][x] = rtLog[q][b]) = b
      BY <3>2, RtPlace
    <3> QED BY <3>1, <3>3
  <2>8. /\ ToSet(rtTaken[q]) \cup rtPushed[q] \cup ToSet(RtQueued(q)) = ToSet(rtLog[q])
        /\ ToSet(rtTaken[q]) \cap (rtPushed[q] \cup ToSet(RtQueued(q))) = {}
    BY <2>2, <2>3, <2>5, <2>6
  <2> QED BY <2>2, <2>7, <2>8
<1> QED BY <1>1 DEF RtAccounted

\* The invariant is enough.
LEMMA RtInvSafe == ASSUME RtInv PROVE RtSafety
<1>1. RtTypeOK /\ RtNobodySleepsInVain
  BY DEF RtInv
<1>2. RtNoDoubleDelivery
  BY DEF RtInv, RtLogs, RtLogOf, RtDistinct, RtNoDoubleDelivery
<1>3. RtDroppedOnce
  BY DEF RtInv, RtDrops, RtDropOf, RtLeaving, RtDroppedOnce
<1> QED BY <1>1, <1>2, <1>3, RtAllAccounted DEF RtSafety

\* In every BlockingContextRt: each message a transport got was taken once and in order by a
\* client there, or pushed out, or waits among the newest in its slot; no transport gets a
\* message twice; nobody sleeps at a filled queue without a notification on its way; a
\* client is let go once.
THEOREM RtAccounts == RtSpec => []RtSafety
<1>1. RtInit => RtInv
  BY RtInitInv
<1>2. RtInv /\ [RtNext]_rtVars => RtInv'
  BY RtStepKeeps
<1>3. RtInv => RtSafety
  BY RtInvSafe
<1> QED BY <1>1, <1>2, <1>3, PTL DEF RtSpec

\* Only a put changes what was pushed out.
LEMMA RtPushesOnlyPut ==
  ASSUME RtInv, [RtNext]_rtVars, NEW s \in RtSenders, ~RtPut(s),
         rtSender[s].pc = "put", rtSender'[s] # rtSender[s],
         NEW q \in RtQueues
  PROVE  rtPushed'[q] = rtPushed[q]
<1>1. rtSender # rtSender'
  OBVIOUS
<1>2. ASSUME NEW u \in RtSenders, RtAnyCall(u) \/ RtSenderStep(u) PROVE rtPushed'[q] = rtPushed[q]
  <2>1. CASE RtPut(u)
    <3>1. u # s
      BY <2>1
    <3>2. rtSender'[s] = rtSender[s]
      BY <2>1, <3>1 DEF RtPut, RtInv, RtRanges
    <3> QED BY <3>2
  <2>2. CASE RtTryFails(u) \/ RtNotify(u) \/ RtAnyCall(u)
    BY <2>2 DEF RtTryFails, RtNotify, RtAnyCall, RtSend, RtSendInPlace, RtTrySend, RtTrySendInPlace,
                RtSendJustBytes, RtSendRange, RtCall, rtQueueVars
  <2> QED BY <1>2, <2>1, <2>2 DEF RtSenderStep
<1>3. ASSUME \/ \E c \in RtClients : RtClientStep(c) \/ RtTimeout(c)
             \/ \E c \in RtClients, goes \in BOOLEAN : RtThrow(c, goes)
             \/ \E p \in RtQueues : RtStart(p) \/ RtRunOnce(p)
             \/ RtStop
             \/ UNCHANGED rtVars
      PROVE  rtSender' = rtSender
  <2>1. ASSUME NEW c \in RtClients, RtClientStep(c) \/ RtTimeout(c) PROVE rtSender' = rtSender
    BY <2>1 DEF RtClientStep, RtTimeout, RtBegin, RtBeginThrows, RtBeginFails, RtLoop, RtTryTake, RtSleep, RtHandle,
                RtOut, RtDrain, RtDrained, RtTakeInto, RtTakeFrom, rtSendVars
  <2>2. ASSUME NEW c \in RtClients, NEW goes \in BOOLEAN, RtThrow(c, goes) PROVE rtSender' = rtSender
    BY <2>2 DEF RtThrow, rtSendVars
  <2>3. ASSUME NEW p \in RtQueues, RtStart(p) \/ RtRunOnce(p) PROVE rtSender' = rtSender
    BY <2>3 DEF RtStart, RtRunOnce, RtTakeFrom, rtSendVars
  <2>4. ASSUME RtStop \/ UNCHANGED rtVars PROVE rtSender' = rtSender
    BY <2>4 DEF RtStop, rtVars, rtSendVars
  <2> QED BY <1>3, <2>1, <2>2, <2>3, <2>4
<1> QED BY <1>1, <1>2, <1>3 DEF RtNext

\* A put pushes out what is capacity behind.
LEMMA RtPutLatest ==
  ASSUME RtInv, NEW s \in RtSenders, RtPut(s), NEW q0, q0 = Head(rtSender[s].todo),
         NEW i \in DOMAIN rtLog[q0], rtLog[q0][i] \in rtPushed'[q0] \ rtPushed[q0]
  PROVE  i + RtCapacity[q0] - (IF rtSender[s].how = "batch" THEN 1 ELSE 0) <= Len(rtLog'[q0])
<1>1. PICK q \in RtQueues, msgs \in Seq(1 .. rtSent), n \in Nat, k \in Nat : RtPuts(s, q, msgs, n, k)
  BY RtPutIs
<1>2. q = q0
  BY <1>1 DEF RtPuts
<1>3. PICK g : g = rtSeq[q] - rtSize[q] /\ RtPutNumbers(q, msgs, n, k, g)
  BY <1>1, RtPutCounts
<1>4. PICK spare \in {0, 1} : spare = IF rtSender[s].how = "batch" THEN 1 ELSE 0
  OBVIOUS
<1>5. PICK size \in Nat, seq \in Nat, cap \in Nat :
        /\ size = rtSize[q] /\ seq = rtSeq[q] /\ cap = RtCapacity[q] /\ g = seq - size
        /\ g \in Nat /\ k \in 0 .. size /\ DOMAIN rtLog[q] = 1 .. seq /\ Len(rtLog'[q]) = seq + n
        /\ k > 0 => size - k + n = cap - spare
  BY <1>1, <1>3, <1>4 DEF RtPutNumbers, RtPuts
<1>6. rtPushed'[q] = rtPushed[q] \cup {RtItem(q, rtSeq[q] - rtSize[q] + j) : j \in 0 .. k - 1}
  BY <1>1 DEF RtPuts, RtInv, RtRanges
<1>7. {RtItem(q, rtSeq[q] - rtSize[q] + j) : j \in 0 .. k - 1} = {rtLog[q][a] : a \in g + 1 .. g + k}
  BY <1>3, RtPushedOut
<1>8. PICK a \in g + 1 .. g + k : rtLog[q][a] = rtLog[q][i]
  <2>1. rtLog[q][i] \in rtPushed'[q] /\ rtLog[q][i] \notin rtPushed[q]
    BY <1>2
  <2>2. rtLog[q][i] \in {rtLog[q][a] : a \in g + 1 .. g + k}
    BY <1>6, <1>7, <2>1
  <2> QED BY <2>2
<1>9. RtDistinct(rtLog[q]) /\ i \in 1 .. seq /\ a \in 1 .. seq
  <2>1. seq - size \in Nat /\ k \in 0 .. size /\ a \in seq - size + 1 .. seq - size + k
    BY <1>5
  <2>2. a \in 1 .. seq
    BY <2>1, RtInRow
  <2> QED BY <1>2, <1>5, <2>2 DEF RtInv, RtLogs, RtLogOf
<1>10. a = i
  BY <1>5, <1>8, <1>9 DEF RtDistinct
<1>11. i + cap - spare <= seq + n
  <2>1. i \in g + 1 .. g + k /\ i \in Nat
    BY <1>9, <1>10
  <2>2. k > 0 /\ i <= g + k
    BY <1>5, <2>1
  <2>3. k \in Nat /\ size - k + n = cap - spare /\ g = seq - size
    BY <1>5, <2>2
  <2>4. i <= seq - size + k
    BY <2>2, <2>3
  <2> QED BY <2>1, <2>3, <2>4, RtBehind
<1> QED BY <1>2, <1>4, <1>5, <1>11

\* A receiver gets the latest: a message is pushed out only by a put after which as many newer
\* ones as the transport holds are there, one less after a range.
THEOREM RtKeepsLatest == RtSpec => RtLatestKept
<1> DEFINE Kept(s) ==
      LET q == Head(rtSender[s].todo)
          spare == IF rtSender[s].how = "batch" THEN 1 ELSE 0
      IN \A i \in DOMAIN rtLog[q] :
           rtLog[q][i] \in rtPushed'[q] \ rtPushed[q] => i + RtCapacity[q] - spare <= Len(rtLog'[q])
<1> DEFINE Latest == \A s \in RtSenders : rtSender[s].pc = "put" /\ rtSender'[s] # rtSender[s] => Kept(s)
<1>1. RtInit => RtInv
  BY RtInitInv
<1>2. RtInv /\ [RtNext]_rtVars => RtInv'
  BY RtStepKeeps
<1>3. ASSUME RtInv, [RtNext]_rtVars PROVE [Latest]_rtVars
  <2>1. ASSUME NEW s \in RtSenders, rtSender[s].pc = "put", rtSender'[s] # rtSender[s] PROVE Kept(s)
    <3>1. CASE RtPut(s)
      BY <1>3, <3>1, RtPutLatest
    <3>2. CASE ~RtPut(s)
      <4>1. RtCallOf(s) /\ rtSender[s] \in RtCallType
        BY <1>3, <2>1 DEF RtInv, RtCalls, RtRanges
      <4>2. Head(rtSender[s].todo) \in RtQueues
        BY <4>1, HeadTailProperties DEF RtCallOf, RtCallType
      <4>3. rtPushed'[Head(rtSender[s].todo)] = rtPushed[Head(rtSender[s].todo)]
        BY <1>3, <2>1, <3>2, <4>2, RtPushesOnlyPut
      <4> QED BY <4>3
    <3> QED BY <3>1, <3>2
  <2> QED BY <2>1
<1>4. RtInv /\ [RtNext]_rtVars => [Latest]_rtVars
  BY <1>3
<1> QED BY <1>1, <1>2, <1>4, PTL DEF RtSpec, RtLatestKept
===============================================================================
