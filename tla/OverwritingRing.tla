-------------------------- MODULE OverwritingRing --------------------------
(***************************************************************************)
(* hmbdc/pattern/MemRingBufferRt.hpp: a ring whose writers never wait for  *)
(* its readers.  Every slot carries the number of its item, UPDATING while *)
(* it is written; a reader copies the item out and looks at the number     *)
(* again.  An item is two words, so that a copy taken while it is written  *)
(* shows.  Loads and stores take place in program order, as the fences and *)
(* the x86 memory model make them.                                         *)
(***************************************************************************)
EXTENDS Integers, Sequences

CONSTANTS
  OvWriters,    \* writer threads
  OvReaders,    \* readers, each with a ReadRecord of its own
  OvCapacity,   \* slots of the ring, a power of two
  OvMaxSeq,     \* bound: items ever put
  OvOversized   \* the numbers of items that may be too big for a slot

ASSUME OvAssumption ==
  /\ OvCapacity \in Nat \ {0}
  /\ OvMaxSeq \in Nat
  /\ OvOversized \subseteq Nat

VARIABLES
  ovSeq,        \* the number in each slot
  ovItem,       \* the two words in each slot
  ovClaimed,    \* toBeClaimedSeq_
  ovWriter,     \* each writer's step and the number it has claimed
  ovRecord,     \* the ReadRecord of each reader
  ovReader,     \* each reader's step, readSeq and the words it has copied
  ovGot,        \* history: the last item each reader returned, and with which result
  ovLapped      \* history: two writers were in one slot at once

ovVars == <<ovSeq, ovItem, ovClaimed, ovWriter, ovRecord, ovReader, ovGot, ovLapped>>

OvSlots == 0 .. OvCapacity - 1
OvUPDATING == OvMaxSeq + 1          \* numeric_limits<Sequence>::max()
OvNothing == [seq |-> -1, item |-> <<-1, -1>>, result |-> 0]
OvSlot(n) == n % OvCapacity         \* & MASK

-----------------------------------------------------------------------------
(***************************************************************************)
(* put and putInPlace.                                                     *)
(***************************************************************************)
\* fetch_add
OvClaim(w) ==
  /\ ovWriter[w].pc = "idle"
  /\ ovClaimed < OvMaxSeq
  /\ ovWriter' = [ovWriter EXCEPT ![w] = [pc |-> "mark", seq |-> ovClaimed]]
  /\ ovClaimed' = ovClaimed + 1
  /\ ovLapped' = (ovLapped \/ \E v \in OvWriters \ {w} :
       ovWriter[v].pc # "idle" /\ OvSlot(ovWriter[v].seq) = OvSlot(ovClaimed))
  /\ UNCHANGED <<ovSeq, ovItem, ovRecord, ovReader, ovGot>>

\* *getSeq(index) = UPDATING
OvMark(w) ==
  /\ ovWriter[w].pc = "mark"
  /\ ovSeq' = [ovSeq EXCEPT ![OvSlot(ovWriter[w].seq)] = OvUPDATING]
  /\ ovWriter' = [ovWriter EXCEPT ![w].pc = "first"]
  /\ UNCHANGED <<ovItem, ovClaimed, ovRecord, ovReader, ovGot, ovLapped>>

\* The two halves of the memcpy.
OvWrite(w) ==
  /\ ovWriter[w].pc \in {"first", "second"}
  /\ LET n == ovWriter[w].seq
         half == IF ovWriter[w].pc = "first" THEN 1 ELSE 2
     IN /\ ovItem' = [ovItem EXCEPT ![OvSlot(n)][half] = n]
        /\ ovWriter' = [ovWriter EXCEPT ![w].pc = IF half = 1 THEN "second" ELSE "publish"]
  /\ UNCHANGED <<ovSeq, ovClaimed, ovRecord, ovReader, ovGot, ovLapped>>

\* ItemTooBig is thrown after the slot was marked: it stays so until the next round.
OvTooBig(w) ==
  /\ ovWriter[w].pc = "first"
  /\ ovWriter[w].seq \in OvOversized
  /\ ovWriter' = [ovWriter EXCEPT ![w] = [pc |-> "idle", seq |-> 0]]
  /\ UNCHANGED <<ovSeq, ovItem, ovClaimed, ovRecord, ovReader, ovGot, ovLapped>>

\* *getSeq(index) = seq
OvPublish(w) ==
  /\ ovWriter[w].pc = "publish"
  /\ ovSeq' = [ovSeq EXCEPT ![OvSlot(ovWriter[w].seq)] = ovWriter[w].seq]
  /\ ovWriter' = [ovWriter EXCEPT ![w] = [pc |-> "idle", seq |-> 0]]
  /\ UNCHANGED <<ovItem, ovClaimed, ovRecord, ovReader, ovGot, ovLapped>>

-----------------------------------------------------------------------------
(***************************************************************************)
(* take and tryTake.                                                       *)
(***************************************************************************)
OvIdleReader == [pc |-> "idle", try |-> FALSE, seq |-> 0, item |-> <<-1, -1>>]

\* Enter take or tryTake with the number of the ReadRecord.
OvCall(r, try) ==
  /\ ovReader[r].pc = "idle"
  /\ ovReader' = [ovReader EXCEPT ![r] = [OvIdleReader EXCEPT !.pc = "look", !.try = try, !.seq = ovRecord[r]]]
  /\ UNCHANGED <<ovSeq, ovItem, ovClaimed, ovWriter, ovRecord, ovGot, ovLapped>>

\* A reader that has missed items goes on by one, or by a whole round when it is late.
OvSkip(n) == IF ovClaimed - n >= 2 * OvCapacity THEN n + OvCapacity ELSE n + 1

\* The slot has a later item.
OvMissed(n) == ovSeq[OvSlot(n)] # OvUPDATING /\ n < ovSeq[OvSlot(n)]

\* One look at the number in the slot: the item is there, or it was missed.
OvLook(r) ==
  LET n == ovReader[r].seq
  IN /\ ovReader[r].pc = "look"
     /\ \/ ovSeq[OvSlot(n)] = n /\ ovReader' = [ovReader EXCEPT ![r].pc = "first"]
        \/ /\ OvMissed(n)
           /\ ovReader' = [ovReader EXCEPT ![r].seq = OvSkip(n)]
     /\ UNCHANGED <<ovSeq, ovItem, ovClaimed, ovWriter, ovRecord, ovGot, ovLapped>>

\* Starving: tryTake returns 0 and leaves the record; take waits where it is.
OvStarve(r) ==
  LET n == ovReader[r].seq
  IN /\ ovReader[r].pc = "look"
     /\ ovReader[r].try
     /\ ovSeq[OvSlot(n)] # n /\ ~OvMissed(n)
     /\ ovReader' = [ovReader EXCEPT ![r] = OvIdleReader]
     /\ UNCHANGED <<ovSeq, ovItem, ovClaimed, ovWriter, ovRecord, ovGot, ovLapped>>

\* The two halves of the copy.
OvCopy(r) ==
  /\ ovReader[r].pc \in {"first", "second"}
  /\ LET half == IF ovReader[r].pc = "first" THEN 1 ELSE 2
     IN ovReader' = [ovReader EXCEPT ![r].item[half] = ovItem[OvSlot(ovReader[r].seq)][half],
                                     ![r].pc = IF half = 1 THEN "second" ELSE "check"]
  /\ UNCHANGED <<ovSeq, ovItem, ovClaimed, ovWriter, ovRecord, ovGot, ovLapped>>

\* Mutant of OvSame: the copy is trusted.
OvSameAlways(n) == TRUE

\* The number in the slot is still the one that was read.
OvSame(n) == ovSeq[OvSlot(n)] = n

\* What tryTake returns: 1, or -1 when older items were missed.
OvResult(r, n) == IF ovRecord[r] = n THEN 1 ELSE -1

\* Check the copy: return it, or look on behind it.
OvCheck(r) ==
  LET n == ovReader[r].seq
  IN /\ ovReader[r].pc = "check"
     /\ \/ /\ OvSame(n)
           /\ ovGot' = [ovGot EXCEPT ![r] = [seq |-> n, item |-> ovReader[r].item,
                                             result |-> OvResult(r, n)]]
           /\ ovRecord' = [ovRecord EXCEPT ![r] = n + 1]
           /\ ovReader' = [ovReader EXCEPT ![r] = OvIdleReader]
        \/ /\ ~OvSame(n)
           /\ ovReader' = [ovReader EXCEPT ![r].pc = "look", ![r].seq = n + 1, ![r].item = <<-1, -1>>]
           /\ UNCHANGED <<ovGot, ovRecord>>
     /\ UNCHANGED <<ovSeq, ovItem, ovClaimed, ovWriter, ovLapped>>

-----------------------------------------------------------------------------
OvInit ==
  /\ ovSeq = [i \in OvSlots |-> OvUPDATING]
  /\ ovItem = [i \in OvSlots |-> <<-1, -1>>]
  /\ ovClaimed = 0
  /\ ovWriter = [w \in OvWriters |-> [pc |-> "idle", seq |-> 0]]
  /\ ovRecord = [r \in OvReaders |-> 0]
  /\ ovReader = [r \in OvReaders |-> OvIdleReader]
  /\ ovGot = [r \in OvReaders |-> OvNothing]
  /\ ovLapped = FALSE

OvWriterStep(w) == OvMark(w) \/ OvWrite(w) \/ OvTooBig(w) \/ OvPublish(w)
OvReaderStep(r) == OvLook(r) \/ OvStarve(r) \/ OvCopy(r) \/ OvCheck(r)

OvNext ==
  \/ \E w \in OvWriters : OvClaim(w) \/ OvWriterStep(w)
  \/ \E r \in OvReaders : OvReaderStep(r) \/ \E try \in BOOLEAN : OvCall(r, try)

\* Threads are scheduled; nobody owes a put.  Readers go on calling.
OvFairness ==
  /\ \A w \in OvWriters : WF_ovVars(OvWriterStep(w))
  /\ \A r \in OvReaders : /\ WF_ovVars(\E try \in BOOLEAN : OvCall(r, try))
                            /\ WF_ovVars(OvReaderStep(r))
OvSpec == OvInit /\ [][OvNext]_ovVars /\ OvFairness

-----------------------------------------------------------------------------
(***************************************************************************)
(* Properties.                                                             *)
(***************************************************************************)
\* Types of the variables.
OvTypeOK ==
  /\ ovSeq \in [OvSlots -> 0 .. OvUPDATING]
  /\ ovItem \in [OvSlots -> (-1 .. OvMaxSeq) \X (-1 .. OvMaxSeq)]
  /\ ovClaimed \in 0 .. OvMaxSeq
  /\ ovWriter \in [OvWriters -> [pc : {"idle", "mark", "first", "second", "publish"}, seq : 0 .. OvMaxSeq]]
  /\ ovRecord \in [OvReaders -> 0 .. OvMaxSeq]
  /\ \A r \in OvReaders : /\ ovReader[r].pc \in {"idle", "look", "first", "second", "check"}
                          /\ ovReader[r].seq \in 0 .. OvMaxSeq
  /\ ovLapped \in BOOLEAN

\* What a reader returns is the whole item of the number it was looking for, however
\* writers overtook it, as long as no writer was a whole round behind another one.
OvNoTornItem ==
  \A r \in OvReaders : ovLapped \/ ovGot[r].item = <<ovGot[r].seq, ovGot[r].seq>>

\* Items come in FIFO order, none twice; the result says whether some were missed.
OvFifo ==
  [][\A r \in OvReaders : ovGot'[r] # ovGot[r] =>
       /\ ovGot'[r].seq > ovGot[r].seq
       /\ ovGot'[r].result = 1 <=> ovGot'[r].seq = ovGot[r].seq + 1]_ovVars

\* A reader loses no item that is still in the ring: what it passes over was overwritten
\* or is being overwritten.
OvOnlyOverwrittenMissed ==
  [][\A r \in OvReaders : ovReader'[r].seq > ovReader[r].seq /\ ovReader[r].pc # "idle" =>
       \A n \in ovReader[r].seq .. ovReader'[r].seq - 1 : n + OvCapacity < ovClaimed \/ ovLapped]_ovVars

\* The latest item reaches every reader once the writers are done, unless an item too big
\* for its slot is among the last round: its readers wait at the slot for good.
OvLatestRead ==
  (ovClaimed = OvMaxSeq /\ ~ovLapped /\ \A n \in OvOversized : n + OvCapacity < OvMaxSeq) =>
    \A r \in OvReaders : ovGot[r].seq = OvMaxSeq - 1

\* What MemRingBufferRt keeps true of its slots and of what take and tryTake return.
OvSafety == OvTypeOK /\ OvNoTornItem

\* In which order items are returned and what is passed over, and where reading leads to.
OvReads == OvFifo /\ OvOnlyOverwrittenMissed
OvSettled == OvLatestRead

-----------------------------------------------------------------------------
(***************************************************************************)
(* The inductive invariant behind OvSafety and OvReads.                    *)
(***************************************************************************)
\* The types of the copies too, which OvTypeOK leaves open.
OvWords == (-1 .. OvMaxSeq) \X (-1 .. OvMaxSeq)
OvTypes ==
  /\ OvTypeOK
  /\ ovReader \in [OvReaders -> [pc : {"idle", "look", "first", "second", "check"},
                                 try : BOOLEAN, seq : 0 .. OvMaxSeq, item : OvWords]]
  /\ ovGot \in [OvReaders -> [seq : -1 .. OvMaxSeq, item : OvWords, result : {-1, 0, 1}]]

OvBusy(w) == ovWriter[w].pc # "idle"

\* Numbers being written are claimed, and each by one writer.
OvClaimInv ==
  /\ \A w \in OvWriters : OvBusy(w) => ovWriter[w].seq < ovClaimed
  /\ \A v, w \in OvWriters : v # w /\ OvBusy(v) /\ OvBusy(w) => ovWriter[v].seq # ovWriter[w].seq

\* The number n is out of its writer's hands.
OvWritten(n) == n < ovClaimed /\ \A w \in OvWriters : OvBusy(w) => ovWriter[w].seq # n

\* The number in a slot belongs there and its writer is done.
OvSlotInv ==
  \A i \in OvSlots : ovSeq[i] # OvUPDATING => OvSlot(ovSeq[i]) = i /\ OvWritten(ovSeq[i])

\* A reader looks for nothing before its record; what it copies was once published.
OvReaderInv ==
  \A r \in OvReaders :
    /\ ovRecord[r] = ovGot[r].seq + 1
    /\ ovReader[r].pc # "idle" => ovReader[r].seq >= ovRecord[r]
    /\ ovReader[r].pc \in {"first", "second", "check"} => OvWritten(ovReader[r].seq)

\* One writer at a time is in a slot, ahead of what the slot holds, and from its mark to
\* its publication the slot is marked.
OvAloneInv ==
  /\ \A v, w \in OvWriters :
       v # w /\ OvBusy(v) /\ OvBusy(w) => OvSlot(ovWriter[v].seq) # OvSlot(ovWriter[w].seq)
  /\ \A w \in OvWriters :
       LET n == ovWriter[w].seq  i == OvSlot(n)
       IN /\ OvBusy(w) /\ ovSeq[i] # OvUPDATING => ovSeq[i] < n
          /\ ovWriter[w].pc \in {"first", "second", "publish"} => ovSeq[i] = OvUPDATING
          /\ ovWriter[w].pc \in {"second", "publish"} => ovItem[i][1] = n
          /\ ovWriter[w].pc = "publish" => ovItem[i][2] = n

\* A published slot holds the whole item.
OvWholeInv == \A i \in OvSlots : ovSeq[i] # OvUPDATING => ovItem[i] = <<ovSeq[i], ovSeq[i]>>

\* While the slot keeps its number the copy is the item; when it has lost it, the reader
\* is a whole round late.
OvCopyInv ==
  \A r \in OvReaders :
    LET n == ovReader[r].seq
    IN ovReader[r].pc \in {"first", "second", "check"} =>
         IF OvSame(n)
         THEN /\ ovReader[r].pc # "first" => ovReader[r].item[1] = n
              /\ ovReader[r].pc = "check" => ovReader[r].item[2] = n
         ELSE n + OvCapacity < ovClaimed

OvInv ==
  /\ OvTypes /\ OvClaimInv /\ OvSlotInv /\ OvReaderInv
  /\ ovLapped \/ (OvAloneInv /\ OvWholeInv /\ OvCopyInv /\ OvNoTornItem)
=============================================================================
