------------------------------- MODULE Dispatch -------------------------------
(***************************************************************************)
(* How the messages of an ipc Context reach the callbacks of a Client:      *)
(* Context::send writes a message into one slot of the ring, or, with an    *)
(* attachment, into a head and as many segments as the attachment takes;    *)
(* Client::handleRangeImpl hands each slot of a batch to MessageDispacher,  *)
(* which tries the interests of the client in the order of a compile time   *)
(* sort, or by binary search when there are many, and reassembles           *)
(* attachments; ClientWithStash dispatches what a callback stashed again.   *)
(*                                                                          *)
(* The ring itself is modelled by MemRingBuffer; here it is the sequence of *)
(* the slots committed.  An attachment already in shared memory is          *)
(* TipsDomain's.                                                            *)
(***************************************************************************)
EXTENDS Integers, Sequences, FiniteSets, FiniteSetsExt, SequencesExt

CONSTANTS
  DiSegSize,  \* bytes of an attachment that fit a slot
  DiCapacity, \* slots of the ring
  DiSettings  \* records: interests, sequence of the message types of the client;
              \* sends, the messages; avoids, the client has hmbdcAvoidIpcFrom;
              \* wants, the order of a client that stashes, or <<>>; batch, its
              \* maxBatchMessageCount; throws and skips, how often a callback
              \* throws, and calls batchDone

\* A type covers the tags lo..lo + n - 1; att, it is a hasMemoryAttachment; bytes,
\* it is JustBytes, whose tag is 4.  A message has a tag, att and len of an attachment, and own,
\* the process of the client sent it.
DiTypes == [lo : Nat, n : Nat \ {0}, att : BOOLEAN, bytes : BOOLEAN]
DiMessages == [tag : Nat, att : BOOLEAN, len : Nat, own : BOOLEAN]

ASSUME DiAssumption ==
  /\ DiSegSize \in Nat \ {0} /\ DiCapacity \in Nat
  /\ \A s \in DiSettings :
       /\ s.interests \in Seq(DiTypes) /\ s.sends \in Seq(DiMessages)
       /\ \A i \in DOMAIN s.sends : s.sends[i].tag > 999 /\ (~s.sends[i].att => s.sends[i].len = 0)
       /\ s.avoids \in BOOLEAN /\ s.wants \in Seq(DOMAIN s.sends)
       /\ s.batch \in Nat \ {0} /\ s.throws \in Nat /\ s.skips \in Nat

VARIABLES
  diSet,     \* the setting, chosen once
  diTypes,   \* SortedTupleMessages: its interests as MessageDispacher sorts them
  diSent,    \* messages sent so far
  diRing,    \* the slots committed
  diRead,    \* slots the client wasted
  diBatch,   \* <<at, end>> of the batch being dispatched, or <<>>
  diProc,    \* ibmaProc: the attachment being put together
  diDone,    \* batchDone_
  diStash,   \* stash_
  diOpen,    \* stashOpenCount_
  diTaken,   \* messages a client that stashes has used
  diPc,      \* "running", "stash" or "gone"
  diThrows, diSkips,  \* callbacks that threw, and that called batchDone
  diHandled, \* ghost: what the callbacks were given
  diSkipped  \* ghost: messages in slots batchDone skipped
diUser == <<diStash, diOpen, diTaken>>
diGhosts == <<diHandled, diSkipped>>
diRigid == <<diSet, diTypes>>
diVars == <<diRigid, diSent, diRing, diRead, diBatch, diProc, diDone, diUser, diPc, diThrows,
            diSkips, diGhosts>>

DiLastSystem == 999
DiHead == 7
DiSeg == 8
DiMany == 16

-----------------------------------------------------------------------------
(* Sending *)

DiBytes(id) == [k \in 1..diSet.sends[id].len |-> <<id, k>>]
DiSegments(len) == (len + DiSegSize - 1) \div DiSegSize
DiSlot(tag, under, id, bytes) == [tag |-> tag, under |-> under, id |-> id, bytes |-> bytes]
DiSegEnd(k, len) == IF k * DiSegSize < len THEN k * DiSegSize ELSE len
DiSlots(id) ==
  LET m == diSet.sends[id] IN
  IF ~m.att THEN <<DiSlot(m.tag, 0, id, <<>>)>>
  ELSE <<DiSlot(DiHead, m.tag, id, <<>>)>> \o
       [k \in 1..DiSegments(m.len) |->
          DiSlot(DiSeg, 0, id, SubSeq(DiBytes(id), (k - 1) * DiSegSize + 1, DiSegEnd(k, m.len)))]

\* send() claims all the slots of a message at once; one that is larger than the
\* ring is refused with an exception.
DiRefused(id) == Len(DiSlots(id)) > DiCapacity
DiSend ==
  LET id == diSent + 1 IN
  /\ diSent < Len(diSet.sends)
  /\ diSent' = id
  /\ IF DiRefused(id) THEN UNCHANGED diRing
     ELSE /\ Len(diRing) - diRead + Len(DiSlots(id)) <= DiCapacity
          /\ diRing' = diRing \o DiSlots(id)
  /\ UNCHANGED <<diRigid, diRead, diBatch, diProc, diDone, diUser, diPc, diThrows, diSkips, diGhosts>>

-----------------------------------------------------------------------------
(* Dispatching *)

\* Mutant of DiSortIndex: JustBytes is sorted by its tag.
DiSortIndexAsTag(t) == t.lo % 256
\* The interests are sorted by the lower 8 bits of their tags, JustBytes counting
\* as 65535; of equals, the one listed later comes first.
DiSortIndex(t) == (IF t.bytes THEN 65535 ELSE t.lo) % 256
DiInsert(t, sorted) ==
  LET before == SelectSeq(sorted, LAMBDA u : ~(DiSortIndex(t) < DiSortIndex(u)))
      after == SelectSeq(sorted, LAMBDA u : DiSortIndex(t) < DiSortIndex(u))
  IN  before \o <<t>> \o after
DiSortedOf(interests) ==
  LET n == Len(interests)
      last[i \in 0..n] == IF i = 0 THEN <<>> ELSE DiInsert(interests[n - i + 1], last[i - 1])
  IN  last[n]

DiMatch(t, tag) == IF t.bytes THEN tag > DiLastSystem ELSE tag >= t.lo /\ tag < t.lo + t.n

DiNoAtt == [live |-> FALSE, tag |-> 0, id |-> 0, len |-> 0, acc |-> <<>>]
\* cache: the head starts the attachment, or is the whole of it.
DiCached(slot) ==
  [live |-> diSet.sends[slot.id].len > 0, tag |-> slot.under, id |-> slot.id,
   len |-> diSet.sends[slot.id].len, acc |-> <<>>]
\* accumulate: at most what is missing is taken.
DiAccumulated(proc, bytes) ==
  LET missing == proc.len - Len(proc.acc)
      n == IF missing < Len(bytes) THEN missing ELSE Len(bytes)
  IN  [proc EXCEPT !.acc = @ \o SubSeq(bytes, 1, n)]

\* What a type makes of a slot: whether it is done with it, the callbacks that are
\* due, and the attachment.  accumulate takes no byte twice, so that it matters
\* not how many types saw a segment before.
DiOutcome(done, calls, proc) == [done |-> done, calls |-> calls, proc |-> proc]
DiCall(t, id, bytes) == <<[type |-> t, id |-> id, bytes |-> bytes]>>

\* A client has an ibmaProc when one of its interests is a hasMemoryAttachment.
DiHasProc == \E i \in DOMAIN diTypes : diTypes[i].att
DiMayCall(slot) == ~(diSet.avoids /\ diSet.sends[slot.id].own)

\* The slot is of the type t.
DiPlain(t, slot) ==
  DiOutcome(TRUE, IF DiMayCall(slot) THEN DiCall(t, slot.id, <<>>) ELSE <<>>, diProc)
\* A slot while an attachment is being put together.
DiMore(t, slot) ==
  LET now == DiAccumulated(diProc, slot.bytes)
      whole == Len(now.acc) = now.len
  IN  IF slot.tag # DiSeg THEN DiOutcome(FALSE, <<>>, diProc)
      ELSE IF whole /\ DiMatch(t, now.tag)
             THEN DiOutcome(TRUE, DiCall(t, now.id, now.acc), now)
             ELSE DiOutcome(~whole, <<>>, now)
\* A head.
DiBegin(t, slot) ==
  IF slot.tag # DiHead \/ ~DiMatch(t, slot.under) THEN DiOutcome(FALSE, <<>>, diProc)
  ELSE IF ~DiMayCall(slot) THEN DiOutcome(TRUE, <<>>, diProc)
  ELSE IF diSet.sends[slot.id].len = 0 THEN DiOutcome(TRUE, DiCall(t, slot.id, <<>>), diProc)
  ELSE DiOutcome(TRUE, <<>>, DiCached(slot))

DiTry(t, slot) ==
  CASE DiMatch(t, slot.tag) -> DiPlain(t, slot)
    [] ~DiMatch(t, slot.tag) /\ (t.att \/ t.bytes) /\ DiHasProc ->
         IF diProc.live THEN DiMore(t, slot) ELSE DiBegin(t, slot)
    [] OTHER -> DiOutcome(FALSE, <<>>, diProc)

\* One type after the other until one is done with the slot.
DiInTurn(slot) ==
  LET finished == {i \in DOMAIN diTypes : DiTry(diTypes[i], slot).done}
      saw == {DiTry(diTypes[i], slot).proc : i \in DOMAIN diTypes} \ {diProc}
  IN  IF finished # {} THEN DiTry(diTypes[Min(finished)], slot)
      ELSE DiOutcome(FALSE, <<>>, IF saw = {} THEN diProc ELSE CHOOSE proc \in saw : TRUE)

\* Binary search among more than 16 types.
DiCompare(t, tag) == IF tag < t.lo THEN -1 ELSE IF tag > t.lo + t.n - 1 THEN 1 ELSE 0
DiSearched(slot) ==
  LET n == Len(diTypes)
      among[from \in 0..n, to \in 0..n] ==
        LET at == (from + to) \div 2
            o == DiTry(diTypes[at + 1], slot)
            way == DiCompare(diTypes[at + 1], slot.tag)
            rest == IF way < 0 THEN among[from, at] ELSE among[at + 1, to]
        IN  IF from >= to THEN DiOutcome(FALSE, <<>>, diProc)
            ELSE IF o.done \/ way = 0 THEN o
            ELSE IF ~rest.done /\ rest.proc = diProc THEN o ELSE rest
  IN  among[0, n]

DiDispatched(slot) == IF Len(diSet.interests) > DiMany THEN DiSearched(slot) ELSE DiInTurn(slot)

-----------------------------------------------------------------------------
(* The user's callbacks: a client with wants uses its messages in that order, *)
(* opening the stash with each and stashing what comes too early.             *)

DiUses(id) == diTaken \o <<id>> = SubSeq(diSet.wants, 1, Len(diTaken) + 1)
DiOpened(stash) == Len(stash)
DiUserDoes(calls, stash, open) ==
  IF diSet.wants = <<>> \/ calls = <<>> THEN diStash' = stash /\ diOpen' = open /\ UNCHANGED diTaken
  ELSE IF DiUses(calls[1].id)
       THEN /\ diTaken' = Append(diTaken, calls[1].id)
            /\ diStash' = stash /\ diOpen' = DiOpened(stash)
       ELSE /\ diStash' = Append(stash, calls[1].id) /\ diOpen' = open
            /\ UNCHANGED diTaken

\* After a callback for an attachment its memory is released.
DiReleased(slot, o) == IF slot.tag = DiSeg /\ o.calls # <<>> THEN DiNoAtt ELSE o.proc

DiLog(calls) == diHandled' = diHandled \o [i \in DOMAIN calls |->
                                             [call |-> calls[i], throws |-> diThrows]]

DiPeek ==
  /\ diPc = "running" /\ diBatch = <<>> /\ diRead < Len(diRing)
  /\ diBatch' = <<diRead + 1,
                  IF Len(diRing) - diRead < diSet.batch THEN Len(diRing) ELSE diRead + diSet.batch>>
  /\ UNCHANGED <<diRigid, diSent, diRing, diRead, diProc, diDone, diUser, diPc, diThrows, diSkips, diGhosts>>

\* One slot; its callback, if there is one, returns, or calls batchDone.
DiHandle(done) ==
  /\ diPc = "running" /\ diBatch # <<>> /\ ~diDone
  /\ diBatch[1] <= diBatch[2]
  /\ LET o == DiDispatched(diRing[diBatch[1]]) IN
     /\ done => o.calls # <<>> /\ diSkips < diSet.skips
     /\ diProc' = DiReleased(diRing[diBatch[1]], o)
     /\ DiUserDoes(o.calls, diStash, diOpen)
     /\ DiLog(o.calls)
  /\ diBatch' = [diBatch EXCEPT ![1] = @ + 1]
  /\ diDone' = done /\ diSkips' = IF done THEN diSkips + 1 ELSE diSkips
  /\ UNCHANGED <<diRigid, diSent, diRing, diRead, diPc, diThrows, diSkipped>>

\* The callback throws: the batch is not wasted; droppedCb puts the client back
\* or lets it go.
DiThrow(back) ==
  /\ diPc = "running" /\ diBatch # <<>> /\ ~diDone
  /\ diBatch[1] <= diBatch[2] /\ diThrows < diSet.throws
  /\ LET o == DiDispatched(diRing[diBatch[1]]) IN
     /\ o.calls # <<>>
     /\ diProc' = o.proc
     /\ DiLog(o.calls)
  /\ diBatch' = <<>> /\ diThrows' = diThrows + 1
  /\ diPc' = IF back THEN "running" ELSE "gone"
  /\ UNCHANGED <<diRigid, diSent, diRing, diRead, diDone, diUser, diSkips, diSkipped>>

\* The end of the batch, or what is left of it after batchDone.
DiRangeEnds ==
  /\ diPc = "running" /\ diBatch # <<>>
  /\ diDone \/ diBatch[1] > diBatch[2]
  /\ diDone' = FALSE /\ diPc' = "stash"
  /\ diSkipped' = diSkipped \cup {diRing[k].id : k \in diBatch[1]..diBatch[2]}
  /\ UNCHANGED <<diRigid, diSent, diRing, diRead, diBatch, diProc, diUser, diThrows, diSkips, diHandled>>

\* consumeStash dispatches the front of the stash, then removes it.
DiPopped(stash) == Tail(stash)
DiConsume ==
  /\ diPc = "stash" /\ diOpen > 0
  /\ LET id == Head(diStash)
         o == DiDispatched(DiSlot(diSet.sends[id].tag, 0, id, <<>>))
     IN  /\ IF DiUses(id)
            THEN diTaken' = Append(diTaken, id) /\ diStash' = DiPopped(diStash)
                 /\ diOpen' = DiOpened(diStash) - 1
            ELSE diStash' = DiPopped(Append(diStash, id)) /\ diOpen' = diOpen - 1
                 /\ UNCHANGED diTaken
         /\ DiLog(o.calls)
  /\ UNCHANGED <<diRigid, diSent, diRing, diRead, diBatch, diProc, diDone, diPc, diThrows, diSkips, diSkipped>>

DiWastedTo == diBatch[2]
DiWaste ==
  /\ diPc = "stash" /\ diOpen = 0
  /\ diRead' = DiWastedTo /\ diBatch' = <<>> /\ diPc' = "running"
  /\ UNCHANGED <<diRigid, diSent, diRing, diProc, diDone, diUser, diThrows, diSkips, diGhosts>>

-----------------------------------------------------------------------------
DiInit ==
  /\ diSet \in DiSettings /\ diTypes = DiSortedOf(diSet.interests)
  /\ diSent = 0 /\ diRing = <<>> /\ diRead = 0 /\ diBatch = <<>> /\ diProc = DiNoAtt
  /\ diDone = FALSE /\ diStash = <<>> /\ diOpen = 0 /\ diTaken = <<>> /\ diPc = "running"
  /\ diThrows = 0 /\ diSkips = 0 /\ diHandled = <<>> /\ diSkipped = {}
DiClient == DiPeek \/ DiHandle(FALSE) \/ DiRangeEnds \/ DiConsume \/ DiWaste
DiNext ==
  \/ DiSend
  \/ DiClient
  \/ DiHandle(TRUE)
  \/ \E back \in BOOLEAN : DiThrow(back)
\* Senders send what they have; the thread of the client runs.
DiFairness == WF_diVars(DiSend) /\ WF_diVars(DiClient)
DiSpec == DiInit /\ [][DiNext]_diVars /\ DiFairness

-----------------------------------------------------------------------------
\* A batch is a range of committed slots not given back yet, and no attachment has more
\* bytes copied than its head announced (MessageDispacher.hpp:72-104).
DiTypeOK ==
  /\ diSet \in DiSettings /\ diSent \in 0..Len(diSet.sends)
  /\ diRead \in 0..Len(diRing) /\ Len(diRing) - diRead <= DiCapacity
  /\ diBatch # <<>> => diBatch[2] \in 1..Len(diRing) /\ diBatch[1] \in 1..diBatch[2] + 1
  /\ Len(diProc.acc) <= diProc.len
  /\ diOpen \in 0..Len(diStash)
  /\ diPc \in {"running", "stash", "gone"}

\* The type whose callback a message is for: the interest that names its tag,
\* else JustBytes.
DiOwners(id) ==
  LET matching == {i \in DOMAIN diSet.interests : DiMatch(diSet.interests[i], diSet.sends[id].tag)}
      named == {i \in matching : ~diSet.interests[i].bytes}
  IN  {diSet.interests[i] : i \in IF named # {} THEN named ELSE matching}
DiCalled(id) == \E i \in DOMAIN diHandled : diHandled[i].call.id = id
DiPassed(id) == \A k \in DOMAIN diRing : diRing[k].id = id => k <= diRead

\* Every callback gets a message of its own type with its attachment complete and
\* unmixed, also when a batch is dispatched again after an exception
\* (MessageDispacher.hpp:30-130, Client.hpp:20-58).
DiRightCallback ==
  \A i \in DOMAIN diHandled :
    LET call == diHandled[i].call IN
    /\ call.type \in DiOwners(call.id)
    /\ call.bytes = DiBytes(call.id)

\* The client leaves no message behind that it is interested in, except those it
\* skipped with batchDone and its own when it avoids them: once the slots of a
\* message are given back its callback has been called
\* (MessageDispacher.hpp:142-179, Context.hpp:287-354).
DiNonePassed ==
  \A id \in 1..diSent :
    /\ ~DiRefused(id) /\ DiPassed(id) /\ DiOwners(id) # {} /\ id \notin diSkipped
    /\ ~(diSet.avoids /\ diSet.sends[id].own)
    => DiCalled(id)

\* As long as no callback throws, a client that does not stash gets each message
\* at most once and in the order sent (Client.hpp:247-257).
DiInOrder ==
  diSet.wants = <<>> =>
    \A i, j \in DOMAIN diHandled :
      i < j /\ diHandled[j].throws = 0 => diHandled[i].call.id < diHandled[j].call.id

\* A client that stashes what comes too early uses every message in the order it
\* wants, whatever the order sent (ClientWithStash.hpp:16-17, 63-89).
DiAllUsed == diTaken = diSet.wants

\* Everything sent is dispatched and given back, and a sender that waits for room
\* goes on, unless the client left (ContextDetail.hpp:134-169).
DiAllRead == diPc = "gone" \/ (diSent = Len(diSet.sends) /\ diRead = Len(diRing))

\* What the dispatcher and a client's attachment buffer keep true: the right callback, no
\* message passed over, and in order.
DiSafety == DiTypeOK /\ DiRightCallback /\ DiNonePassed /\ DiInOrder

\* Stashed messages are used and everything sent is read.
DiSettled == DiAllUsed /\ DiAllRead
=============================================================================
