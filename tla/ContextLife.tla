---------------------------- MODULE ContextLife ----------------------------
(***************************************************************************)
(* The life of Contexts that share a broadcast ring and of their clients    *)
(* in direct mode (app/Context.hpp, runOnceImpl of app/ContextDetail.hpp):  *)
(* start() reserves an index of the ring for each client and kicks off its  *)
(* thread; the thread runs rounds until its client throws or the Context    *)
(* stops, drains, calls droppedCb and gives the index back.  A Context that *)
(* is out of indexes fails to start and gives back what it had reserved;    *)
(* with IPC several processes do all this under a file lock, one of them    *)
(* may crash, and the creator of the transport runs a purger and marks      *)
(* every cursor dead when it is destroyed.                                  *)
(*                                                                          *)
(* The ring is abstracted to the number of messages in it and the cursors:  *)
(* claim, commit, peek, reset and purge are one step each (MemRingBuffer    *)
(* has their steps).  A round that finds no message changes nothing but may *)
(* see the Context stop, and only this is kept of it.                       *)
(***************************************************************************)
EXTENDS Integers, Sequences, FiniteSets, FiniteSetsExt, SequencesExt

CONSTANTS
  CxContexts,   \* Contexts attached to the ring, one process each
  CxClients,    \* direct mode clients
  CxNumbers,    \* hmbdcNumbers: indexes of the ring
  CxRingCap,    \* capacity of the ring
  CxMaxLog,     \* bound: messages in the ring, the purger's Flush included
  CxSettings    \* what the users do: see CxAssumption

\* calls: the clients of each start(), in order; sends, flushes: bounds of the
\* messages sent by users, in groups of batch, and by the purger; tries: users
\* call trySend; throws: the message at which a client throws, if any; stays: how
\* often its droppedCb returns false; bad: clients whose start callback throws;
\* slow: clients that may take longer than a purge period for a round; stops,
\* destroys, crashes: Contexts to which this happens.
CxDEAD == 100       \* READ_SEQ_MAX
CxNever == -1
CxNobody == "nobody"
ASSUME CxAssumption ==
  /\ CxNumbers \subseteq Nat /\ CxRingCap \in Nat \ {0} /\ CxMaxLog \in 0..(CxDEAD - 1)
  /\ \A s \in CxSettings :
       /\ s.calls \in [CxContexts -> Seq(Seq(CxClients))]
       /\ s.sends \in Nat /\ s.flushes \in Nat /\ s.sends + s.flushes <= CxMaxLog
       /\ s.batch \in 1..CxRingCap /\ s.tries \in BOOLEAN
       /\ s.throws \in [CxClients -> CxNever..CxMaxLog] /\ s.stays \in [CxClients -> Nat]
       /\ s.bad \subseteq CxClients /\ s.slow \subseteq CxClients
       /\ s.stops \subseteq CxContexts /\ s.destroys \subseteq s.stops
       /\ s.crashes \subseteq CxContexts
       /\ s.creator \subseteq CxContexts /\ s.purge \in BOOLEAN /\ s.ipc \in BOOLEAN
       \* A client is given to one start() only; without IPC there is one process.
       /\ \A x, y \in CxContexts : \A k \in DOMAIN s.calls[x], l \in DOMAIN s.calls[y] :
            \A m \in DOMAIN s.calls[x][k], n \in DOMAIN s.calls[y][l] :
              s.calls[x][k][m] = s.calls[y][l][n] => x = y /\ k = l /\ m = n
       /\ s.ipc \/ \A x, y \in CxContexts : s.calls[x] # <<>> /\ s.calls[y] # <<>> => x = y

VARIABLES
  cxSet,      \* the setting explored, chosen once
  cxLock,     \* Contexts that hold the file lock of the transport
  cxLog,      \* messages in the ring since it was made: 0, 1, ... cxLog - 1
  cxSent,     \* messages sent by the users
  cxCur,      \* cursor of each index, CxDEAD or more when nobody reads there
  cxNoted,    \* readSeqLastPurge_
  cxPurger,   \* the purger's thread: "off", "on", "gone"
  cxUser,     \* the thread of each process that starts, stops and destroys
  cxStopped,  \* stopped_ of each Context
  cxC,        \* local state of each client's thread
  cxGot,      \* messages each client handled
  cxDrops,    \* calls of droppedCb that returned true
  cxPurged    \* clients whose cursor another thread marked dead

cxVars == <<cxSet, cxLock, cxLog, cxSent, cxCur, cxNoted, cxPurger, cxUser, cxStopped,
            cxC, cxGot, cxDrops, cxPurged>>
cxRing == <<cxLog, cxSent, cxCur, cxNoted>>
cxSeen == <<cxGot, cxDrops>>

CxIdleUser == [at |-> "idle", call |-> 1, todo |-> <<>>, slots |-> <<>>, seen |-> CxNever]
CxOffClient == [at |-> "off", ix |-> CxNever, n |-> 0, in |-> TRUE, of |-> CxNobody, stays |-> 0,
                seen |-> CxNever]

\* The ends of a client's thread: after unblock, after its start callback
\* threw, by std::terminate, with its process.
CxEnds == {"gone", "lost", "terminated", "crashed"}
CxRuns(c) == cxC[c].at \notin CxEnds \cup {"off"}
CxDead(i) == cxCur[i] >= CxDEAD
\* The clients that read with one of these indexes or are about to.
CxReaders(ixs) ==
  {c \in CxClients : \/ CxRuns(c) /\ cxC[c].ix \in ixs
                     \/ \E x \in CxContexts : \E k \in DOMAIN cxUser[x].slots :
                          cxUser[x].todo[k] = c /\ cxUser[x].slots[k] \in ixs}
\* readSeqLow: CxDEAD when there is no reader.
CxLow == Min({cxCur[i] : i \in CxNumbers})
CxRoom(n) == cxLog + n <= CxRingCap + CxLow

-----------------------------------------------------------------------------
(* The users: send, start, stop, join, destruction.                         *)

\* The messages of one send: as many as the setting groups, all or none.
CxBatch == Min({cxSet.batch, cxSet.sends - cxSent})

\* send waits for room ...
CxSend ==
  /\ cxSent < cxSet.sends /\ CxRoom(CxBatch)
  /\ cxSent' = cxSent + CxBatch /\ cxLog' = cxLog + CxBatch
  /\ UNCHANGED <<cxSet, cxLock, cxCur, cxNoted, cxPurger, cxUser, cxStopped, cxC, cxSeen,
                 cxPurged>>

\* ... and trySend gives up without it.
CxTrySendFails ==
  /\ cxSent < cxSet.sends /\ cxSet.tries /\ ~CxRoom(CxBatch)
  /\ cxSent' = cxSent + CxBatch
  /\ UNCHANGED <<cxSet, cxLock, cxLog, cxCur, cxNoted, cxPurger, cxUser, cxStopped, cxC,
                 cxSeen, cxPurged>>

CxUserTo(x, u) == cxUser' = [cxUser EXCEPT ![x] = u]

\* Mutant of CxMayLock: no process waits for the lock.
CxMayLockAlways(x) == TRUE
\* The file lock excludes the start() of other processes; without IPC there is
\* no lock, and no other process.
CxMayLock(x) == cxSet.ipc => cxLock = {}

CxStart(x) ==
  LET u == cxUser[x] IN
  /\ u.at = "idle" /\ u.call <= Len(cxSet.calls[x])
  /\ CxMayLock(x)
  /\ cxLock' = cxLock \cup {x}
  /\ CxUserTo(x, [u EXCEPT !.at = "look", !.todo = cxSet.calls[x][u.call], !.slots = <<>>])
  /\ UNCHANGED <<cxSet, cxRing, cxPurger, cxStopped, cxC, cxSeen, cxPurged>>

\* unusedConsumerIndexes: the indexes whose cursor is exactly READ_SEQ_MAX.
CxUnused == {i \in CxNumbers : cxCur[i] = CxDEAD}

\* reserveSlots takes the first unused index for each client ...
CxLook(x) ==
  LET u == cxUser[x] IN
  /\ u.at = "look"
  /\ CxUserTo(x, IF Len(u.slots) = Len(u.todo) THEN [u EXCEPT !.at = "kick"]
                 ELSE IF CxUnused = {} THEN [u EXCEPT !.at = "fail"]
                 ELSE [u EXCEPT !.at = "reset", !.seen = Min(CxUnused)])
  /\ UNCHANGED <<cxSet, cxLock, cxRing, cxPurger, cxStopped, cxC, cxSeen, cxPurged>>

\* ... and moves its cursor to the end of the ring.
CxReset(x) ==
  LET u == cxUser[x] IN
  /\ u.at = "reset"
  /\ cxCur' = [cxCur EXCEPT ![u.seen] = cxLog]
  /\ CxUserTo(x, [u EXCEPT !.at = "look", !.slots = Append(u.slots, u.seen), !.seen = CxNever])
  /\ UNCHANGED <<cxSet, cxLock, cxLog, cxSent, cxNoted, cxPurger, cxStopped, cxC, cxSeen,
                 cxPurged>>

\* What markDead is given when start() is out of indexes.
CxToGiveBack(slots) == ToSet(slots)

CxFail(x) ==
  LET u == cxUser[x] IN
  /\ u.at = "fail"
  /\ cxCur' = [i \in CxNumbers |-> IF i \in CxToGiveBack(u.slots) THEN CxDEAD ELSE cxCur[i]]
  /\ cxLock' = cxLock \ {x}
  /\ CxUserTo(x, [CxIdleUser EXCEPT !.call = u.call + 1])
  /\ UNCHANGED <<cxSet, cxLog, cxSent, cxNoted, cxPurger, cxStopped, cxC, cxSeen, cxPurged>>

\* startWithContextPropertyImpl: a thread for each client, with its index.
CxKick(x) ==
  LET u == cxUser[x] IN
  /\ u.at = "kick" /\ u.todo # <<>>
  /\ cxC' = [cxC EXCEPT ![Head(u.todo)] =
               [CxOffClient EXCEPT !.at = "born", !.ix = Head(u.slots), !.of = x]]
  /\ CxUserTo(x, [u EXCEPT !.todo = Tail(u.todo), !.slots = Tail(u.slots)])
  /\ UNCHANGED <<cxSet, cxLock, cxRing, cxPurger, cxStopped, cxSeen, cxPurged>>

\* Last, the first start() of the creator starts the purger; the lock is freed.
CxStarted(x) ==
  LET u == cxUser[x] IN
  /\ u.at = "kick" /\ u.todo = <<>>
  /\ cxPurger' = IF x \in cxSet.creator /\ cxSet.purge /\ cxPurger = "off" THEN "on"
                 ELSE cxPurger
  /\ cxLock' = cxLock \ {x}
  /\ CxUserTo(x, [CxIdleUser EXCEPT !.call = u.call + 1])
  /\ UNCHANGED <<cxSet, cxRing, cxStopped, cxC, cxSeen, cxPurged>>

CxStop(x) ==
  LET u == cxUser[x] IN
  /\ u.at = "idle" /\ u.call > Len(cxSet.calls[x]) /\ x \in cxSet.stops
  /\ cxStopped' = [cxStopped EXCEPT ![x] = TRUE]
  /\ CxUserTo(x, [u EXCEPT !.at = "joining"])
  /\ UNCHANGED <<cxSet, cxLock, cxRing, cxPurger, cxC, cxSeen, cxPurged>>

CxJoin(x) ==
  LET u == cxUser[x] IN
  /\ u.at = "joining"
  /\ \A c \in CxClients : cxC[c].of = x => cxC[c].at \in {"gone", "lost"}
  /\ x \in cxSet.creator => cxPurger # "on"
  /\ CxUserTo(x, [u EXCEPT !.at = "joined"])
  /\ UNCHANGED <<cxSet, cxLock, cxRing, cxPurger, cxStopped, cxC, cxSeen, cxPurged>>

\* ~Context of the creator: every reader of the transport is told that it is dead.
CxDestroy(x) ==
  LET u == cxUser[x] IN
  /\ u.at = "joined" /\ x \in cxSet.destroys \cap cxSet.creator
  /\ cxCur' = [i \in CxNumbers |-> CxDEAD]
  /\ cxPurged' = cxPurged \cup CxReaders(CxNumbers)
  /\ CxUserTo(x, [u EXCEPT !.at = "destroyed"])
  /\ UNCHANGED <<cxSet, cxLock, cxLog, cxSent, cxNoted, cxPurger, cxStopped, cxC, cxSeen>>

\* The process dies: the system frees the file lock and nothing else.
CxCrash(x) ==
  /\ x \in cxSet.crashes /\ cxUser[x].at # "crashed"
  /\ CxUserTo(x, [cxUser[x] EXCEPT !.at = "crashed"])
  /\ cxLock' = cxLock \ {x}
  /\ cxC' = [c \in CxClients |-> IF cxC[c].of = x /\ CxRuns(c)
                                 THEN [cxC[c] EXCEPT !.at = "crashed"] ELSE cxC[c]]
  /\ UNCHANGED <<cxSet, cxRing, cxPurger, cxStopped, cxSeen, cxPurged>>

-----------------------------------------------------------------------------
(* The thread of a client: kickOffClientThread and runOnceImpl.             *)

CxTo(c, r) == cxC' = [cxC EXCEPT ![c] = r]
CxMyStop(c) == cxStopped[cxC[c].of]
CxLocal == <<cxSet, cxLock, cxLog, cxSent, cxNoted, cxPurger, cxUser, cxStopped>>

\* messageDispatchingStartedCb; when it throws the thread ends at once.
CxBorn(c) ==
  /\ cxC[c].at = "born"
  /\ CxTo(c, [cxC[c] EXCEPT !.at = IF c \in cxSet.bad THEN "lost" ELSE "check"])
  /\ UNCHANGED <<CxLocal, cxCur, cxSeen, cxPurged>>

\* while (!stopped_ ...: seen here, the client is still in.
CxLeaves(c) == CxMyStop(c)
CxCheck(c) ==
  /\ cxC[c].at = "check"
  /\ CxTo(c, [cxC[c] EXCEPT !.at = IF CxLeaves(c) THEN "stop" ELSE "peek"])
  /\ UNCHANGED <<CxLocal, cxCur, cxSeen, cxPurged>>

\* Every message there is, up to maxBatchMessageCount, which is unlimited; a
\* dead cursor makes peek throw.
CxFound(i) == cxLog - cxCur[i]
CxPeek(c) ==
  LET i == cxC[c].ix IN
  /\ cxC[c].at = "peek"
  /\ IF CxDead(i) THEN CxTo(c, [cxC[c] EXCEPT !.at = "caught"])
     ELSE /\ CxFound(i) > 0
          /\ CxTo(c, [cxC[c] EXCEPT !.at = "handle", !.seen = cxCur[i], !.n = CxFound(i)])
  /\ UNCHANGED <<CxLocal, cxCur, cxSeen, cxPurged>>

\* A round without a message that sees the Context stop at its end.  Those that
\* do not are left out: the client may be at the check again.
CxIdleRound(c) ==
  /\ cxC[c].at = "peek" /\ CxLeaves(c) /\ cxCur[cxC[c].ix] = cxLog
  /\ CxTo(c, [cxC[c] EXCEPT !.at = "stop", !.in = FALSE])
  /\ UNCHANGED <<CxLocal, cxCur, cxSeen, cxPurged>>

\* handleRangeImpl over the messages that peek found; an exception ends it.
CxHandle(c) ==
  LET r == cxC[c]
      end == r.seen + r.n - 1
      throws == cxSet.throws[c] \in r.seen..end
      upTo == IF throws THEN cxSet.throws[c] ELSE end
  IN
  /\ r.at = "handle"
  /\ cxGot' = [cxGot EXCEPT ![c] = @ \o [k \in 1..(upTo - r.seen + 1) |-> r.seen + k - 1]]
  /\ CxTo(c, [r EXCEPT !.at = IF throws THEN "caught" ELSE "waste"])
  /\ UNCHANGED <<CxLocal, cxCur, cxDrops, cxPurged>>

\* wasteAfterPeek: the cursor moves by what peek found, wherever it is now.
CxWastes(c) == cxC[c].n
CxWaste(c) ==
  /\ cxC[c].at = "waste"
  /\ cxCur' = [cxCur EXCEPT ![cxC[c].ix] = @ + CxWastes(c)]
  /\ CxTo(c, [cxC[c] EXCEPT !.at = "turn", !.seen = CxNever, !.n = 0])
  /\ UNCHANGED <<CxLocal, cxSeen, cxPurged>>

\* return !stopped.
CxTurn(c) ==
  /\ cxC[c].at = "turn"
  /\ CxTo(c, IF CxMyStop(c) THEN [cxC[c] EXCEPT !.at = "stop", !.in = FALSE]
             ELSE [cxC[c] EXCEPT !.at = "check"])
  /\ UNCHANGED <<CxLocal, cxCur, cxSeen, cxPurged>>

\* The exception handlers: nothing once stopped; otherwise stoppedCb and
\* droppedCb, which puts the client back when it returns false.
CxCaught(c) ==
  LET r == [cxC[c] EXCEPT !.seen = CxNever, !.n = 0] IN
  /\ r.at = "caught"
  /\ IF CxMyStop(c)
     THEN CxTo(c, [r EXCEPT !.at = "stop", !.in = FALSE]) /\ UNCHANGED cxDrops
     ELSE IF r.stays < cxSet.stays[c]
     THEN CxTo(c, [r EXCEPT !.at = "check", !.stays = @ + 1]) /\ UNCHANGED cxDrops
     ELSE /\ CxTo(c, [r EXCEPT !.at = "stop", !.in = FALSE])
          /\ cxDrops' = [cxDrops EXCEPT ![c] = @ + 1]
  /\ UNCHANGED <<CxLocal, cxCur, cxGot, cxPurged>>

\* After the loop: if the Context stopped, messages are drained ...
CxLeave(c) ==
  /\ cxC[c].at = "stop"
  /\ CxTo(c, [cxC[c] EXCEPT !.at = IF CxMyStop(c) THEN "drain" ELSE "unblock"])
  /\ UNCHANGED <<CxLocal, cxCur, cxSeen, cxPurged>>

\* ... by a peek outside the try block, and a wasteAfterPeek ...
CxDrain(c) ==
  LET i == cxC[c].ix IN
  /\ cxC[c].at = "drain"
  /\ CxTo(c, [cxC[c] EXCEPT !.at = IF CxDead(i) THEN "terminated"
                                   ELSE IF cxCur[i] < cxLog THEN "drain" ELSE "last"])
  /\ cxCur' = IF CxDead(i) THEN cxCur ELSE [cxCur EXCEPT ![i] = cxLog]
  /\ UNCHANGED <<CxLocal, cxSeen, cxPurged>>

\* Mutant of CxStillIn: a client that has left is dropped once more.
CxStillInAlways(c) == TRUE
\* ... and a client that is still in is dropped.
CxStillIn(c) == cxC[c].in
CxLast(c) ==
  /\ cxC[c].at = "last"
  /\ cxDrops' = [cxDrops EXCEPT ![c] = @ + IF CxStillIn(c) THEN 1 ELSE 0]
  /\ CxTo(c, [cxC[c] EXCEPT !.at = "unblock"])
  /\ UNCHANGED <<CxLocal, cxCur, cxGot, cxPurged>>

\* unblock: the index is given back.
CxGivenBack(i) == CxDEAD
CxUnblock(c) ==
  LET i == cxC[c].ix IN
  /\ cxC[c].at = "unblock"
  /\ cxCur' = [cxCur EXCEPT ![i] = CxGivenBack(i)]
  /\ CxTo(c, [cxC[c] EXCEPT !.at = "gone"])
  /\ UNCHANGED <<CxLocal, cxSeen, cxPurged>>

-----------------------------------------------------------------------------
(* The purger of the creator's process.                                     *)

CxPurgerLeaves ==
  /\ cxPurger = "on" /\ \E x \in cxSet.creator : cxStopped[x]
  /\ cxPurger' = "gone"
  /\ UNCHANGED <<cxSet, cxLock, cxRing, cxUser, cxStopped, cxC, cxSeen, cxPurged>>

\* MemRingBuffer::purge: readers that have not moved since the last purge
\* although there was a message for them, if they are the slowest.
CxSlowest == Min({i \in CxNumbers : cxCur[i] = CxLow})
CxToPurge(i) == cxNoted[i] = cxCur[i] /\ i = CxSlowest
CxUnread(i) == ~CxDead(i) /\ cxCur[i] < cxLog

\* A purge period is longer than a start() and a round of a client that is not slow.
CxPeriodPassed ==
  /\ \A c \in CxClients \ cxSet.slow :
       (CxRuns(c) /\ ~CxDead(cxC[c].ix)) => cxNoted[cxC[c].ix] # cxCur[cxC[c].ix]
  /\ \A x \in CxContexts : cxUser[x].at # "crashed" =>
       \A i \in ToSet(cxUser[x].slots) : cxNoted[i] # cxCur[i]

\* invokedCb: purge, then tryPut of a Flush.
CxPurge ==
  LET marked == {i \in CxNumbers : ~CxDead(i) /\ CxToPurge(i)}
      put == cxLog - cxSent < cxSet.flushes
             /\ cxLog < CxRingCap + Min({CxDEAD} \cup {cxCur[i] : i \in CxNumbers \ marked})
  IN
  /\ cxPurger = "on" /\ CxPeriodPassed
  /\ cxNoted' = [i \in CxNumbers |-> IF CxUnread(i) THEN cxCur[i] ELSE cxNoted[i]]
  /\ cxCur' = [i \in CxNumbers |-> IF i \in marked THEN CxDEAD ELSE cxCur[i]]
  /\ cxPurged' = cxPurged \cup CxReaders(marked)
  /\ cxLog' = IF put THEN cxLog + 1 ELSE cxLog
  /\ UNCHANGED <<cxSet, cxLock, cxSent, cxPurger, cxUser, cxStopped, cxC, cxSeen>>

-----------------------------------------------------------------------------
CxInit ==
  /\ cxSet \in CxSettings
  /\ cxLock = {} /\ cxLog = 0 /\ cxSent = 0
  /\ cxCur = [i \in CxNumbers |-> CxDEAD] /\ cxNoted = [i \in CxNumbers |-> CxNever]
  /\ cxPurger = "off" /\ cxUser = [x \in CxContexts |-> CxIdleUser]
  /\ cxStopped = [x \in CxContexts |-> FALSE] /\ cxC = [c \in CxClients |-> CxOffClient]
  /\ cxGot = [c \in CxClients |-> <<>>] /\ cxDrops = [c \in CxClients |-> 0]
  /\ cxPurged = {}

CxUserStep(x) ==
  \/ CxStart(x) \/ CxLook(x) \/ CxReset(x) \/ CxFail(x) \/ CxKick(x) \/ CxStarted(x)
  \/ CxStop(x) \/ CxJoin(x) \/ CxDestroy(x)
CxClientStep(c) ==
  \/ CxBorn(c) \/ CxCheck(c) \/ CxPeek(c) \/ CxIdleRound(c) \/ CxHandle(c) \/ CxWaste(c)
  \/ CxTurn(c) \/ CxCaught(c) \/ CxLeave(c) \/ CxDrain(c) \/ CxLast(c) \/ CxUnblock(c)

CxRunning ==
  \/ CxSend \/ CxTrySendFails \/ CxPurge \/ CxPurgerLeaves
  \/ \E x \in CxContexts : CxUserStep(x)
  \/ \E c \in CxClients : CxClientStep(c)
CxNext == CxRunning \/ \E x \in CxContexts : CxCrash(x)

\* No step can be taken for ever (every thread moves on or comes to rest), so
\* fairness of all threads together is fairness of each.  A crash is never due.
CxFairness == WF_cxVars(CxRunning)
CxSpec == CxInit /\ [][CxNext]_cxVars /\ CxFairness

-----------------------------------------------------------------------------
CxRunPoints == {"born", "check", "peek", "handle", "waste", "turn", "caught", "stop",
                "drain", "last", "unblock"}

\* Type correctness: cursors never pass the end of the ring, and a dead one is
\* moved by the batch in hand of one purged client at most.
CxTypeOK ==
  /\ cxLock \subseteq CxContexts /\ cxLog \in 0..CxMaxLog /\ cxSent \in 0..cxSet.sends
  /\ cxCur \in [CxNumbers -> (0..cxLog) \cup (CxDEAD..(CxDEAD + CxRingCap))]
  /\ cxNoted \in [CxNumbers -> CxNever..cxLog] /\ cxPurger \in {"off", "on", "gone"}
  /\ \A x \in CxContexts :
       LET u == cxUser[x] IN
       /\ u.at \in {"idle", "look", "reset", "kick", "fail", "joining", "joined",
                    "destroyed", "crashed"}
       /\ u.call \in 1..(Len(cxSet.calls[x]) + 1)
       /\ u.seen \in CxNumbers \cup {CxNever}
       /\ u.todo \in Seq(CxClients) /\ u.slots \in Seq(CxNumbers)
  /\ cxStopped \in [CxContexts -> BOOLEAN] /\ cxPurged \subseteq CxClients
  /\ \A c \in CxClients :
       LET r == cxC[c] IN
       /\ r.at \in CxRunPoints \cup CxEnds \cup {"off"}
       /\ r.ix \in CxNumbers \cup {CxNever} /\ r.n \in 0..CxRingCap
       /\ r.in \in BOOLEAN /\ r.of \in CxContexts \cup {CxNobody}
       /\ r.stays \in 0..cxSet.stays[c] /\ r.seen \in CxNever..cxLog
       /\ cxDrops[c] \in 0..1 /\ cxGot[c] \in Seq(0..(cxLog - 1))

\* A client reads with an index of its own from start() until it gives it back
\* (Context.hpp:1237, 1252): no two clients of any Context, and no start() under
\* way, have the same one, and it is alive unless the purger or the creator's
\* destruction marked it dead.  Broken by two processes that look for an unused
\* index at the same time, or by a failing start() that kills running clients.
CxOwnIndex ==
  LET reserved(x) == IF cxUser[x].at \in {"look", "kick", "fail"} THEN cxUser[x].slots
                     ELSE <<>> IN
  /\ \A c \in CxClients : (CxRuns(c) /\ c \notin cxPurged) => ~CxDead(cxC[c].ix)
  /\ \A c, d \in CxClients \ cxPurged :
       (c # d /\ CxRuns(c) /\ CxRuns(d)) => cxC[c].ix # cxC[d].ix
  /\ \A x \in CxContexts : \A k \in DOMAIN reserved(x) :
       /\ \A c \in CxClients \ cxPurged : CxRuns(c) => cxC[c].ix # reserved(x)[k]
       /\ \A y \in CxContexts : \A l \in DOMAIN reserved(y) :
            <<x, k>> # <<y, l>> => reserved(x)[k] # reserved(y)[l]

\* An index that holds senders back has somebody to answer for it: a client that
\* runs, a start() under way, or one whose thread or process ended without
\* unblock() and that only the purger can remove.  So no failed start, exit or
\* exception leaks one of the max_parallel_consumer indexes (Context.hpp:1258).
CxIndexAccounted ==
  \A i \in CxNumbers : ~CxDead(i) =>
    \/ \E c \in CxClients : cxC[c].ix = i /\ cxC[c].at \notin {"off", "gone"}
    \/ \E x \in CxContexts : i \in ToSet(cxUser[x].slots)

\* A client handles consecutive messages from where start() put it, each once:
\* only a client that droppedCb puts back sees again those of the batch its
\* exception interrupted, never later ones first (ContextDetail.hpp:134-169).
CxConsecutive ==
  \A c \in CxClients : \A k \in 2..Len(cxGot[c]) :
    \/ cxGot[c][k] = cxGot[c][k - 1] + 1
    \/ cxC[c].stays > 0 /\ cxSet.throws[c] = cxGot[c][k - 1]
       /\ \E j \in 1..(k - 1) : cxGot[c][j] = cxGot[c][k]

\* While a client is in its handlers no sender reuses the slots it reads, unless
\* the client was purged (ContextDetail.hpp:147, wasteAfterPeek only afterwards).
CxNotOverwritten ==
  \A c \in CxClients :
    (cxC[c].at = "handle" /\ c \notin cxPurged) => cxLog <= cxC[c].seen + CxRingCap

\* The final droppedCb comes at most once, and nothing is handled after it: the
\* owner may then delete the client (Context.hpp:1416).
CxGoneForGood ==
  [][\A c \in CxClients : cxDrops[c] > 0 =>
        cxGot'[c] = cxGot[c] /\ cxDrops'[c] = cxDrops[c]]_cxVars

\* stop() and join() end, and then every client of the Context is out of the
\* ring, although senders of other processes keep sending (Context.hpp:1399).
CxJoins == \A x \in CxContexts : cxUser[x].at # "joining"

\* Senders get through whatever becomes of the readers: clients that throw, are
\* stopped or fail to start, and, as long as a purger runs, processes that crash
\* with an index and clients that are stuck (StuckClientPurger.hpp:20).
CxSends == cxSent = cxSet.sends

\* Every client that keeps running catches up with the ring, having handled what
\* is in it, although others leave, are put back, crash or start meanwhile.
CxServed ==
  \A c \in CxClients :
    (CxRuns(c) /\ ~CxMyStop(c) /\ c \notin cxPurged)
      => /\ cxCur[cxC[c].ix] = cxLog
         /\ cxGot[c] # <<>> => Last(cxGot[c]) = cxLog - 1

\* What registration, peeking, the purger and the exit of client threads keep true of the
\* ring's cursors.
CxSafety == CxTypeOK /\ CxOwnIndex /\ CxIndexAccounted /\ CxConsecutive /\ CxNotOverwritten

\* Where starting, sending, stopping and purging lead to in the end.
CxSettled == CxJoins /\ CxSends /\ CxServed
=============================================================================
