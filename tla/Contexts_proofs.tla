--------------------------- MODULE Contexts_proofs ---------------------------
(***************************************************************************)
(* Proofs about ContextLife for every number of Contexts, clients and      *)
(* indexes and for everything their users may do; and about ThreadPool for *)
(* every number of threads, consumers and tasks, and any affinity.         *)
(***************************************************************************)
EXTENDS ContextLife, ThreadPool, SequenceTheorems, FiniteSetTheorems, WellFoundedInduction, TLAPS

-----------------------------------------------------------------------------
(* The inductive invariant of ContextLife. *)

CxUserPoints == {"idle", "look", "reset", "kick", "fail", "joining", "joined", "destroyed",
                 "crashed"}
CxUserType == [at : CxUserPoints, call : Nat \ {0}, todo : Seq(CxClients),
               slots : Seq(CxNumbers), seen : CxNumbers \cup {CxNever}]
CxThreadType == [at : CxRunPoints \cup CxEnds \cup {"off"}, ix : CxNumbers \cup {CxNever},
                 n : Nat, in : BOOLEAN, of : CxContexts \cup {CxNobody}, stays : Nat, seen : Int]

\* The sets the variables range over, whatever the users do.
CxTypes ==
  /\ cxSet \in CxSettings /\ cxLock \subseteq CxContexts
  /\ cxLog \in Nat /\ cxSent \in Nat /\ cxSent <= cxSet.sends
  /\ cxLog <= cxSent + cxSet.flushes
  /\ cxCur \in [CxNumbers -> Nat] /\ cxNoted \in [CxNumbers -> Int]
  /\ cxPurger \in {"off", "on", "gone"} /\ cxUser \in [CxContexts -> CxUserType]
  /\ cxStopped \in [CxContexts -> BOOLEAN] /\ cxC \in [CxClients -> CxThreadType]
  /\ cxGot \in [CxClients -> Seq(Int)] /\ cxDrops \in [CxClients -> Nat]
  /\ cxPurged \subseteq CxClients

CxInStart(x) == cxUser[x].at \in {"look", "reset", "kick", "fail"}

\* A thread has an index; a start() reserves as many as it has clients.
CxIndexedOf(x) ==
  /\ cxUser[x].at = "reset" => cxUser[x].seen \in CxNumbers
                               /\ Len(cxUser[x].slots) < Len(cxUser[x].todo)
  /\ cxUser[x].at = "kick" => Len(cxUser[x].slots) = Len(cxUser[x].todo)
  /\ CxInStart(x) => Len(cxUser[x].slots) <= Len(cxUser[x].todo)
CxIndexed ==
  /\ \A c \in CxClients : cxC[c].at # "off" => cxC[c].ix \in CxNumbers
  /\ \A x \in CxContexts : CxIndexedOf(x)

\* A client has no thread until the start() that it is given to creates it: those of the
\* start() under way that are still to do, and those of later ones, are off.
CxToCome(x, k) == cxUser[x].at # "crashed"
                  /\ (k > cxUser[x].call \/ (k = cxUser[x].call /\ ~CxInStart(x)))
CxFreshOf(x) ==
  /\ cxUser[x].call <= Len(cxSet.calls[x]) + 1
  /\ \A k \in DOMAIN cxSet.calls[x] : CxToCome(x, k) =>
       \A m \in DOMAIN cxSet.calls[x][k] : cxC[cxSet.calls[x][k][m]].at = "off"
  /\ CxInStart(x) =>
       /\ cxUser[x].call <= Len(cxSet.calls[x])
       /\ \A k \in DOMAIN cxUser[x].todo :
            /\ cxC[cxUser[x].todo[k]].at = "off"
            /\ \E m \in DOMAIN cxSet.calls[x][cxUser[x].call] :
                 cxUser[x].todo[k] = cxSet.calls[x][cxUser[x].call][m]
            /\ \A l \in DOMAIN cxUser[x].todo :
                 cxUser[x].todo[k] = cxUser[x].todo[l] => k = l
CxFresh == \A x \in CxContexts : CxFreshOf(x)

\* A client that is still in has not been dropped.
CxInLoop == {"off", "born", "check", "peek", "handle", "waste", "turn", "caught"}
CxOnceOf(c) ==
  /\ cxDrops[c] <= 1 /\ cxC[c].stays <= cxSet.stays[c]
  /\ cxC[c].at \in CxInLoop => cxC[c].in /\ cxDrops[c] = 0
  /\ (cxC[c].at \in {"stop", "drain", "last"} /\ cxC[c].in) => cxDrops[c] = 0
CxOnce == \A c \in CxClients : CxOnceOf(c)

\* The file lock, or being alone: one start() at a time.
CxOneStart ==
  /\ \A x \in CxContexts : (CxInStart(x) /\ cxSet.ipc) => x \in cxLock
  /\ \A x, y \in CxContexts : (CxInStart(x) /\ CxInStart(y)) => x = y

\* A cursor is dead or in the last CxRingCap messages.
CxInRing(i) == cxCur[i] = CxDEAD \/ (cxCur[i] <= cxLog /\ cxLog <= cxCur[i] + CxRingCap)
CxCursors ==
  /\ cxLog <= CxMaxLog
  /\ \A i \in CxNumbers : CxInRing(i) /\ CxNever <= cxNoted[i] /\ cxNoted[i] <= cxLog

\* Each running client, and each index a start() has reserved, has a living cursor that
\* nobody else has; a cursor about to be reset is dead.
CxRunners ==
  \A c \in CxClients : CxRuns(c) =>
    /\ cxCur[cxC[c].ix] # CxDEAD
    /\ \A d \in CxClients : (CxRuns(d) /\ cxC[c].ix = cxC[d].ix) => c = d
CxReservedOf(x) ==
  /\ cxUser[x].at = "idle" => cxUser[x].slots = <<>>
  /\ cxUser[x].at = "reset" => cxCur[cxUser[x].seen] = CxDEAD
  /\ CxInStart(x) => \A k \in DOMAIN cxUser[x].slots :
       /\ cxCur[cxUser[x].slots[k]] # CxDEAD
       /\ \A c \in CxClients : CxRuns(c) => cxC[c].ix # cxUser[x].slots[k]
       /\ \A l \in DOMAIN cxUser[x].slots :
            cxUser[x].slots[k] = cxUser[x].slots[l] => k = l
CxReserved == \A x \in CxContexts : CxReservedOf(x)

\* The messages a client has in hand are those after its cursor.
CxInHandOf(c) ==
  /\ cxC[c].n <= CxRingCap /\ CxNever <= cxC[c].seen /\ cxC[c].seen <= cxLog
  /\ cxC[c].at \in {"handle", "waste"} =>
       cxC[c].seen = cxCur[cxC[c].ix] /\ cxC[c].n > 0 /\ cxC[c].seen + cxC[c].n <= cxLog
CxInHand == \A c \in CxClients : CxInHandOf(c)

\* What a client has handled ends before its cursor, or with the message at which it
\* threw, whose batch it has handled from the cursor on.
CxUpToDate(c) == cxGot[c] = <<>> \/ cxGot[c][Len(cxGot[c])] = cxCur[cxC[c].ix] - 1
CxAgain(c) == /\ cxGot[c] # <<>> /\ cxGot[c][Len(cxGot[c])] = cxSet.throws[c]
              /\ \E j \in DOMAIN cxGot[c] : cxGot[c][j] = cxCur[cxC[c].ix]
CxHistoryOf(c) ==
  /\ \A k \in DOMAIN cxGot[c] : 0 <= cxGot[c][k] /\ cxGot[c][k] < cxLog
  /\ cxC[c].at \in {"off", "born"} => cxGot[c] = <<>>
  /\ cxC[c].at \in {"check", "peek", "handle", "turn"} =>
       CxUpToDate(c) \/ (cxC[c].stays > 0 /\ CxAgain(c))
  /\ cxC[c].at = "waste" =>
       cxGot[c] # <<>> /\ cxGot[c][Len(cxGot[c])] = cxC[c].seen + cxC[c].n - 1
  /\ cxC[c].at = "caught" => CxAgain(c)
CxHistory == \A c \in CxClients : CxHistoryOf(c)

\* CxConsecutive of one client.
CxConsecutiveOf(c) ==
  \A k \in 2..Len(cxGot[c]) :
    \/ cxGot[c][k] = cxGot[c][k - 1] + 1
    \/ cxC[c].stays > 0 /\ cxSet.throws[c] = cxGot[c][k - 1]
       /\ \E j \in 1..(k - 1) : cxGot[c][j] = cxGot[c][k]

\* No client takes longer than a purge period for a round, and a transport whose creator
\* is destroyed is not looked at any more: what the purger marks belongs to nobody.
CxOrderly == cxSet.slow = {} /\ cxSet.destroys = {}

\* What Contexts keep true whatever happens, and what they keep true if all is orderly.
CxBaseInv == CxTypes /\ CxIndexed /\ CxFresh /\ CxOnce
CxOwnInv == CxOneStart /\ CxCursors /\ CxRunners /\ CxReserved /\ CxInHand /\ CxIndexAccounted
CxOrderInv == CxOrderly /\ CxOwnInv /\ CxHistory /\ CxConsecutive

-----------------------------------------------------------------------------
(* Facts about the settings, naturals and the order of the steps. *)

\* What users do is as CxAssumption says.
LEMMA CxSetting ==
  ASSUME cxSet \in CxSettings
  PROVE  /\ CxNumbers \subseteq Nat /\ CxRingCap \in Nat \ {0} /\ CxMaxLog \in 0..(CxDEAD - 1)
         /\ cxSet.calls \in [CxContexts -> Seq(Seq(CxClients))]
         /\ cxSet.sends \in Nat /\ cxSet.flushes \in Nat
         /\ cxSet.sends + cxSet.flushes <= CxMaxLog /\ cxSet.batch \in Nat \ {0}
         /\ cxSet.throws \in [CxClients -> Int] /\ cxSet.stays \in [CxClients -> Nat]
         /\ \A x, y \in CxContexts :
              \A k \in DOMAIN cxSet.calls[x], l \in DOMAIN cxSet.calls[y] :
              \A m \in DOMAIN cxSet.calls[x][k], n \in DOMAIN cxSet.calls[y][l] :
                cxSet.calls[x][k][m] = cxSet.calls[y][l][n] => x = y /\ k = l /\ m = n
         /\ cxSet.ipc \/ \A x, y \in CxContexts :
                           cxSet.calls[x] # <<>> /\ cxSet.calls[y] # <<>> => x = y
BY CxAssumption DEF CxDEAD, CxNever

\* The value of a field that is not set.
LEMMA CxNeverInt == CxNever \in Int /\ 0 \in Nat /\ TRUE \in BOOLEAN
BY DEF CxNever

\* Min of a set of naturals is its least element.
LEMMA CxMin == ASSUME NEW T \in SUBSET Nat, T # {} PROVE Min(T) \in T /\ \A m \in T : Min(T) <= m
<1> DEFINE Below == OpToRel(<, Nat)
<1>1. PICK x \in T : \A y \in T : <<y, x>> \notin Below
  BY NatLessThanWellFounded, WFMin
<1>2. \A y \in T : y < x => <<y, x>> \in Below
  BY DEF OpToRel
<1>3. \A y \in T : ~ (y < x)
  BY <1>1, <1>2
<1>4. \E n \in T : \A m \in T : n <= m
  BY <1>3
<1> QED BY <1>4 DEF Min

\* A send takes at least one message and at most what is left to send.
LEMMA CxBatchSize ==
  ASSUME CxTypes, cxSent < cxSet.sends
  PROVE  CxBatch \in Nat \ {0} /\ CxBatch <= cxSet.sends - cxSent /\ CxBatch <= cxSet.batch
<1> USE CxSetting DEF CxTypes
<1>1. {cxSet.batch, cxSet.sends - cxSent} \in SUBSET Nat
  OBVIOUS
<1> HIDE DEF CxTypes
<1>2. CxBatch \in {cxSet.batch, cxSet.sends - cxSent}
      /\ \A m \in {cxSet.batch, cxSet.sends - cxSent} : CxBatch <= m
  BY <1>1, CxMin DEF CxBatch
<1> QED BY <1>2 DEF CxTypes

\* The types of each client's part of the state and of each Context's.
LEMMA CxRecords ==
  ASSUME CxTypes
  PROVE  /\ \A c \in CxClients : cxC[c] \in CxThreadType /\ cxGot[c] \in Seq(Int) /\ cxDrops[c] \in Nat
         /\ \A x \in CxContexts : cxUser[x] \in CxUserType
BY DEF CxTypes

\* The messages in hand are a sequence.
LEMMA CxInterval ==
  ASSUME NEW from \in Int, NEW to \in Int
  PROVE  [k \in 1..(to - from + 1) |-> from + k - 1] \in Seq(Int)
<1>1. CASE to < from
  BY <1>1
<1>2. CASE to >= from
  <2>1. to - from + 1 \in Nat
    BY <1>2
  <2> QED BY <2>1
<1> QED BY <1>1, <1>2

\* The fields of the records.
LEMMA CxUserParts ==
  ASSUME NEW u \in CxUserType
  PROVE  /\ u.at \in CxUserPoints /\ u.call \in Nat \ {0} /\ u.call + 1 \in Nat \ {0} /\ u.todo \in Seq(CxClients)
         /\ u.slots \in Seq(CxNumbers) /\ u.seen \in CxNumbers \cup {CxNever}
         /\ CxNever \in Int /\ <<>> \in Seq(CxClients) /\ <<>> \in Seq(CxNumbers)
         /\ u.todo # <<>> => Tail(u.todo) \in Seq(CxClients)
         /\ u.slots # <<>> => Tail(u.slots) \in Seq(CxNumbers)
         /\ u.seen \in CxNumbers => Append(u.slots, u.seen) \in Seq(CxNumbers)
<1>1. /\ u.at \in CxUserPoints /\ u.call \in Nat \ {0} /\ u.todo \in Seq(CxClients)
      /\ u.slots \in Seq(CxNumbers) /\ u.seen \in CxNumbers \cup {CxNever}
  BY DEF CxUserType
<1> QED BY <1>1 DEF CxNever

\* The same of a client's thread.
LEMMA CxThreadParts ==
  ASSUME NEW r \in CxThreadType
  PROVE  /\ r.at \in CxRunPoints \cup CxEnds \cup {"off"} /\ r.ix \in CxNumbers \cup {CxNever}
         /\ r.n \in Nat /\ r.in \in BOOLEAN /\ r.of \in CxContexts \cup {CxNobody}
         /\ r.stays \in Nat /\ r.stays + 1 \in Nat /\ r.seen \in Int /\ CxNever \in Int
<1>1. /\ r.at \in CxRunPoints \cup CxEnds \cup {"off"} /\ r.ix \in CxNumbers \cup {CxNever}
      /\ r.n \in Nat /\ r.in \in BOOLEAN /\ r.of \in CxContexts \cup {CxNobody}
      /\ r.stays \in Nat /\ r.seen \in Int
  BY DEF CxThreadType
<1> QED BY <1>1 DEF CxNever

\* The steps of the users keep the types ...
LEMMA CxTypesUser ==
  ASSUME CxTypes, CxIndexed, NEW x \in CxContexts, CxUserStep(x) \/ CxCrash(x)
  PROVE  CxTypes'
<1>0. cxUser[x] \in CxUserType
  BY CxRecords
<1>a. CxNumbers \subseteq Nat /\ CxDEAD \in Nat
  BY CxSetting DEF CxTypes, CxDEAD
<1>1. CASE CxStart(x)
  <2>1. cxUser'[x] = [cxUser[x] EXCEPT !.at = "look", !.todo = cxSet.calls[x][cxUser[x].call], !.slots = <<>>]
    BY <1>1, CxRecords DEF CxStart, CxTypes, CxUserTo
  <2>2. cxSet.calls[x][cxUser[x].call] \in Seq(CxClients)
    BY <1>0, <1>1, CxSetting, CxUserParts DEF CxStart, CxTypes
  <2>3. cxUser'[x] \in CxUserType
    BY <1>0, <2>1, <2>2, CxUserParts DEF CxUserType, CxUserPoints
  <2> QED BY <1>a, <1>1, <2>3, CxSetting DEF CxStart, CxUserTo, CxTypes, cxRing, cxSeen
<1>2. CASE CxLook(x)
  <2>1. \/ cxUser'[x] \in {[cxUser[x] EXCEPT !.at = "kick"], [cxUser[x] EXCEPT !.at = "fail"]}
        \/ CxUnused # {} /\ cxUser'[x] = [cxUser[x] EXCEPT !.at = "reset", !.seen = Min(CxUnused)]
    BY <1>2, CxRecords DEF CxLook, CxTypes, CxUserTo
  <2>2. CxUnused # {} => Min(CxUnused) \in CxNumbers
    BY <1>a, CxMin DEF CxUnused
  <2>3. cxUser'[x] \in CxUserType
    BY <1>0, <2>1, <2>2, CxUserParts DEF CxUserType, CxUserPoints
  <2> QED BY <1>a, <1>2, <2>3, CxSetting DEF CxLook, CxUserTo, CxTypes, cxRing, cxSeen
<1>3. CASE CxReset(x)
  <2>1. cxUser'[x] = [cxUser[x] EXCEPT !.at = "look", !.slots = Append(cxUser[x].slots, cxUser[x].seen),
                             !.seen = CxNever]
    BY <1>3, CxRecords DEF CxReset, CxTypes, CxUserTo
  <2>2. cxUser[x].seen \in CxNumbers
    BY <1>3 DEF CxReset, CxIndexed, CxIndexedOf
  <2>4. Append(cxUser[x].slots, cxUser[x].seen) \in Seq(CxNumbers)
    BY <1>0, <2>2, CxUserParts
  <2>3. cxUser'[x] \in CxUserType
    BY <1>0, <2>1, <2>2, <2>4, CxUserParts DEF CxUserType, CxUserPoints
  <2> QED BY <1>a, <1>3, <2>3, CxSetting DEF CxReset, CxUserTo, CxTypes, cxRing, cxSeen
<1>4. CASE CxFail(x)
  <2>1. cxUser'[x] = [CxIdleUser EXCEPT !.call = cxUser[x].call + 1]
    BY <1>4, CxRecords DEF CxFail, CxTypes, CxUserTo
  <2>3. cxUser'[x] \in CxUserType
    BY <1>0, <2>1, CxUserParts DEF CxUserType, CxUserPoints, CxIdleUser
  <2>4. cxCur' \in [CxNumbers -> Nat]
    BY <1>a, <1>4 DEF CxFail, CxTypes
  <2>5. cxPurged' \subseteq CxClients
    BY <1>4 DEF CxFail, CxTypes, CxReaders
  <2> QED BY <1>4, <2>3, <2>4, <2>5, CxSetting DEF CxFail, CxUserTo, CxTypes, cxSeen
<1>5. CASE CxKick(x)
  <2>1. cxUser'[x] = [cxUser[x] EXCEPT !.todo = Tail(cxUser[x].todo), !.slots = Tail(cxUser[x].slots)]
    BY <1>5, CxRecords DEF CxKick, CxTypes, CxUserTo
  <2>2. cxUser[x].todo # <<>> /\ cxUser[x].slots # <<>>
    BY <1>0, <1>5, CxUserParts DEF CxKick, CxIndexed, CxIndexedOf, CxInStart
  <2>3. cxUser'[x] \in CxUserType
    BY <1>0, <2>1, <2>2, CxUserParts DEF CxUserType, CxUserPoints
  <2>5. Head(cxUser[x].slots) \in CxNumbers /\ Head(cxUser[x].todo) \in CxClients
    BY <1>0, <2>2, CxUserParts
  <2>6. [CxOffClient EXCEPT !.at = "born", !.ix = Head(cxUser[x].slots), !.of = x] \in CxThreadType
    BY <2>5, CxNeverInt DEF CxThreadType, CxOffClient, CxRunPoints
  <2> QED BY <1>5, <2>3, <2>6, CxSetting DEF CxKick, CxUserTo, CxTypes, cxRing, cxSeen
<1>6. CASE CxStarted(x)
  <2>1. cxUser'[x] = [CxIdleUser EXCEPT !.call = cxUser[x].call + 1]
    BY <1>6, CxRecords DEF CxStarted, CxTypes, CxUserTo
  <2>3. cxUser'[x] \in CxUserType
    BY <1>0, <2>1, CxUserParts DEF CxUserType, CxUserPoints, CxIdleUser
  <2> QED BY <1>a, <1>6, <2>3, CxSetting DEF CxStarted, CxUserTo, CxTypes, cxRing, cxSeen
<1>7. CASE CxStop(x)
  <2>1. cxUser'[x] = [cxUser[x] EXCEPT !.at = "joining"]
    BY <1>7, CxRecords DEF CxStop, CxTypes, CxUserTo
  <2>3. cxUser'[x] \in CxUserType
    BY <1>0, <2>1, CxUserParts DEF CxUserType, CxUserPoints
  <2> QED BY <1>a, <1>7, <2>3, CxSetting DEF CxStop, CxUserTo, CxTypes, cxRing, cxSeen
<1>8. CASE CxJoin(x)
  <2>1. cxUser'[x] = [cxUser[x] EXCEPT !.at = "joined"]
    BY <1>8, CxRecords DEF CxJoin, CxTypes, CxUserTo
  <2>3. cxUser'[x] \in CxUserType
    BY <1>0, <2>1, CxUserParts DEF CxUserType, CxUserPoints
  <2> QED BY <1>a, <1>8, <2>3, CxSetting DEF CxJoin, CxUserTo, CxTypes, cxRing, cxSeen
<1>9. CASE CxDestroy(x)
  <2>1. cxUser'[x] = [cxUser[x] EXCEPT !.at = "destroyed"]
    BY <1>9, CxRecords DEF CxDestroy, CxTypes, CxUserTo
  <2>3. cxUser'[x] \in CxUserType
    BY <1>0, <2>1, CxUserParts DEF CxUserType, CxUserPoints
  <2>4. cxCur' \in [CxNumbers -> Nat]
    BY <1>a, <1>9 DEF CxDestroy, CxTypes
  <2>5. cxPurged' \subseteq CxClients
    BY <1>9 DEF CxDestroy, CxTypes, CxReaders
  <2> QED BY <1>9, <2>3, <2>4, <2>5, CxSetting DEF CxDestroy, CxUserTo, CxTypes, cxSeen
<1>10. CASE CxCrash(x)
  <2>1. cxUser'[x] = [cxUser[x] EXCEPT !.at = "crashed"]
    BY <1>10, CxRecords DEF CxCrash, CxTypes, CxUserTo
  <2>3. cxUser'[x] \in CxUserType
    BY <1>0, <2>1, CxUserParts DEF CxUserType, CxUserPoints
  <2>4. cxC' \in [CxClients -> CxThreadType]
    <3> SUFFICES ASSUME NEW c \in CxClients PROVE cxC'[c] \in CxThreadType
      BY <1>10 DEF CxCrash
    <3>1. cxC'[c] \in {cxC[c], [cxC[c] EXCEPT !.at = "crashed"]}
      BY <1>10 DEF CxCrash
    <3>2. cxC[c] \in CxThreadType
      BY CxRecords
    <3> QED BY <3>1, <3>2 DEF CxThreadType, CxEnds
  <2> QED BY <1>10, <2>3, <2>4, CxSetting DEF CxCrash, CxUserTo, CxTypes, cxRing, cxSeen
<1> QED BY <1>1, <1>2, <1>3, <1>4, <1>5, <1>6, <1>7, <1>8, <1>9, <1>10 DEF CxUserStep

\* ... and those of the clients do.
LEMMA CxTypesClient ==
  ASSUME CxTypes, CxIndexed, NEW c \in CxClients, CxClientStep(c)
  PROVE  CxTypes'
<1>0. cxC[c] \in CxThreadType /\ cxGot[c] \in Seq(Int) /\ cxDrops[c] \in Nat
  BY CxRecords
<1>b. cxC[c].n \in Nat /\ cxC[c].seen \in Int /\ cxC[c].stays + 1 \in Nat /\ CxNever \in Int
  BY <1>0, CxThreadParts
<1>1. CASE CxBorn(c)
  <2>1. cxC'[c] \in {[cxC[c] EXCEPT !.at = "lost"],
                   [cxC[c] EXCEPT !.at = "check"]}
    BY <1>1, CxRecords DEF CxBorn, CxTypes, CxTo
  <2>3. cxC'[c] \in CxThreadType
    BY <1>0, <1>b, <2>1, CxNeverInt DEF CxThreadType, CxRunPoints, CxEnds
  <2> QED BY <1>1, <2>3, CxSetting DEF CxBorn, CxTo, CxTypes, CxLocal, cxSeen
<1>2. CASE CxCheck(c)
  <2>1. cxC'[c] \in {[cxC[c] EXCEPT !.at = "stop"],
                   [cxC[c] EXCEPT !.at = "peek"]}
    BY <1>2, CxRecords DEF CxCheck, CxTypes, CxTo
  <2>3. cxC'[c] \in CxThreadType
    BY <1>0, <1>b, <2>1, CxNeverInt DEF CxThreadType, CxRunPoints, CxEnds
  <2> QED BY <1>2, <2>3, CxSetting DEF CxCheck, CxTo, CxTypes, CxLocal, cxSeen
<1>3. CASE CxPeek(c)
  <2>1. \/ cxC'[c] = [cxC[c] EXCEPT !.at = "caught"]
        \/ CxFound(cxC[c].ix) > 0
           /\ cxC'[c] = [cxC[c] EXCEPT !.at = "handle", !.seen = cxCur[cxC[c].ix],
                                       !.n = CxFound(cxC[c].ix)]
    BY <1>3, CxRecords DEF CxPeek, CxTypes, CxTo
  <2>2. cxC[c].ix \in CxNumbers /\ cxCur[cxC[c].ix] \in Nat
    BY <1>3 DEF CxPeek, CxIndexed, CxTypes
  <2>4. cxCur[cxC[c].ix] \in Int /\ (CxFound(cxC[c].ix) > 0 => CxFound(cxC[c].ix) \in Nat)
    BY <2>2 DEF CxFound, CxTypes
  <2>3. cxC'[c] \in CxThreadType
    BY <1>0, <1>b, <2>1, <2>2, <2>4, CxNeverInt DEF CxThreadType, CxRunPoints, CxEnds
  <2> QED BY <1>3, <2>3, CxSetting DEF CxPeek, CxTo, CxTypes, CxLocal, cxSeen
<1>4. CASE CxIdleRound(c)
  <2>1. cxC'[c] = [cxC[c] EXCEPT !.at = "stop", !.in = FALSE]
    BY <1>4, CxRecords DEF CxIdleRound, CxTypes, CxTo
  <2>3. cxC'[c] \in CxThreadType
    BY <1>0, <1>b, <2>1, CxNeverInt DEF CxThreadType, CxRunPoints, CxEnds
  <2> QED BY <1>4, <2>3, CxSetting DEF CxIdleRound, CxTo, CxTypes, CxLocal, cxSeen
<1>5. CASE CxHandle(c)
  <2>1. cxC'[c] \in {[cxC[c] EXCEPT !.at = "caught"],
                   [cxC[c] EXCEPT !.at = "waste"]}
    BY <1>5, CxRecords DEF CxHandle, CxTypes, CxTo
  <2>3. cxC'[c] \in CxThreadType
    BY <1>0, <1>b, <2>1, CxNeverInt DEF CxThreadType, CxRunPoints, CxEnds
  <2>4. PICK upTo \in Int : cxGot'[c] = cxGot[c] \o [k \in 1..(upTo - cxC[c].seen + 1) |-> cxC[c].seen + k - 1]
    <3>1. cxSet.throws[c] \in Int
      BY CxSetting DEF CxTypes
    <3>2. cxC[c].seen + cxC[c].n - 1 \in Int
      BY <1>b
    <3> QED BY <3>1, <3>2, <1>5 DEF CxHandle, CxTypes
  <2>5. [k \in 1..(upTo - cxC[c].seen + 1) |-> cxC[c].seen + k - 1] \in Seq(Int)
    BY <1>b, CxInterval
  <2>6. cxGot'[c] \in Seq(Int)
    BY <1>0, <2>4, <2>5
  <2> QED BY <1>5, <2>3, <2>6, CxSetting DEF CxHandle, CxTo, CxTypes, CxLocal, cxSeen
<1>6. CASE CxWaste(c)
  <2>1. cxC'[c] = [cxC[c] EXCEPT !.at = "turn", !.seen = CxNever, !.n = 0]
    BY <1>6, CxRecords DEF CxWaste, CxTypes, CxTo
  <2>2. cxC[c].ix \in CxNumbers /\ cxCur[cxC[c].ix] \in Nat
    BY <1>6 DEF CxWaste, CxIndexed, CxTypes
  <2>3. cxC'[c] \in CxThreadType
    BY <1>0, <1>b, <2>1, <2>2, CxNeverInt DEF CxThreadType, CxRunPoints, CxEnds
  <2>4. cxCur' \in [CxNumbers -> Nat]
    BY <1>6, <1>b, <2>2 DEF CxWaste, CxTypes, CxWastes
  <2> QED BY <1>6, <2>3, <2>4, CxSetting DEF CxWaste, CxTo, CxTypes, CxLocal, cxSeen
<1>7. CASE CxTurn(c)
  <2>1. cxC'[c] \in {[cxC[c] EXCEPT !.at = "stop", !.in = FALSE],
                   [cxC[c] EXCEPT !.at = "check"]}
    BY <1>7, CxRecords DEF CxTurn, CxTypes, CxTo
  <2>3. cxC'[c] \in CxThreadType
    BY <1>0, <1>b, <2>1, CxNeverInt DEF CxThreadType, CxRunPoints, CxEnds
  <2> QED BY <1>7, <2>3, CxSetting DEF CxTurn, CxTo, CxTypes, CxLocal, cxSeen
<1>8. CASE CxCaught(c)
  <2>1. cxC'[c] \in {[cxC[c] EXCEPT !.seen = CxNever, !.n = 0, !.at = "stop", !.in = FALSE],
                   [cxC[c] EXCEPT !.seen = CxNever, !.n = 0, !.at = "check", !.stays = cxC[c].stays + 1]}
    BY <1>8, CxRecords DEF CxCaught, CxTypes, CxTo
  <2>3. cxC'[c] \in CxThreadType
    BY <1>0, <1>b, <2>1, CxNeverInt DEF CxThreadType, CxRunPoints, CxEnds
  <2>4. cxDrops' \in [CxClients -> Nat]
    BY <1>8, <1>0 DEF CxCaught, CxTypes
  <2> QED BY <1>8, <2>3, <2>4, CxSetting DEF CxCaught, CxTo, CxTypes, CxLocal, cxSeen
<1>9. CASE CxLeave(c)
  <2>1. cxC'[c] \in {[cxC[c] EXCEPT !.at = "drain"],
                   [cxC[c] EXCEPT !.at = "unblock"]}
    BY <1>9, CxRecords DEF CxLeave, CxTypes, CxTo
  <2>3. cxC'[c] \in CxThreadType
    BY <1>0, <1>b, <2>1, CxNeverInt DEF CxThreadType, CxRunPoints, CxEnds
  <2> QED BY <1>9, <2>3, CxSetting DEF CxLeave, CxTo, CxTypes, CxLocal, cxSeen
<1>10. CASE CxDrain(c)
  <2>1. cxC'[c] \in {[cxC[c] EXCEPT !.at = "terminated"],
                   [cxC[c] EXCEPT !.at = "drain"],
                   [cxC[c] EXCEPT !.at = "last"]}
    BY <1>10, CxRecords DEF CxDrain, CxTypes, CxTo
  <2>2. cxC[c].ix \in CxNumbers /\ cxCur[cxC[c].ix] \in Nat
    BY <1>10 DEF CxDrain, CxIndexed, CxTypes
  <2>3. cxC'[c] \in CxThreadType
    BY <1>0, <1>b, <2>1, <2>2, CxNeverInt DEF CxThreadType, CxRunPoints, CxEnds
  <2> QED BY <1>10, <2>3, CxSetting DEF CxDrain, CxTo, CxTypes, CxLocal, cxSeen
<1>11. CASE CxLast(c)
  <2>1. cxC'[c] = [cxC[c] EXCEPT !.at = "unblock"]
    BY <1>11, CxRecords DEF CxLast, CxTypes, CxTo
  <2>3. cxC'[c] \in CxThreadType
    BY <1>0, <1>b, <2>1, CxNeverInt DEF CxThreadType, CxRunPoints, CxEnds
  <2>4. cxDrops' \in [CxClients -> Nat]
    BY <1>11, <1>0 DEF CxLast, CxTypes
  <2> QED BY <1>11, <2>3, <2>4, CxSetting DEF CxLast, CxTo, CxTypes, CxLocal, cxSeen
<1>12. CASE CxUnblock(c)
  <2>1. cxC'[c] = [cxC[c] EXCEPT !.at = "gone"]
    BY <1>12, CxRecords DEF CxUnblock, CxTypes, CxTo
  <2>3. cxC'[c] \in CxThreadType
    BY <1>0, <1>b, <2>1, CxNeverInt DEF CxThreadType, CxRunPoints, CxEnds
  <2> QED BY <1>12, <2>3, CxSetting DEF CxUnblock, CxTo, CxTypes, CxLocal, cxSeen, CxGivenBack, CxDEAD
<1> QED BY <1>1, <1>2, <1>3, <1>4, <1>5, <1>6, <1>7, <1>8, <1>9, <1>10, <1>11, <1>12 DEF CxClientStep

\* The steps of nobody's thread in particular keep the types.
LEMMA CxTypesOther ==
  ASSUME CxTypes, CxSend \/ CxTrySendFails \/ CxPurge \/ CxPurgerLeaves
  PROVE  CxTypes'
<1>a. CxDEAD \in Nat
  BY DEF CxDEAD
<1>1. CASE CxSend
  <2>1. CxBatch \in Nat /\ CxBatch <= cxSet.sends - cxSent
    BY <1>1, CxBatchSize DEF CxSend
  <2>2. cxSet.sends \in Nat /\ cxSet.flushes \in Nat
    BY CxSetting DEF CxTypes
  <2> QED BY <1>1, <2>1, <2>2 DEF CxSend, CxTypes, cxSeen
<1>2. CASE CxTrySendFails
  <2>1. CxBatch \in Nat /\ CxBatch <= cxSet.sends - cxSent
    BY <1>2, CxBatchSize DEF CxTrySendFails
  <2>2. cxSet.sends \in Nat /\ cxSet.flushes \in Nat
    BY CxSetting DEF CxTypes
  <2> QED BY <1>2, <2>1, <2>2 DEF CxTrySendFails, CxTypes, cxSeen
<1>3. CASE CxPurge
  <2>1. cxCur' \in [CxNumbers -> Nat] /\ cxNoted' \in [CxNumbers -> Int]
    BY <1>a, <1>3 DEF CxPurge, CxTypes
  <2>2. cxPurged' \subseteq CxClients
    BY <1>3 DEF CxPurge, CxTypes, CxReaders
  <2>3. cxLog' \in Nat /\ cxLog' <= cxSent + cxSet.flushes
    BY <1>3, CxSetting DEF CxPurge, CxTypes
  <2> QED BY <1>3, <2>1, <2>2, <2>3 DEF CxPurge, CxTypes, cxSeen
<1>4. CASE CxPurgerLeaves
  BY <1>4, CxSetting DEF CxPurgerLeaves, CxTypes, cxRing, cxSeen
<1> QED BY <1>1, <1>2, <1>3, <1>4

-----------------------------------------------------------------------------
(* What a step leaves alone. *)

\* A step of a client's thread changes what is the client's only.
LEMMA CxClientEffect ==
  ASSUME CxTypes, NEW c \in CxClients, CxClientStep(c)
  PROVE  /\ UNCHANGED <<cxSet, cxLock, cxLog, cxSent, cxNoted, cxPurger, cxUser, cxStopped, cxPurged>>
         /\ \A d \in CxClients \ {c} : cxC'[d] = cxC[d] /\ cxGot'[d] = cxGot[d] /\ cxDrops'[d] = cxDrops[d]
         /\ \A i \in CxNumbers \ {cxC[c].ix} : cxCur'[i] = cxCur[i]
         /\ cxC[c].at \in CxRunPoints /\ cxC'[c].at \in (CxRunPoints \cup CxEnds) \ {"born", "crashed"}
         /\ cxC'[c].ix = cxC[c].ix /\ cxC'[c].of = cxC[c].of
<1>0. cxC[c] \in CxThreadType
  BY CxRecords
<1> USE <1>0 DEF CxTypes, CxLocal, cxSeen, CxTo, CxRunPoints, CxEnds
<1>1. CASE CxBorn(c)
  BY <1>1 DEF CxBorn
<1>2. CASE CxCheck(c)
  BY <1>2 DEF CxCheck
<1>3. CASE CxPeek(c)
  <2>1. \/ cxC'[c] = [cxC[c] EXCEPT !.at = "caught"]
        \/ cxC'[c] = [cxC[c] EXCEPT !.at = "handle", !.seen = cxCur[cxC[c].ix],
                                    !.n = CxFound(cxC[c].ix)]
    BY <1>3 DEF CxPeek
  <2>2. cxC'[c].at \in {"caught", "handle"} /\ cxC'[c].ix = cxC[c].ix /\ cxC'[c].of = cxC[c].of
    BY <2>1 DEF CxThreadType
  <2>3. \A d \in CxClients \ {c} : cxC'[d] = cxC[d]
    BY <1>3 DEF CxPeek
  <2>4. cxC[c].at = "peek" /\ UNCHANGED <<CxLocal, cxCur, cxSeen, cxPurged>>
    BY <1>3 DEF CxPeek
  <2> QED BY <2>2, <2>3, <2>4
<1>4. CASE CxIdleRound(c)
  BY <1>4 DEF CxIdleRound
<1>5. CASE CxHandle(c)
  BY <1>5 DEF CxHandle
<1>6. CASE CxWaste(c)
  BY <1>6 DEF CxWaste
<1>7. CASE CxTurn(c)
  BY <1>7 DEF CxTurn
<1>8. CASE CxCaught(c)
  <2>1. \/ cxC'[c] = [cxC[c] EXCEPT !.seen = CxNever, !.n = 0, !.at = "stop", !.in = FALSE]
        \/ cxC'[c] = [cxC[c] EXCEPT !.seen = CxNever, !.n = 0, !.at = "check",
                                    !.stays = cxC[c].stays + 1]
    BY <1>8 DEF CxCaught
  <2>2. cxC'[c].at \in {"stop", "check"} /\ cxC'[c].ix = cxC[c].ix /\ cxC'[c].of = cxC[c].of
    BY <2>1 DEF CxThreadType
  <2>3. \A d \in CxClients \ {c} : cxC'[d] = cxC[d] /\ cxDrops'[d] = cxDrops[d]
    BY <1>8 DEF CxCaught
  <2>4. cxC[c].at = "caught" /\ UNCHANGED <<CxLocal, cxCur, cxGot, cxPurged>>
    BY <1>8 DEF CxCaught
  <2> QED BY <2>2, <2>3, <2>4
<1>9. CASE CxLeave(c)
  BY <1>9 DEF CxLeave
<1>10. CASE CxDrain(c)
  BY <1>10 DEF CxDrain
<1>11. CASE CxLast(c)
  BY <1>11 DEF CxLast
<1>12. CASE CxUnblock(c)
  BY <1>12 DEF CxUnblock
<1> QED BY <1>1, <1>2, <1>3, <1>4, <1>5, <1>6, <1>7, <1>8, <1>9, <1>10, <1>11, <1>12 DEF CxClientStep

\* A step of a user changes nothing of other users, and no client's history.
LEMMA CxUserEffect ==
  ASSUME CxTypes, NEW x \in CxContexts, CxUserStep(x) \/ CxCrash(x)
  PROVE  /\ UNCHANGED <<cxSet, cxLog, cxSent, cxNoted, cxGot, cxDrops>>
         /\ \A y \in CxContexts \ {x} : cxUser'[y] = cxUser[y] /\ (y \in cxLock' <=> y \in cxLock)
<1> USE DEF CxTypes, cxSeen, cxRing, CxUserTo
<1>1. CASE CxStart(x)
  BY <1>1 DEF CxStart
<1>2. CASE CxLook(x)
  BY <1>2 DEF CxLook
<1>3. CASE CxReset(x)
  BY <1>3 DEF CxReset
<1>4. CASE CxFail(x)
  BY <1>4 DEF CxFail
<1>5. CASE CxKick(x)
  BY <1>5 DEF CxKick
<1>6. CASE CxStarted(x)
  BY <1>6 DEF CxStarted
<1>7. CASE CxStop(x)
  BY <1>7 DEF CxStop
<1>8. CASE CxJoin(x)
  BY <1>8 DEF CxJoin
<1>9. CASE CxDestroy(x)
  BY <1>9 DEF CxDestroy
<1>10. CASE CxCrash(x)
  BY <1>10 DEF CxCrash
<1> QED BY <1>1, <1>2, <1>3, <1>4, <1>5, <1>6, <1>7, <1>8, <1>9, <1>10 DEF CxUserStep

\* The steps of senders and of the purger change no thread and no user.
LEMMA CxOtherEffect ==
  ASSUME CxSend \/ CxTrySendFails \/ CxPurge \/ CxPurgerLeaves
  PROVE  UNCHANGED <<cxSet, cxUser, cxC, cxGot, cxDrops, cxLock, cxStopped>>
BY DEF CxSend, CxTrySendFails, CxPurge, CxPurgerLeaves, cxRing, cxSeen
-----------------------------------------------------------------------------
(* The steps of a client's thread. *)

\* A step of a thread keeps the rest of the invariant for every setting if it keeps the
\* client's own part.
LEMMA CxClientBase ==
  ASSUME CxBaseInv, NEW c \in CxClients, CxClientStep(c), CxOnceOf(c)'
  PROVE  CxBaseInv'
<1>0. CxTypes /\ CxIndexed /\ CxFresh /\ CxOnce
  BY DEF CxBaseInv
<1>1. CxTypes'
  BY <1>0, CxTypesClient
<1>2. \A d \in CxClients : /\ cxC[d].at = "off" => cxC'[d].at = "off"
                           /\ cxC'[d].at # "off" => cxC[d].at # "off"
                           /\ cxC'[d].ix = cxC[d].ix
  BY <1>0, CxClientEffect DEF CxRunPoints, CxEnds
<1>3. CxIndexed'
  BY <1>0, <1>2, CxClientEffect DEF CxIndexed, CxIndexedOf, CxInStart
<1>4. CxFresh'
  <2> SUFFICES ASSUME NEW x \in CxContexts PROVE CxFreshOf(x)'
    BY DEF CxFresh
  <2>1. CxFreshOf(x) /\ UNCHANGED <<cxUser, cxSet>>
    BY <1>0, CxClientEffect DEF CxFresh
  <2>2. /\ cxUser[x] \in CxUserType /\ cxSet.calls[x] \in Seq(Seq(CxClients))
    BY <1>0, CxRecords, CxSetting DEF CxTypes
  <2>3. /\ \A k \in DOMAIN cxUser[x].todo : cxUser[x].todo[k] \in CxClients
        /\ \A k \in DOMAIN cxSet.calls[x] : \A m \in DOMAIN cxSet.calls[x][k] :
             cxSet.calls[x][k][m] \in CxClients
    BY <2>2, CxUserParts
  <2> QED BY <2>1, <2>3, <1>2 DEF CxFreshOf, CxInStart, CxToCome
<1>5. CxOnce'
  BY <1>0, CxClientEffect DEF CxOnce, CxOnceOf
<1> QED BY <1>1, <1>3, <1>4, <1>5 DEF CxBaseInv

\* The same of ownership: the client's cursor stays in the ring while it runs, and is dead
\* when it has unblocked.
LEMMA CxClientOwn ==
  ASSUME CxBaseInv, CxOwnInv, NEW c \in CxClients, CxClientStep(c), CxInHandOf(c)',
         CxInRing(cxC[c].ix)', CxRuns(c)' => cxCur'[cxC[c].ix] # CxDEAD,
         cxC'[c].at = "gone" => cxCur'[cxC[c].ix] = CxDEAD
  PROVE  CxOwnInv'
<1>0. /\ CxTypes /\ CxIndexed /\ CxOneStart /\ CxCursors /\ CxRunners /\ CxReserved /\ CxInHand
      /\ CxIndexAccounted
  BY DEF CxBaseInv, CxOwnInv
<1> DEFINE i == cxC[c].ix
<1>1. i \in CxNumbers /\ CxRuns(c) /\ cxCur[i] # CxDEAD
  BY <1>0, CxClientEffect DEF CxIndexed, CxRunPoints, CxEnds, CxRuns, CxRunners
<1>2. \A d \in CxClients : /\ CxRuns(d)' => CxRuns(d)
                           /\ cxC'[d].ix = cxC[d].ix
                           /\ d # c /\ CxRuns(d) => cxC[d].ix # i
  BY <1>0, <1>1, CxClientEffect DEF CxRuns, CxRunners
<1>3. CxOneStart'
  BY <1>0, CxClientEffect DEF CxOneStart, CxInStart
<1>4. CxCursors'
  BY <1>0, CxClientEffect DEF CxCursors, CxInRing
<1>5. CxRunners'
  <2> SUFFICES ASSUME NEW d \in CxClients, CxRuns(d)'
               PROVE  /\ cxCur'[cxC[d].ix] # CxDEAD
                      /\ \A e \in CxClients : (CxRuns(e)' /\ cxC[d].ix = cxC[e].ix) => d = e
    BY <1>2 DEF CxRunners
  <2>1. CxRuns(d) /\ cxC[d].ix \in CxNumbers
    BY <1>0, <1>2 DEF CxIndexed, CxRuns
  <2> QED BY <2>1, <1>0, <1>2, CxClientEffect DEF CxRunners
<1>6. CxReserved'
  <2> SUFFICES ASSUME NEW x \in CxContexts PROVE CxReservedOf(x)'
    BY DEF CxReserved
  <2>1. CxReservedOf(x) /\ cxUser' = cxUser /\ CxIndexedOf(x)
    BY <1>0, CxClientEffect DEF CxReserved, CxIndexed
  <2>2. \A k \in DOMAIN cxUser[x].slots : cxUser[x].slots[k] \in CxNumbers
    BY <1>0, CxRecords, CxUserParts
  <2>3. cxUser[x].at = "reset" => cxUser[x].seen \in CxNumbers \ {i}
    BY <2>1, <1>1 DEF CxIndexedOf, CxReservedOf
  <2>4. CxInStart(x) => \A k \in DOMAIN cxUser[x].slots : cxUser[x].slots[k] # i
    BY <2>1, <1>1 DEF CxReservedOf
  <2>5. \A j \in CxNumbers \ {i} : cxCur'[j] = cxCur[j]
    BY <1>0, CxClientEffect
  <2> QED BY <2>1, <2>2, <2>3, <2>4, <2>5, <1>2 DEF CxReservedOf, CxInStart
<1>7. CxInHand'
  <2> SUFFICES ASSUME NEW d \in CxClients, d # c PROVE CxInHandOf(d)'
    BY DEF CxInHand
  <2>1. CxInHandOf(d) /\ cxC'[d] = cxC[d] /\ cxLog' = cxLog
    BY <1>0, CxClientEffect DEF CxInHand
  <2>2. cxC[d].at \in {"handle", "waste"} => cxC[d].ix \in CxNumbers /\ cxCur'[cxC[d].ix] = cxCur[cxC[d].ix]
    BY <1>0, <1>2, CxClientEffect DEF CxRuns, CxEnds, CxIndexed
  <2> QED BY <2>1, <2>2 DEF CxInHandOf
<1>8. CxIndexAccounted'
  <2> SUFFICES ASSUME NEW j \in CxNumbers, ~CxDead(j)'
               PROVE  \/ \E d \in CxClients : cxC'[d].ix = j /\ cxC'[d].at \notin {"off", "gone"}
                      \/ \E x \in CxContexts : j \in ToSet(cxUser'[x].slots)
    BY DEF CxIndexAccounted
  <2>1. CASE j = i
    BY <2>1, <1>1, <1>2, <1>0, CxClientEffect DEF CxDead, CxDEAD, CxRunPoints, CxEnds
  <2>2. CASE j # i
    <3>1. ~CxDead(j) /\ cxUser' = cxUser
      BY <2>2, <1>0, CxClientEffect DEF CxDead
    <3>2. CASE \E x \in CxContexts : j \in ToSet(cxUser[x].slots)
      BY <3>1, <3>2
    <3>3. CASE \E d \in CxClients : cxC[d].ix = j /\ cxC[d].at \notin {"off", "gone"}
      BY <3>3, <2>2, <1>0, CxClientEffect
    <3> QED BY <3>1, <3>2, <3>3, <1>0 DEF CxIndexAccounted
  <2> QED BY <2>1, <2>2
<1> QED BY <1>3, <1>4, <1>5, <1>6, <1>7, <1>8 DEF CxOwnInv

\* The same of histories.
LEMMA CxClientHistory ==
  ASSUME CxBaseInv, CxOwnInv, CxHistory, NEW c \in CxClients, CxClientStep(c), CxHistoryOf(c)'
  PROVE  CxHistory'
<1>0. CxTypes /\ CxIndexed /\ CxRunners
  BY DEF CxBaseInv, CxOwnInv
<1> SUFFICES ASSUME NEW d \in CxClients, d # c PROVE CxHistoryOf(d)'
  BY DEF CxHistory
<1>1. /\ CxHistoryOf(d) /\ cxC'[d] = cxC[d] /\ cxGot'[d] = cxGot[d]
      /\ UNCHANGED <<cxSet, cxLog>>
  BY <1>0, CxClientEffect DEF CxHistory
<1>2. CxRuns(c)
  BY <1>0, CxClientEffect DEF CxRuns, CxRunPoints, CxEnds
<1>3. cxC[d].at \in {"check", "peek", "handle", "turn", "caught"} => cxCur'[cxC[d].ix] = cxCur[cxC[d].ix]
  BY <1>0, <1>2, CxClientEffect DEF CxRuns, CxEnds, CxIndexed, CxRunners
<1> QED BY <1>1, <1>3 DEF CxHistoryOf, CxUpToDate, CxAgain

\* CxConsecutive client by client.
LEMMA CxConsecutiveEach == CxConsecutive <=> \A c \in CxClients : CxConsecutiveOf(c)
BY DEF CxConsecutive, CxConsecutiveOf

\* The order of what a client handles is the business of its own thread.
LEMMA CxClientConsecutive ==
  ASSUME CxBaseInv, CxConsecutive, NEW c \in CxClients, CxClientStep(c), CxConsecutiveOf(c)'
  PROVE  CxConsecutive'
<1>0. CxTypes
  BY DEF CxBaseInv
<1> SUFFICES ASSUME NEW d \in CxClients, d # c PROVE CxConsecutiveOf(d)'
  BY DEF CxConsecutive, CxConsecutiveOf
<1>1. /\ CxConsecutiveOf(d) /\ cxC'[d] = cxC[d] /\ cxGot'[d] = cxGot[d] /\ cxSet' = cxSet
  BY <1>0, CxClientEffect, CxConsecutiveEach
<1> QED BY <1>1 DEF CxConsecutiveOf

\* A client that handles nothing keeps the order of what it has handled.
LEMMA CxClientSilent ==
  ASSUME CxBaseInv, CxConsecutive, NEW c \in CxClients, CxClientStep(c),
         cxGot'[c] = cxGot[c], cxC'[c].stays >= cxC[c].stays
  PROVE  CxConsecutive'
<1>0. CxTypes
  BY DEF CxBaseInv
<1>a. cxC'[c] \in CxThreadType /\ cxC[c] \in CxThreadType
  BY <1>0, CxTypesClient, CxRecords DEF CxBaseInv, CxTypes
<1>1. CxConsecutiveOf(c) /\ cxSet' = cxSet /\ cxC[c].stays \in Nat /\ cxC'[c].stays \in Nat
  BY <1>0, <1>a, CxClientEffect, CxConsecutiveEach, CxThreadParts
<1>2. CxConsecutiveOf(c)'
  BY <1>1 DEF CxConsecutiveOf
<1> QED BY <1>2, CxClientConsecutive

\* A client's thread drops its client once, and only when it is still in.
LEMMA CxClientKeepsBase ==
  ASSUME CxBaseInv, NEW c \in CxClients, CxClientStep(c)
  PROVE  CxBaseInv'
<1>0. CxTypes /\ CxIndexed /\ CxOnceOf(c) /\ cxC[c] \in CxThreadType /\ cxDrops[c] \in Nat
      /\ cxSet.stays[c] \in Nat
  BY CxRecords, CxSetting DEF CxBaseInv, CxOnce, CxTypes
<1> SUFFICES CxOnceOf(c)'
  BY CxClientBase
<1>a. cxSet' = cxSet
  BY <1>0, CxClientEffect
<1>b. cxC[c].stays \in Nat /\ cxC[c].in \in BOOLEAN
  BY <1>0, CxThreadParts
<1>1. CASE CxBorn(c)
  <2>1. \/ cxC'[c] = [cxC[c] EXCEPT !.at = "lost"]
        \/ cxC'[c] = [cxC[c] EXCEPT !.at = "check"]
    BY <1>0, <1>1 DEF CxBorn, CxTypes, CxTo
  <2>2. cxC[c].at = "born" /\ cxDrops'[c] = cxDrops[c]
    BY <1>1, <1>0 DEF CxBorn, cxSeen
  <2> QED BY <1>0, <1>a, <1>b, <2>1, <2>2 DEF CxOnceOf, CxInLoop, CxThreadType
<1>2. CASE CxCheck(c)
  <2>1. \/ cxC'[c] = [cxC[c] EXCEPT !.at = "stop"]
        \/ cxC'[c] = [cxC[c] EXCEPT !.at = "peek"]
    BY <1>0, <1>2 DEF CxCheck, CxTypes, CxTo
  <2>2. cxC[c].at = "check" /\ cxDrops'[c] = cxDrops[c]
    BY <1>2, <1>0 DEF CxCheck, cxSeen
  <2> QED BY <1>0, <1>a, <1>b, <2>1, <2>2 DEF CxOnceOf, CxInLoop, CxThreadType
<1>3. CASE CxPeek(c)
  <2>1. \/ cxC'[c] = [cxC[c] EXCEPT !.at = "caught"]
        \/ cxC'[c] = [cxC[c] EXCEPT !.at = "handle", !.seen = cxCur[cxC[c].ix],
                                    !.n = CxFound(cxC[c].ix)]
    BY <1>0, <1>3 DEF CxPeek, CxTypes, CxTo
  <2>2. cxC[c].at = "peek" /\ cxDrops'[c] = cxDrops[c]
    BY <1>3, <1>0 DEF CxPeek, cxSeen
  <2> QED BY <1>0, <1>a, <1>b, <2>1, <2>2 DEF CxOnceOf, CxInLoop, CxThreadType
<1>4. CASE CxIdleRound(c)
  <2>1. cxC'[c] = [cxC[c] EXCEPT !.at = "stop", !.in = FALSE]
    BY <1>0, <1>4 DEF CxIdleRound, CxTypes, CxTo
  <2>2. cxC[c].at = "peek" /\ cxDrops'[c] = cxDrops[c]
    BY <1>4, <1>0 DEF CxIdleRound, cxSeen
  <2> QED BY <1>0, <1>a, <1>b, <2>1, <2>2 DEF CxOnceOf, CxInLoop, CxThreadType
<1>5. CASE CxHandle(c)
  <2>1. \/ cxC'[c] = [cxC[c] EXCEPT !.at = "caught"]
        \/ cxC'[c] = [cxC[c] EXCEPT !.at = "waste"]
    BY <1>0, <1>5 DEF CxHandle, CxTypes, CxTo
  <2>2. cxC[c].at = "handle" /\ cxDrops'[c] = cxDrops[c]
    BY <1>5, <1>0 DEF CxHandle, cxSeen
  <2> QED BY <1>0, <1>a, <1>b, <2>1, <2>2 DEF CxOnceOf, CxInLoop, CxThreadType
<1>6. CASE CxWaste(c)
  <2>1. cxC'[c] = [cxC[c] EXCEPT !.at = "turn", !.seen = CxNever, !.n = 0]
    BY <1>0, <1>6 DEF CxWaste, CxTypes, CxTo
  <2>2. cxC[c].at = "waste" /\ cxDrops'[c] = cxDrops[c]
    BY <1>6, <1>0 DEF CxWaste, cxSeen
  <2> QED BY <1>0, <1>a, <1>b, <2>1, <2>2 DEF CxOnceOf, CxInLoop, CxThreadType
<1>7. CASE CxTurn(c)
  <2>1. \/ cxC'[c] = [cxC[c] EXCEPT !.at = "stop", !.in = FALSE]
        \/ cxC'[c] = [cxC[c] EXCEPT !.at = "check"]
    BY <1>0, <1>7 DEF CxTurn, CxTypes, CxTo
  <2>2. cxC[c].at = "turn" /\ cxDrops'[c] = cxDrops[c]
    BY <1>7, <1>0 DEF CxTurn, cxSeen
  <2>3. /\ cxC'[c].stays = cxC[c].stays
        /\ \/ cxC'[c].at = "stop" /\ ~cxC'[c].in
           \/ cxC'[c].at = "check" /\ (cxC[c].in => cxC'[c].in)
    BY <1>0, <2>1 DEF CxThreadType
  <2> QED BY <1>0, <1>a, <2>2, <2>3 DEF CxOnceOf, CxInLoop
<1>8. CASE CxCaught(c)
  <2>1. \/ /\ cxC'[c] = [cxC[c] EXCEPT !.seen = CxNever, !.n = 0, !.at = "stop", !.in = FALSE]
           /\ cxDrops'[c] \in {cxDrops[c], cxDrops[c] + 1}
        \/ /\ cxC[c].stays < cxSet.stays[c] /\ cxDrops'[c] = cxDrops[c]
           /\ cxC'[c] = [cxC[c] EXCEPT !.seen = CxNever, !.n = 0, !.at = "check",
                                       !.stays = cxC[c].stays + 1]
    BY <1>0, <1>8 DEF CxCaught, CxTypes, CxTo, CxThreadType
  <2>2. cxC[c].at = "caught"
    BY <1>8, <1>0 DEF CxCaught, cxSeen
  <2>3. \/ /\ cxC'[c].stays = cxC[c].stays /\ cxC'[c].at = "stop" /\ ~cxC'[c].in
           /\ cxDrops'[c] \in {cxDrops[c], cxDrops[c] + 1}
        \/ /\ cxC'[c].stays = cxC[c].stays + 1 /\ cxC'[c].at = "check" /\ (cxC[c].in => cxC'[c].in)
           /\ cxC[c].stays < cxSet.stays[c] /\ cxDrops'[c] = cxDrops[c]
    BY <1>0, <2>1 DEF CxThreadType
  <2> QED BY <1>0, <1>a, <1>b, <2>2, <2>3 DEF CxOnceOf, CxInLoop
<1>9. CASE CxLeave(c)
  <2>1. \/ cxC'[c] = [cxC[c] EXCEPT !.at = "drain"]
        \/ cxC'[c] = [cxC[c] EXCEPT !.at = "unblock"]
    BY <1>0, <1>9 DEF CxLeave, CxTypes, CxTo
  <2>2. cxC[c].at = "stop" /\ cxDrops'[c] = cxDrops[c]
    BY <1>9, <1>0 DEF CxLeave, cxSeen
  <2> QED BY <1>0, <1>a, <1>b, <2>1, <2>2 DEF CxOnceOf, CxInLoop, CxThreadType
<1>10. CASE CxDrain(c)
  <2>1. \/ cxC'[c] = [cxC[c] EXCEPT !.at = "terminated"]
        \/ cxC'[c] = [cxC[c] EXCEPT !.at = "drain"]
        \/ cxC'[c] = [cxC[c] EXCEPT !.at = "last"]
    BY <1>0, <1>10 DEF CxDrain, CxTypes, CxTo
  <2>2. cxC[c].at = "drain" /\ cxDrops'[c] = cxDrops[c]
    BY <1>10, <1>0 DEF CxDrain, cxSeen
  <2> QED BY <1>0, <1>a, <1>b, <2>1, <2>2 DEF CxOnceOf, CxInLoop, CxThreadType
<1>11. CASE CxLast(c)
  <2>1. cxC'[c] = [cxC[c] EXCEPT !.at = "unblock"]
    BY <1>0, <1>11 DEF CxLast, CxTypes, CxTo
  <2>2. cxC[c].at = "last" /\ cxDrops'[c] = cxDrops[c] + IF cxC[c].in THEN 1 ELSE 0
    BY <1>11, <1>0 DEF CxLast, cxSeen, CxStillIn, CxTypes
  <2> QED BY <1>0, <1>a, <1>b, <2>1, <2>2 DEF CxOnceOf, CxInLoop, CxThreadType
<1>12. CASE CxUnblock(c)
  <2>1. cxC'[c] = [cxC[c] EXCEPT !.at = "gone"]
    BY <1>0, <1>12 DEF CxUnblock, CxTypes, CxTo
  <2>2. cxC[c].at = "unblock" /\ cxDrops'[c] = cxDrops[c]
    BY <1>12, <1>0 DEF CxUnblock, cxSeen
  <2> QED BY <1>0, <1>a, <1>b, <2>1, <2>2 DEF CxOnceOf, CxInLoop, CxThreadType
<1> QED BY <1>1, <1>2, <1>3, <1>4, <1>5, <1>6, <1>7, <1>8, <1>9, <1>10, <1>11, <1>12 DEF CxClientStep

\* b is the numbers from "from" up to "to"; h is g and then these numbers.
CxNumbered(b, from, to) ==
  b \in Seq(Int) /\ Len(b) = to - from + 1 /\ \A k \in 1..Len(b) : b[k] = from + k - 1
CxGrown(h, g, from, to) ==
  /\ h \in Seq(Int) /\ Len(g) \in Nat /\ Len(h) \in Nat /\ Len(g) < Len(h)
  /\ \A k \in 1..Len(g) : h[k] = g[k]
  /\ \A k \in (Len(g) + 1)..Len(h) : h[k] \in from..to
  /\ \A k \in (Len(g) + 2)..Len(h) : h[k] = h[k - 1] + 1
  /\ h[Len(g) + 1] = from /\ h[Len(h)] = to

\* Handling a batch appends consecutive numbers.
LEMMA CxGrow ==
  ASSUME NEW g \in Seq(Int), NEW b, NEW from \in Int, NEW to \in Int, from <= to,
         CxNumbered(b, from, to)
  PROVE  CxGrown(g \o b, g, from, to)
<1> DEFINE h == g \o b
           m == Len(g)
<1>0. b \in Seq(Int) /\ Len(b) = to - from + 1 /\ \A k \in 1..Len(b) : b[k] = from + k - 1
  BY DEF CxNumbered
<1>4. /\ h \in Seq(Int) /\ m \in Nat /\ Len(h) = m + Len(b) /\ Len(h) \in Nat
      /\ \A k \in 1..m : h[k] = g[k]
  <2>1. b \in Seq(Int)
    BY <1>0
  <2>2. h \in Seq(Int) /\ m \in Nat /\ Len(h) = m + Len(b)
    BY <2>1
  <2>3. \A k \in 1..m : h[k] = g[k]
    BY <2>1
  <2> QED BY <2>2, <2>3
<1>4a. \A k \in (m + 1)..Len(h) : h[k] = b[k - m]
  <2> SUFFICES ASSUME NEW k \in (m + 1)..Len(h) PROVE h[k] = b[k - m]
    OBVIOUS
  <2>1. k \in 1..(m + Len(b)) /\ k > m
    BY <1>0, <1>4
  <2> QED BY <1>0, <2>1
<1> HIDE DEF h, m
<1>5. ASSUME NEW k \in (m + 1)..Len(h) PROVE h[k] = from + (k - m) - 1
  <2>1. k - m \in 1..Len(b)
    BY <1>0, <1>4
  <2>2. h[k] = b[k - m]
    BY <1>4a
  <2> QED BY <1>0, <2>2, <2>1
<1>6. m < Len(h) /\ Len(h) = m + (to - from + 1)
  BY <1>0, <1>4
<1>7. ASSUME NEW k \in (m + 1)..Len(h) PROVE h[k] \in from..to
  <2>1. h[k] = from + (k - m) - 1
    BY <1>5
  <2> QED BY <2>1, <1>4, <1>6
<1>8. ASSUME NEW k \in (m + 2)..Len(h) PROVE h[k] = h[k - 1] + 1
  <2>1. k \in (m + 1)..Len(h) /\ k - 1 \in (m + 1)..Len(h)
    BY <1>4
  <2>2. h[k] = from + (k - m) - 1 /\ h[k - 1] = from + ((k - 1) - m) - 1
    BY <2>1, <1>5
  <2> QED BY <2>2, <1>4
<1>9. h[m + 1] = from /\ h[Len(h)] = to
  <2>1. m + 1 \in (m + 1)..Len(h) /\ Len(h) \in (m + 1)..Len(h)
    BY <1>4, <1>6
  <2>2. h[m + 1] = from + ((m + 1) - m) - 1 /\ h[Len(h)] = from + (Len(h) - m) - 1
    BY <2>1, <1>5
  <2>3. m \in Nat /\ Len(h) \in Nat /\ Len(h) = m + (to - from + 1)
    BY <1>4, <1>6
  <2>4. from + ((m + 1) - m) - 1 = from /\ from + (Len(h) - m) - 1 = to
    BY <2>3
  <2> QED BY <2>2, <2>4
<1> QED BY <1>4, <1>6, <1>7, <1>8, <1>9 DEF CxGrown, h, m

\* A client that has been put back n times and throws at "at" has handled h.
CxInOrder(h, n, at) ==
  \A k \in 2..Len(h) : \/ h[k] = h[k - 1] + 1
                       \/ n > 0 /\ at = h[k - 1] /\ \E j \in 1..(k - 1) : h[j] = h[k]
CxMayFollow(from, g, n, at) ==
  Len(g) > 0 => \/ from = g[Len(g)] + 1
                \/ n > 0 /\ g[Len(g)] = at /\ \E j \in 1..Len(g) : g[j] = from

\* What is appended to an orderly sequence, from the number after its last or from one that
\* it has, keeps it orderly.
LEMMA CxGrowOrder ==
  ASSUME NEW g, NEW h, NEW from \in Int, NEW to, NEW n, NEW at,
         CxGrown(h, g, from, to), CxInOrder(g, n, at), CxMayFollow(from, g, n, at)
  PROVE  CxInOrder(h, n, at)
<1> DEFINE m == Len(g)
<1>a. /\ m \in Nat /\ h \in Seq(Int) /\ m < Len(h) /\ \A k \in 1..m : h[k] = g[k]
      /\ h[m + 1] = from /\ \A k \in (m + 2)..Len(h) : h[k] = h[k - 1] + 1
      /\ \A k \in 2..m : \/ g[k] = g[k - 1] + 1
                         \/ n > 0 /\ at = g[k - 1] /\ \E j \in 1..(k - 1) : g[j] = g[k]
      /\ m > 0 => \/ from = g[m] + 1
                  \/ n > 0 /\ g[m] = at /\ \E j \in 1..m : g[j] = from
  BY DEF CxGrown, CxInOrder, CxMayFollow
<1> HIDE DEF m
<1> USE <1>a
<1> SUFFICES \A k \in 2..Len(h) : \/ h[k] = h[k - 1] + 1
                                  \/ n > 0 /\ at = h[k - 1] /\ \E j \in 1..(k - 1) : h[j] = h[k]
  BY DEF CxInOrder
<1> TAKE k \in 2..Len(h)
<1>0. Len(h) \in Nat
  OBVIOUS
<1>1. CASE k <= m
  <2>1. k \in 2..m /\ k \in 1..m /\ k - 1 \in 1..m /\ \A j \in 1..(k - 1) : j \in 1..m
    BY <1>0, <1>1
  <2>2. h[k] = g[k] /\ h[k - 1] = g[k - 1] /\ \A j \in 1..(k - 1) : h[j] = g[j]
    BY <2>1
  <2>3. \/ g[k] = g[k - 1] + 1
        \/ n > 0 /\ at = g[k - 1] /\ \E j \in 1..(k - 1) : g[j] = g[k]
    BY <2>1
  <2> QED BY <2>2, <2>3
<1>2. CASE k = m + 1
  <2>1. k - 1 = m /\ m \in 1..m /\ m > 0
    BY <1>2, <1>0
  <2>2. h[k] = from /\ h[k - 1] = g[m] /\ \A j \in 1..m : h[j] = g[j]
    BY <2>1, <1>2
  <2> QED BY <2>1, <2>2
<1>3. CASE k > m + 1
  <2>1. k \in (m + 2)..Len(h)
    BY <1>0, <1>3
  <2> QED BY <2>1
<1> QED BY <1>0, <1>1, <1>2, <1>3

\* What the conditions of CxClientOwn and CxClientHistory come to in a step that moves no
\* cursor and handles nothing.
LEMMA CxClientStill ==
  ASSUME CxBaseInv, CxOrderInv, NEW c \in CxClients, CxClientStep(c),
         cxCur' = cxCur, cxGot'[c] = cxGot[c], cxC'[c].stays >= cxC[c].stays,
         CxInHandOf(c)', CxHistoryOf(c)', cxC'[c].at # "gone"
  PROVE  CxOrderInv'
<1>0. /\ CxTypes /\ CxIndexed /\ CxCursors /\ CxRunners /\ CxHistory /\ CxConsecutive /\ CxOrderly
      /\ CxOwnInv
  BY DEF CxBaseInv, CxOrderInv, CxOwnInv
<1>1. cxC[c].ix \in CxNumbers /\ cxCur[cxC[c].ix] # CxDEAD /\ cxSet' = cxSet /\ cxLog' = cxLog
  BY <1>0, CxClientEffect DEF CxIndexed, CxRunPoints, CxEnds, CxRuns, CxRunners
<1>2. CxInRing(cxC[c].ix)'
  BY <1>0, <1>1, CxClientEffect DEF CxCursors, CxInRing
<1>3. CxOwnInv' /\ CxHistory'
  BY <1>0, <1>1, <1>2, CxClientOwn, CxClientHistory
<1>4. CxConsecutive' /\ CxOrderly'
  BY <1>0, <1>1, CxClientSilent DEF CxOrderly
<1> QED BY <1>3, <1>4 DEF CxOrderInv

\* A running client's cursor is alive and in the ring.
LEMMA CxAlive ==
  ASSUME CxBaseInv, CxOrderInv, NEW c \in CxClients, CxRuns(c)
  PROVE  /\ cxC[c].ix \in CxNumbers /\ cxCur[cxC[c].ix] \in Nat /\ ~CxDead(cxC[c].ix)
         /\ cxCur[cxC[c].ix] # CxDEAD /\ cxLog \in Nat /\ cxLog < CxDEAD /\ CxRingCap \in Nat
         /\ cxCur[cxC[c].ix] <= cxLog /\ cxLog <= cxCur[cxC[c].ix] + CxRingCap
<1>0. CxTypes /\ CxIndexed /\ CxCursors /\ CxRunners
  BY DEF CxBaseInv, CxOrderInv, CxOwnInv
<1>1. cxC[c].ix \in CxNumbers /\ cxCur[cxC[c].ix] # CxDEAD
  BY <1>0 DEF CxIndexed, CxRunners, CxRuns
<1>2. cxCur[cxC[c].ix] \in Nat /\ cxLog \in Nat /\ CxInRing(cxC[c].ix) /\ cxLog <= CxMaxLog
  BY <1>0, <1>1 DEF CxTypes, CxCursors
<1>4. cxSet \in CxSettings
  BY <1>0 DEF CxTypes
<1>5. CxRingCap \in Nat /\ CxMaxLog \in 0..(CxDEAD - 1)
  BY <1>4, CxSetting
<1>3. CxRingCap \in Nat /\ CxMaxLog \in Nat /\ CxMaxLog < CxDEAD
  BY <1>5 DEF CxDEAD
<1> QED BY <1>1, <1>2, <1>3 DEF CxInRing, CxDead, CxDEAD

\* The thread of a client in an orderly transport.
LEMMA CxClientKeepsOrder ==
  ASSUME CxBaseInv, CxOrderInv, NEW c \in CxClients, CxClientStep(c)
  PROVE  CxOrderInv'
<1>0. /\ CxTypes /\ CxInHandOf(c) /\ CxHistoryOf(c) /\ cxC[c] \in CxThreadType
      /\ cxGot[c] \in Seq(Int)
  BY CxRecords DEF CxBaseInv, CxOrderInv, CxOwnInv, CxInHand, CxHistory
<1>a. cxSet' = cxSet /\ cxLog' = cxLog /\ cxC'[c].ix = cxC[c].ix
  BY <1>0, CxClientEffect
<1>b. cxC[c].stays \in Nat /\ cxC[c].n \in Nat /\ cxC[c].seen \in Int
  BY <1>0, CxThreadParts
<1>c. CxRuns(c)
  BY <1>0, CxClientEffect DEF CxRuns, CxRunPoints, CxEnds
<1> DEFINE i == cxC[c].ix
<1>d. /\ i \in CxNumbers /\ cxCur[i] \in Nat /\ ~CxDead(i) /\ cxCur[i] # CxDEAD
      /\ cxLog \in Nat /\ cxLog < CxDEAD /\ CxRingCap \in Nat
      /\ cxCur[i] <= cxLog /\ cxLog <= cxCur[i] + CxRingCap
  BY <1>c, CxAlive
<1>1. CASE CxBorn(c)
  <2>2. cxC[c].at = "born" /\ cxCur' = cxCur /\ cxGot' = cxGot
    BY <1>1 DEF CxBorn, cxSeen
  <2>3. /\ cxC'[c].at \in {"lost", "check"}
        /\ cxC'[c].n = cxC[c].n /\ cxC'[c].seen = cxC[c].seen /\ cxC'[c].stays = cxC[c].stays
    BY <1>0, <1>1, <1>d DEF CxBorn, CxTypes, CxTo, CxThreadType
  <2>4. CxInHandOf(c)' /\ CxHistoryOf(c)'
    BY <1>0, <1>a, <2>2, <2>3 DEF CxInHandOf, CxHistoryOf, CxUpToDate, CxAgain
  <2> QED BY <1>b, <2>2, <2>3, <2>4, CxClientStill
<1>2. CASE CxCheck(c)
  <2>2. cxC[c].at = "check" /\ cxCur' = cxCur /\ cxGot' = cxGot
    BY <1>2 DEF CxCheck, cxSeen
  <2>3. /\ cxC'[c].at \in {"stop", "peek"}
        /\ cxC'[c].n = cxC[c].n /\ cxC'[c].seen = cxC[c].seen /\ cxC'[c].stays = cxC[c].stays
    BY <1>0, <1>2, <1>d DEF CxCheck, CxTypes, CxTo, CxThreadType
  <2>4. CxInHandOf(c)' /\ CxHistoryOf(c)'
    BY <1>0, <1>a, <2>2, <2>3 DEF CxInHandOf, CxHistoryOf, CxUpToDate, CxAgain
  <2> QED BY <1>b, <2>2, <2>3, <2>4, CxClientStill
<1>3. CASE CxPeek(c)
  <2>2. cxC[c].at = "peek" /\ cxCur' = cxCur /\ cxGot' = cxGot
    BY <1>3 DEF CxPeek, cxSeen
  <2>1. /\ CxFound(i) > 0
        /\ cxC'[c] = [cxC[c] EXCEPT !.at = "handle", !.seen = cxCur[i], !.n = CxFound(i)]
    BY <1>0, <1>3, <1>d DEF CxPeek, CxTypes, CxTo
  <2>3. /\ cxC'[c].at = "handle" /\ cxC'[c].n = cxLog - cxCur[i] /\ cxC'[c].n > 0
        /\ cxC'[c].seen = cxCur[i] /\ cxC'[c].stays = cxC[c].stays
    BY <1>0, <2>1 DEF CxThreadType, CxFound
  <2>4. CxInHandOf(c)'
    BY <1>0, <1>a, <1>d, <2>2, <2>3 DEF CxInHandOf, CxNever
  <2>5. CxHistoryOf(c)'
    BY <1>0, <1>a, <2>2, <2>3 DEF CxHistoryOf, CxUpToDate, CxAgain
  <2> QED BY <1>b, <2>2, <2>3, <2>4, <2>5, CxClientStill
<1>4. CASE CxIdleRound(c)
  <2>2. cxC[c].at = "peek" /\ cxCur' = cxCur /\ cxGot' = cxGot
    BY <1>4 DEF CxIdleRound, cxSeen
  <2>3. /\ cxC'[c].at = "stop"
        /\ cxC'[c].n = cxC[c].n /\ cxC'[c].seen = cxC[c].seen /\ cxC'[c].stays = cxC[c].stays
    BY <1>0, <1>4, <1>d DEF CxIdleRound, CxTypes, CxTo, CxThreadType
  <2>4. CxInHandOf(c)' /\ CxHistoryOf(c)'
    BY <1>0, <1>a, <2>2, <2>3 DEF CxInHandOf, CxHistoryOf, CxUpToDate, CxAgain
  <2> QED BY <1>b, <2>2, <2>3, <2>4, CxClientStill
<1>5. CASE CxHandle(c)
  <2> DEFINE r == cxC[c]
             end == r.seen + r.n - 1
             throws == cxSet.throws[c] \in r.seen..end
             upTo == IF throws THEN cxSet.throws[c] ELSE end
             batch == [k \in 1..(upTo - r.seen + 1) |-> r.seen + k - 1]
             g == cxGot[c]
  <2>1. r.at = "handle" /\ cxCur' = cxCur /\ cxSet.throws[c] \in Int
    BY <1>0, <1>5, CxSetting DEF CxHandle, CxTypes
  <2>2. cxGot'[c] = g \o batch
    BY <1>0, <1>5 DEF CxHandle, CxTypes
  <2>3. r.seen = cxCur[i] /\ r.n > 0 /\ r.seen + r.n <= cxLog /\ r.n <= CxRingCap
    BY <1>0, <2>1 DEF CxInHandOf
  <2>4. upTo \in Int /\ end \in Int /\ r.seen <= upTo /\ upTo <= end /\ end < cxLog
    BY <1>b, <1>d, <2>1, <2>3
  <2>5. /\ cxC'[c].at = IF throws THEN "caught" ELSE "waste"
        /\ cxC'[c].n = r.n /\ cxC'[c].seen = r.seen /\ cxC'[c].stays = r.stays
    BY <1>0, <1>5 DEF CxHandle, CxTypes, CxTo, CxThreadType
  <2>6. CxInHandOf(c)'
    BY <1>0, <1>a, <2>1, <2>3, <2>5 DEF CxInHandOf
  <2> HIDE DEF upTo, end
  <2>6a. g \in Seq(Int) /\ r.seen \in Int /\ upTo \in Int /\ r.seen <= upTo
    BY <1>0, <1>b, <2>4
  <2>7. PICK h, m : /\ h = cxGot'[c] /\ m = Len(g)
                    /\ h \in Seq(Int) /\ m \in Nat /\ Len(h) \in Nat /\ m < Len(h)
                    /\ \A k \in 1..m : h[k] = g[k]
                    /\ \A k \in (m + 1)..Len(h) : h[k] \in r.seen..upTo
                    /\ \A k \in (m + 2)..Len(h) : h[k] = h[k - 1] + 1
                    /\ h[m + 1] = r.seen /\ h[Len(h)] = upTo
                    /\ CxGrown(h, g, r.seen, upTo)
    <3>0. batch \in Seq(Int) /\ Len(batch) = upTo - r.seen + 1
          /\ \A k \in 1..Len(batch) : batch[k] = r.seen + k - 1
      <4>1. upTo - r.seen + 1 \in Nat
        BY <2>6a
      <4>2. batch \in Seq(Int)
        BY <2>6a, CxInterval
      <4> QED BY <4>1, <4>2
    <3> HIDE DEF batch
    <3>1. CxGrown(g \o batch, g, r.seen, upTo)
      BY <2>6a, <3>0, CxGrow DEF CxNumbered
    <3>2. CxGrown(cxGot'[c], g, r.seen, upTo)
      BY <2>2, <3>1
    <3> QED BY <3>2 DEF CxGrown
  <2> HIDE DEF batch
  <2>8. h # <<>> /\ 1 \in DOMAIN h /\ m + 1 \in DOMAIN h /\ DOMAIN h = 1..Len(h)
    BY <2>7
  <2>9. DOMAIN g = 1..m
    BY <1>0, <2>7
  <2>10. CxHistoryOf(c)'
    <3>1. \A k \in DOMAIN h : 0 <= h[k] /\ h[k] < cxLog
      <4>0. cxCur[i] \in Nat /\ r.seen = cxCur[i] /\ upTo \in Int /\ upTo < cxLog
        BY <1>d, <2>3, <2>4
      <4> SUFFICES ASSUME NEW k \in 1..Len(h) PROVE 0 <= h[k] /\ h[k] < cxLog
        BY <2>8
      <4>1. CASE k \in 1..m
        BY <4>1, <2>7, <2>9, <1>0 DEF CxHistoryOf
      <4>2. CASE k \in (m + 1)..Len(h)
        <5>1. h[k] \in cxCur[i]..upTo
          BY <4>0, <4>2, <2>7
        <5> QED BY <5>1, <4>0, <1>d
      <4>3. k \in 1..m \/ k \in (m + 1)..Len(h)
        BY <2>7
      <4> QED BY <4>1, <4>2, <4>3
    <3>4. throws => upTo = cxSet.throws[c]
      BY DEF upTo
    <3>5. ~throws => upTo = r.seen + r.n - 1
      BY DEF upTo, end
    <3> HIDE DEF throws
    <3> QED BY <1>a, <2>1, <2>3, <2>5, <2>7, <2>8, <3>1, <3>4, <3>5 DEF CxHistoryOf, CxAgain
  <2>11. CxConsecutiveOf(c)'
    <3>1. \A k \in 2..m : \/ g[k] = g[k - 1] + 1
                          \/ r.stays > 0 /\ cxSet.throws[c] = g[k - 1]
                             /\ \E j \in 1..(k - 1) : g[j] = g[k]
      BY <2>7, CxConsecutiveEach DEF CxOrderInv, CxConsecutiveOf
    <3>2. m > 0 => \/ r.seen = g[m] + 1
                   \/ r.stays > 0 /\ g[m] = cxSet.throws[c] /\ \E j \in 1..m : g[j] = r.seen
      <4> SUFFICES ASSUME m > 0 PROVE \/ r.seen = g[m] + 1
                                      \/ r.stays > 0 /\ g[m] = cxSet.throws[c] /\ \E j \in 1..m : g[j] = r.seen
        OBVIOUS
      <4>1. g # <<>> /\ g[m] \in Int /\ m = Len(g)
        BY <1>0, <2>7
      <4>2. CxUpToDate(c) => r.seen = g[m] + 1
        BY <4>1, <2>3, <1>d DEF CxUpToDate
      <4> QED BY <4>1, <4>2, <2>1, <2>3, <2>9, <1>0 DEF CxHistoryOf, CxAgain
    <3>3. \A k \in 2..Len(h) : \/ h[k] = h[k - 1] + 1
                               \/ r.stays > 0 /\ cxSet.throws[c] = h[k - 1]
                                  /\ \E j \in 1..(k - 1) : h[j] = h[k]
      <4>1. CxInOrder(g, r.stays, cxSet.throws[c]) /\ CxMayFollow(r.seen, g, r.stays, cxSet.throws[c])
        BY <2>7, <3>1, <3>2 DEF CxInOrder, CxMayFollow
      <4>2. CxInOrder(h, r.stays, cxSet.throws[c])
        BY <2>6a, <2>7, <4>1, CxGrowOrder
      <4> QED BY <4>2 DEF CxInOrder
    <3> QED BY <1>a, <2>5, <2>7, <3>3 DEF CxConsecutiveOf
  <2>12. CxOwnInv' /\ CxHistory' /\ CxConsecutive'
    <3>1. CxInRing(i)'
      BY <1>a, <1>d, <2>1 DEF CxInRing
    <3>2. cxC'[c].at # "gone" /\ cxCur'[i] # CxDEAD
      BY <1>d, <2>1, <2>5
    <3> QED BY <3>1, <3>2, <2>6, <2>10, <2>11, CxClientOwn, CxClientHistory, CxClientConsecutive
            DEF CxOrderInv
  <2> QED BY <2>12, <1>a DEF CxOrderInv, CxOrderly
<1>6. CASE CxWaste(c)
  <2>1. cxC[c].at = "waste" /\ cxGot' = cxGot /\ cxCur'[i] = cxCur[i] + cxC[c].n
    BY <1>0, <1>6, <1>d DEF CxWaste, cxSeen, CxTypes, CxWastes
  <2>2. /\ cxC'[c].at = "turn"
        /\ cxC'[c].n = 0 /\ cxC'[c].seen = CxNever /\ cxC'[c].stays = cxC[c].stays
    BY <1>0, <1>6, <1>d DEF CxWaste, CxTypes, CxTo, CxThreadType
  <2>3. CxInHandOf(c)'
    BY <1>0, <1>a, <1>d, <2>1, <2>2 DEF CxInHandOf, CxNever
  <2>4. CxInRing(i)' /\ (CxRuns(c)' => cxCur'[i] # CxDEAD) /\ (cxC'[c].at = "gone" => cxCur'[i] = CxDEAD)
    BY <1>0, <1>a, <1>b, <1>d, <2>1, <2>2 DEF CxInRing, CxRuns, CxEnds, CxInHandOf, CxDEAD
  <2>5. CxHistoryOf(c)'
    BY <1>0, <1>a, <1>b, <2>1, <2>2 DEF CxHistoryOf, CxUpToDate, CxInHandOf
  <2>6. CxOwnInv' /\ CxHistory' /\ CxConsecutive'
    BY <1>b, <2>1, <2>2, <2>3, <2>4, <2>5, CxClientOwn, CxClientHistory, CxClientSilent DEF CxOrderInv
  <2> QED BY <2>6, <1>a DEF CxOrderInv, CxOrderly
<1>7. CASE CxTurn(c)
  <2>2. cxC[c].at = "turn" /\ cxCur' = cxCur /\ cxGot' = cxGot
    BY <1>7 DEF CxTurn, cxSeen
  <2>3. /\ cxC'[c].at \in {"stop", "check"}
        /\ cxC'[c].n = cxC[c].n /\ cxC'[c].seen = cxC[c].seen /\ cxC'[c].stays = cxC[c].stays
    BY <1>0, <1>7, <1>d DEF CxTurn, CxTypes, CxTo, CxThreadType
  <2>4. CxInHandOf(c)' /\ CxHistoryOf(c)'
    BY <1>0, <1>a, <2>2, <2>3 DEF CxInHandOf, CxHistoryOf, CxUpToDate, CxAgain
  <2> QED BY <1>b, <2>2, <2>3, <2>4, CxClientStill
<1>8. CASE CxCaught(c)
  <2>2. cxC[c].at = "caught" /\ cxCur' = cxCur /\ cxGot' = cxGot
    BY <1>8 DEF CxCaught
  <2>1. \/ cxC'[c] = [cxC[c] EXCEPT !.seen = CxNever, !.n = 0, !.at = "stop", !.in = FALSE]
        \/ cxC'[c] = [cxC[c] EXCEPT !.seen = CxNever, !.n = 0, !.at = "check",
                                    !.stays = cxC[c].stays + 1]
    BY <1>0, <1>8 DEF CxCaught, CxTypes, CxTo
  <2>3. /\ cxC'[c].n = 0 /\ cxC'[c].seen = CxNever
        /\ \/ cxC'[c].at = "stop" /\ cxC'[c].stays = cxC[c].stays
           \/ cxC'[c].at = "check" /\ cxC'[c].stays = cxC[c].stays + 1
    BY <1>0, <2>1 DEF CxThreadType
  <2>4. CxInHandOf(c)'
    BY <1>0, <1>a, <1>d, <2>2, <2>3 DEF CxInHandOf, CxNever
  <2>5. CxHistoryOf(c)'
    BY <1>0, <1>a, <1>b, <2>2, <2>3 DEF CxHistoryOf, CxAgain
  <2> QED BY <1>b, <2>2, <2>3, <2>4, <2>5, CxClientStill
<1>9. CASE CxLeave(c)
  <2>2. cxC[c].at = "stop" /\ cxCur' = cxCur /\ cxGot' = cxGot
    BY <1>9 DEF CxLeave, cxSeen
  <2>3. /\ cxC'[c].at \in {"drain", "unblock"}
        /\ cxC'[c].n = cxC[c].n /\ cxC'[c].seen = cxC[c].seen /\ cxC'[c].stays = cxC[c].stays
    BY <1>0, <1>9, <1>d DEF CxLeave, CxTypes, CxTo, CxThreadType
  <2>4. CxInHandOf(c)' /\ CxHistoryOf(c)'
    BY <1>0, <1>a, <2>2, <2>3 DEF CxInHandOf, CxHistoryOf, CxUpToDate, CxAgain
  <2> QED BY <1>b, <2>2, <2>3, <2>4, CxClientStill
<1>10. CASE CxDrain(c)
  <2>1. cxC[c].at = "drain" /\ cxGot' = cxGot /\ cxCur'[i] = cxLog
    BY <1>0, <1>10, <1>d DEF CxDrain, cxSeen, CxTypes
  <2>2. /\ cxC'[c].at \in {"drain", "last"}
        /\ cxC'[c].n = cxC[c].n /\ cxC'[c].seen = cxC[c].seen /\ cxC'[c].stays = cxC[c].stays
    BY <1>0, <1>10, <1>d DEF CxDrain, CxTypes, CxTo, CxThreadType
  <2>3. CxInHandOf(c)'
    BY <1>0, <1>a, <1>d, <2>1, <2>2 DEF CxInHandOf, CxNever
  <2>4. CxInRing(i)' /\ (CxRuns(c)' => cxCur'[i] # CxDEAD) /\ (cxC'[c].at = "gone" => cxCur'[i] = CxDEAD)
    BY <1>0, <1>a, <1>b, <1>d, <2>1, <2>2 DEF CxInRing, CxRuns, CxEnds, CxInHandOf, CxDEAD
  <2>5. CxHistoryOf(c)'
    BY <1>0, <1>a, <1>b, <2>1, <2>2 DEF CxHistoryOf, CxUpToDate, CxInHandOf
  <2>6. CxOwnInv' /\ CxHistory' /\ CxConsecutive'
    BY <1>b, <2>1, <2>2, <2>3, <2>4, <2>5, CxClientOwn, CxClientHistory, CxClientSilent DEF CxOrderInv
  <2> QED BY <2>6, <1>a DEF CxOrderInv, CxOrderly
<1>11. CASE CxLast(c)
  <2>2. cxC[c].at = "last" /\ cxCur' = cxCur /\ cxGot' = cxGot
    BY <1>11 DEF CxLast, cxSeen
  <2>3. /\ cxC'[c].at = "unblock"
        /\ cxC'[c].n = cxC[c].n /\ cxC'[c].seen = cxC[c].seen /\ cxC'[c].stays = cxC[c].stays
    BY <1>0, <1>11, <1>d DEF CxLast, CxTypes, CxTo, CxThreadType
  <2>4. CxInHandOf(c)' /\ CxHistoryOf(c)'
    BY <1>0, <1>a, <2>2, <2>3 DEF CxInHandOf, CxHistoryOf, CxUpToDate, CxAgain
  <2> QED BY <1>b, <2>2, <2>3, <2>4, CxClientStill
<1>12. CASE CxUnblock(c)
  <2>1. cxC[c].at = "unblock" /\ cxGot' = cxGot /\ cxCur'[i] = CxDEAD
    BY <1>0, <1>12, <1>d DEF CxUnblock, cxSeen, CxTypes, CxGivenBack
  <2>2. /\ cxC'[c].at = "gone"
        /\ cxC'[c].n = cxC[c].n /\ cxC'[c].seen = cxC[c].seen /\ cxC'[c].stays = cxC[c].stays
    BY <1>0, <1>12, <1>d DEF CxUnblock, CxTypes, CxTo, CxThreadType
  <2>3. CxInHandOf(c)'
    BY <1>0, <1>a, <1>d, <2>1, <2>2 DEF CxInHandOf, CxNever
  <2>4. CxInRing(i)' /\ (CxRuns(c)' => cxCur'[i] # CxDEAD) /\ (cxC'[c].at = "gone" => cxCur'[i] = CxDEAD)
    BY <1>0, <1>a, <1>b, <1>d, <2>1, <2>2 DEF CxInRing, CxRuns, CxEnds, CxInHandOf, CxDEAD
  <2>5. CxHistoryOf(c)'
    BY <1>0, <1>a, <1>b, <2>1, <2>2 DEF CxHistoryOf, CxUpToDate, CxInHandOf
  <2>6. CxOwnInv' /\ CxHistory' /\ CxConsecutive'
    BY <1>b, <2>1, <2>2, <2>3, <2>4, <2>5, CxClientOwn, CxClientHistory, CxClientSilent DEF CxOrderInv
  <2> QED BY <2>6, <1>a DEF CxOrderInv, CxOrderly
<1> QED BY <1>1, <1>2, <1>3, <1>4, <1>5, <1>6, <1>7, <1>8, <1>9, <1>10, <1>11, <1>12 DEF CxClientStep

-----------------------------------------------------------------------------
(* The steps of the users. *)

\* Where the step of a user takes it; the settings, the ring's length and other users stay.
LEMMA CxUserMoves ==
  ASSUME CxTypes, NEW x \in CxContexts, NEW u, NEW v, u = cxUser[x], v = cxUser'[x]
  PROVE  /\ CxStart(x) => /\ u.at = "idle" /\ v.at = "look" /\ v.call = u.call /\ v.seen = u.seen
                          /\ v.todo = cxSet.calls[x][u.call] /\ v.slots = <<>>
                          /\ u.call <= Len(cxSet.calls[x])
         /\ CxLook(x) => /\ u.at = "look" /\ v.call = u.call /\ v.todo = u.todo /\ v.slots = u.slots
                         /\ \/ v.at = "kick" /\ v.seen = u.seen /\ Len(u.slots) = Len(u.todo)
                            \/ v.at = "fail" /\ v.seen = u.seen
                            \/ v.at = "reset" /\ Len(u.slots) # Len(u.todo)
                               /\ v.seen \in CxNumbers /\ cxCur[v.seen] = CxDEAD
         /\ CxReset(x) => /\ u.at = "reset" /\ v.at = "look" /\ v.call = u.call /\ v.todo = u.todo
                          /\ v.slots = Append(u.slots, u.seen)
         /\ CxFail(x) => /\ u.at = "fail" /\ v.at = "idle" /\ v.call = u.call + 1
                         /\ v.todo = <<>> /\ v.slots = <<>>
         /\ CxKick(x) => /\ u.at = "kick" /\ v.at = "kick" /\ v.call = u.call /\ v.seen = u.seen
                         /\ u.todo # <<>> /\ v.todo = Tail(u.todo) /\ v.slots = Tail(u.slots)
         /\ CxStarted(x) => /\ u.at = "kick" /\ u.todo = <<>> /\ v.at = "idle" /\ v.call = u.call + 1
                            /\ v.todo = <<>> /\ v.slots = <<>>
         /\ CxStop(x) => /\ u.at = "idle" /\ v.at = "joining" /\ v.call = u.call
                         /\ v.todo = u.todo /\ v.slots = u.slots
         /\ CxJoin(x) => /\ u.at = "joining" /\ v.at = "joined" /\ v.call = u.call
                         /\ v.todo = u.todo /\ v.slots = u.slots
         /\ CxDestroy(x) => /\ u.at = "joined" /\ v.at = "destroyed" /\ v.call = u.call
                            /\ v.todo = u.todo /\ v.slots = u.slots
         /\ CxCrash(x) => /\ v.at = "crashed" /\ v.call = u.call
                          /\ v.todo = u.todo /\ v.slots = u.slots
<1>0. u \in CxUserType /\ \A w : CxUserTo(x, w) => v = w
  BY CxRecords DEF CxTypes, CxUserTo
<1>1. ASSUME CxStart(x)
      PROVE  /\ u.at = "idle" /\ v.at = "look" /\ v.call = u.call /\ v.seen = u.seen
             /\ v.todo = cxSet.calls[x][u.call] /\ v.slots = <<>> /\ u.call <= Len(cxSet.calls[x])
  <2>1. v = [u EXCEPT !.at = "look", !.todo = cxSet.calls[x][u.call], !.slots = <<>>]
    BY <1>0, <1>1 DEF CxStart
  <2> QED BY <1>0, <1>1, <2>1 DEF CxStart, CxUserType
<1>2. ASSUME CxLook(x)
      PROVE  /\ u.at = "look" /\ v.call = u.call /\ v.todo = u.todo /\ v.slots = u.slots
             /\ \/ v.at = "kick" /\ v.seen = u.seen /\ Len(u.slots) = Len(u.todo)
                \/ v.at = "fail" /\ v.seen = u.seen
                \/ v.at = "reset" /\ Len(u.slots) # Len(u.todo)
                   /\ v.seen \in CxNumbers /\ cxCur[v.seen] = CxDEAD
  <2>1. \/ v = [u EXCEPT !.at = "kick"] /\ Len(u.slots) = Len(u.todo)
        \/ v = [u EXCEPT !.at = "fail"]
        \/ /\ v = [u EXCEPT !.at = "reset", !.seen = Min(CxUnused)]
           /\ CxUnused # {} /\ Len(u.slots) # Len(u.todo)
    BY <1>0, <1>2 DEF CxLook
  <2>2. CxUnused # {} => Min(CxUnused) \in CxUnused
    BY CxSetting, CxMin DEF CxUnused, CxTypes
  <2>3. \A i \in CxUnused : i \in CxNumbers /\ cxCur[i] = CxDEAD
    BY DEF CxUnused
  <2> QED BY <1>0, <1>2, <2>1, <2>2, <2>3 DEF CxLook, CxUserType
<1>3. ASSUME CxReset(x)
      PROVE  /\ u.at = "reset" /\ v.at = "look" /\ v.call = u.call /\ v.todo = u.todo
             /\ v.slots = Append(u.slots, u.seen)
  <2>1. v = [u EXCEPT !.at = "look", !.slots = Append(u.slots, u.seen), !.seen = CxNever]
    BY <1>0, <1>3 DEF CxReset
  <2> QED BY <1>0, <1>3, <2>1 DEF CxReset, CxUserType
<1>4. ASSUME CxFail(x)
      PROVE  /\ u.at = "fail" /\ v.at = "idle" /\ v.call = u.call + 1
             /\ v.todo = <<>> /\ v.slots = <<>>
  <2>1. v = [CxIdleUser EXCEPT !.call = u.call + 1]
    BY <1>0, <1>4 DEF CxFail
  <2> QED BY <1>4, <2>1 DEF CxFail, CxIdleUser
<1>5. ASSUME CxKick(x)
      PROVE  /\ u.at = "kick" /\ v.at = "kick" /\ v.call = u.call /\ v.seen = u.seen
             /\ u.todo # <<>> /\ v.todo = Tail(u.todo) /\ v.slots = Tail(u.slots)
  <2>1. v = [u EXCEPT !.todo = Tail(u.todo), !.slots = Tail(u.slots)]
    BY <1>0, <1>5 DEF CxKick
  <2> QED BY <1>0, <1>5, <2>1 DEF CxKick, CxUserType
<1>6. ASSUME CxStarted(x)
      PROVE  /\ u.at = "kick" /\ u.todo = <<>> /\ v.at = "idle" /\ v.call = u.call + 1
             /\ v.todo = <<>> /\ v.slots = <<>>
  <2>1. v = [CxIdleUser EXCEPT !.call = u.call + 1]
    BY <1>0, <1>6 DEF CxStarted
  <2> QED BY <1>6, <2>1 DEF CxStarted, CxIdleUser
<1>7. ASSUME CxStop(x)
      PROVE  /\ u.at = "idle" /\ v.at = "joining" /\ v.call = u.call
             /\ v.todo = u.todo /\ v.slots = u.slots
  BY <1>0, <1>7 DEF CxStop, CxUserType
<1>8. ASSUME CxJoin(x)
      PROVE  /\ u.at = "joining" /\ v.at = "joined" /\ v.call = u.call
             /\ v.todo = u.todo /\ v.slots = u.slots
  BY <1>0, <1>8 DEF CxJoin, CxUserType
<1>9. ASSUME CxDestroy(x)
      PROVE  /\ u.at = "joined" /\ v.at = "destroyed" /\ v.call = u.call
             /\ v.todo = u.todo /\ v.slots = u.slots
  BY <1>0, <1>9 DEF CxDestroy, CxUserType
<1>10. ASSUME CxCrash(x)
       PROVE  v.at = "crashed" /\ v.call = u.call /\ v.todo = u.todo /\ v.slots = u.slots
  BY <1>0, <1>10 DEF CxCrash, CxUserType
<1> QED BY <1>1, <1>2, <1>3, <1>4, <1>5, <1>6, <1>7, <1>8, <1>9, <1>10

\* A step of a user that touches no thread keeps the rest of what holds for every setting
\* if it keeps the user's own part.
LEMMA CxUserBase ==
  ASSUME CxBaseInv, NEW x \in CxContexts, CxUserStep(x) \/ CxCrash(x), cxC' = cxC,
         CxIndexedOf(x)', CxFreshOf(x)'
  PROVE  CxBaseInv'
<1>0. CxTypes /\ CxIndexed /\ CxFresh /\ CxOnce
  BY DEF CxBaseInv
<1>1. UNCHANGED <<cxSet, cxDrops>> /\ \A y \in CxContexts \ {x} : cxUser'[y] = cxUser[y]
  BY <1>0, CxUserEffect
<1>2. CxTypes'
  BY <1>0, CxTypesUser
<1>3. CxOnce'
  BY <1>0, <1>1 DEF CxOnce, CxOnceOf
<1>4. \A y \in CxContexts \ {x} : CxIndexedOf(y)' /\ CxFreshOf(y)'
  <2> SUFFICES ASSUME NEW y \in CxContexts \ {x} PROVE CxIndexedOf(y)' /\ CxFreshOf(y)'
    OBVIOUS
  <2>1. CxIndexedOf(y) /\ CxFreshOf(y) /\ cxUser'[y] = cxUser[y]
    BY <1>0, <1>1 DEF CxIndexed, CxFresh
  <2>2. CxIndexedOf(y)'
    BY <2>1 DEF CxIndexedOf, CxInStart
  <2>3. CxFreshOf(y)'
    BY <2>1, <1>1 DEF CxFreshOf, CxInStart, CxToCome
  <2> QED BY <2>2, <2>3
<1>5. CxIndexed' /\ CxFresh'
  BY <1>0, <1>4 DEF CxIndexed, CxFresh
<1> QED BY <1>2, <1>3, <1>5 DEF CxBaseInv

\* kickOffClientThread: of the clients that are off, one is no longer.
LEMMA CxKickKeepsBase ==
  ASSUME CxBaseInv, NEW x \in CxContexts, CxKick(x)
  PROVE  /\ CxBaseInv'
         /\ \E d \in CxClients : /\ d = Head(cxUser[x].todo) /\ cxC[d].at = "off"
                                 /\ cxC'[d] = [CxOffClient EXCEPT !.at = "born", !.ix = Head(cxUser[x].slots), !.of = x]
                                 /\ Head(cxUser[x].slots) \in CxNumbers /\ cxUser[x].slots # <<>>
                                 /\ \A e \in CxClients \ {d} : cxC'[e] = cxC[e]
<1>0. CxTypes /\ CxIndexed /\ CxFresh /\ CxOnce /\ CxUserStep(x)
  BY DEF CxBaseInv, CxUserStep
<1> DEFINE u == cxUser[x]
           v == cxUser'[x]
           d == Head(u.todo)
<1>1. /\ u.at = "kick" /\ v.at = "kick" /\ v.call = u.call /\ v.seen = u.seen
      /\ u.todo # <<>> /\ v.todo = Tail(u.todo) /\ v.slots = Tail(u.slots)
  BY <1>0, CxUserMoves
<1>2. /\ u \in CxUserType /\ u.todo \in Seq(CxClients) /\ u.slots \in Seq(CxNumbers)
      /\ Len(u.slots) = Len(u.todo) /\ u.call \in Nat
  BY <1>0, <1>1, CxRecords, CxUserParts DEF CxIndexed, CxIndexedOf
<1>3. /\ d \in CxClients /\ d = u.todo[1] /\ 1 \in DOMAIN u.todo /\ u.slots # <<>>
      /\ Head(u.slots) \in CxNumbers
      /\ Len(v.todo) = Len(u.todo) - 1 /\ Len(v.slots) = Len(u.slots) - 1
      /\ DOMAIN v.todo = 1..(Len(u.todo) - 1)
      /\ \A k \in DOMAIN v.todo : v.todo[k] = u.todo[k + 1] /\ k + 1 \in DOMAIN u.todo
  BY <1>1, <1>2
<1>4. /\ UNCHANGED <<cxSet, cxDrops>> /\ \A y \in CxContexts \ {x} : cxUser'[y] = cxUser[y]
  BY <1>0, CxUserEffect
<1>5. /\ cxC'[d] = [CxOffClient EXCEPT !.at = "born", !.ix = Head(u.slots), !.of = x]
      /\ \A e \in CxClients \ {d} : cxC'[e] = cxC[e]
  BY <1>0, <1>3 DEF CxKick, CxTypes
<1>6. /\ CxFreshOf(x) /\ cxC[d].at = "off" /\ u.call <= Len(cxSet.calls[x])
      /\ \E m \in DOMAIN cxSet.calls[x][u.call] : d = cxSet.calls[x][u.call][m]
  BY <1>0, <1>1, <1>3 DEF CxFresh, CxFreshOf, CxInStart
<1>7. cxC'[d].at = "born" /\ cxC'[d].ix = Head(u.slots) /\ cxC'[d].stays = 0 /\ cxC'[d].in
  BY <1>5 DEF CxOffClient
<1>8. /\ cxSet.calls[x] \in Seq(Seq(CxClients)) /\ u.call \in DOMAIN cxSet.calls[x]
      /\ cxSet.stays[d] \in Nat
      /\ \A y \in CxContexts : \A k \in DOMAIN cxSet.calls[y] : \A n \in DOMAIN cxSet.calls[y][k] :
           cxSet.calls[y][k][n] = d => y = x /\ k = u.call
      /\ \A y \in CxContexts : \A k \in DOMAIN cxSet.calls[y] : \A n \in DOMAIN cxSet.calls[y][k] :
           cxSet.calls[y][k][n] \in CxClients
  <2>1. /\ cxSet.calls \in [CxContexts -> Seq(Seq(CxClients))] /\ cxSet.stays[d] \in Nat
    BY <1>0, <1>3, CxSetting DEF CxTypes
  <2>2. u.call \in DOMAIN cxSet.calls[x]
    BY <2>1, <1>2, <1>6, CxUserParts
  <2>3. PICK m \in DOMAIN cxSet.calls[x][u.call] : d = cxSet.calls[x][u.call][m]
    BY <1>6
  <2>4. \A y \in CxContexts : \A k \in DOMAIN cxSet.calls[y] : \A n \in DOMAIN cxSet.calls[y][k] :
           cxSet.calls[y][k][n] = cxSet.calls[x][u.call][m] => y = x /\ k = u.call
    <3>1. cxSet \in CxSettings
      BY <1>0 DEF CxTypes
    <3> SUFFICES ASSUME NEW y \in CxContexts, NEW k \in DOMAIN cxSet.calls[y],
                        NEW n \in DOMAIN cxSet.calls[y][k],
                        cxSet.calls[y][k][n] = cxSet.calls[x][u.call][m]
                 PROVE  y = x /\ k = u.call
      OBVIOUS
    <3>2. \A l \in DOMAIN cxSet.calls[x] : \A p \in DOMAIN cxSet.calls[x][l] :
            cxSet.calls[y][k][n] = cxSet.calls[x][l][p] => y = x /\ k = l
      BY <3>1, CxSetting
    <3> QED BY <2>2, <2>3, <3>2
  <2> QED BY <2>1, <2>2, <2>3, <2>4
<1>9. CxTypes'
  BY <1>0, CxTypesUser
<1>10. CxIndexed'
  <2>1. \A y \in CxContexts \ {x} : CxIndexedOf(y)'
    BY <1>0, <1>4 DEF CxIndexed, CxIndexedOf, CxInStart
  <2>2. CxIndexedOf(x)'
    BY <1>1, <1>2, <1>3 DEF CxIndexedOf
  <2>3. \A c \in CxClients : cxC'[c].at # "off" => cxC'[c].ix \in CxNumbers
    BY <1>0, <1>3, <1>5, <1>7 DEF CxIndexed
  <2> QED BY <2>1, <2>2, <2>3 DEF CxIndexed
<1>11. CxOnce'
  <2> SUFFICES ASSUME NEW c \in CxClients PROVE CxOnceOf(c)'
    BY DEF CxOnce
  <2>1. CxOnceOf(c)
    BY <1>0 DEF CxOnce
  <2>2. CASE c = d
    BY <2>1, <2>2, <1>4, <1>6, <1>7, <1>8 DEF CxOnceOf, CxInLoop
  <2>3. CASE c # d
    BY <2>1, <2>3, <1>4, <1>5 DEF CxOnceOf
  <2> QED BY <2>2, <2>3
<1>12. \A y \in CxContexts \ {x} : CxFreshOf(y)'
  <2> SUFFICES ASSUME NEW y \in CxContexts \ {x} PROVE CxFreshOf(y)'
    OBVIOUS
  <2>1. CxFreshOf(y) /\ cxUser'[y] = cxUser[y] /\ cxSet' = cxSet
    BY <1>0, <1>4 DEF CxFresh
  <2>2. \A k \in DOMAIN cxSet.calls[y] : \A m \in DOMAIN cxSet.calls[y][k] :
          cxC'[cxSet.calls[y][k][m]] = cxC[cxSet.calls[y][k][m]]
    BY <1>5, <1>8
  <2>3. CxInStart(y) => \A k \in DOMAIN cxUser[y].todo :
                          cxUser[y].todo[k] \in CxClients /\ cxUser[y].todo[k] # d
    <3>1. /\ cxUser[y] \in CxUserType /\ cxUser[y].call \in Nat \ {0}
          /\ cxSet.calls[y] \in Seq(Seq(CxClients))
      BY <1>0, CxRecords, CxUserParts, CxSetting DEF CxTypes
    <3>2. CxInStart(y) => cxUser[y].call \in DOMAIN cxSet.calls[y]
      BY <3>1, <2>1 DEF CxFreshOf
    <3> QED BY <3>2, <2>1, <1>8 DEF CxFreshOf
  <2> QED BY <2>1, <2>2, <2>3, <1>5 DEF CxFreshOf, CxInStart, CxToCome
<1>13. CxFreshOf(x)'
  <2>1. CxInStart(x) /\ CxInStart(x)'
    BY <1>1 DEF CxInStart
  <2>2. \A k \in DOMAIN cxSet.calls[x] : CxToCome(x, k)' =>
           \A m \in DOMAIN cxSet.calls[x][k] : cxC'[cxSet.calls[x][k][m]].at = "off"
    <3> SUFFICES ASSUME NEW k \in DOMAIN cxSet.calls[x], k > u.call, NEW m \in DOMAIN cxSet.calls[x][k]
                 PROVE  cxC'[cxSet.calls[x][k][m]].at = "off"
      BY <1>1, <2>1 DEF CxToCome
    <3>0. k # u.call
      BY <1>2, <1>8
    <3>1. cxSet.calls[x][k][m] \in CxClients \ {d}
      BY <1>8, <3>0
    <3>2. cxC[cxSet.calls[x][k][m]].at = "off"
      BY <1>1, <1>6 DEF CxFreshOf, CxToCome
    <3> QED BY <3>1, <3>2, <1>5
  <2>3. \A k \in DOMAIN v.todo :
            /\ cxC'[v.todo[k]].at = "off"
            /\ \E m \in DOMAIN cxSet.calls[x][u.call] : v.todo[k] = cxSet.calls[x][u.call][m]
            /\ \A l \in DOMAIN v.todo : v.todo[k] = v.todo[l] => k = l
    <3> SUFFICES ASSUME NEW k \in DOMAIN v.todo
                 PROVE  /\ cxC'[v.todo[k]].at = "off"
                        /\ \E m \in DOMAIN cxSet.calls[x][u.call] : v.todo[k] = cxSet.calls[x][u.call][m]
                        /\ \A l \in DOMAIN v.todo : v.todo[k] = v.todo[l] => k = l
      OBVIOUS
    <3>1. /\ v.todo[k] = u.todo[k + 1] /\ k + 1 \in DOMAIN u.todo /\ k \in Nat /\ k + 1 # 1
          /\ u.todo[k + 1] \in CxClients
      BY <1>2, <1>3
    <3>2. u.todo[k + 1] # d
      BY <3>1, <1>3, <1>6, <2>1 DEF CxFreshOf
    <3>3. /\ cxC[u.todo[k + 1]].at = "off"
          /\ \E m \in DOMAIN cxSet.calls[x][u.call] : u.todo[k + 1] = cxSet.calls[x][u.call][m]
          /\ \A l \in DOMAIN u.todo : u.todo[k + 1] = u.todo[l] => k + 1 = l
      BY <3>1, <1>6, <2>1 DEF CxFreshOf
    <3>4. ASSUME NEW l \in DOMAIN v.todo, v.todo[k] = v.todo[l] PROVE k = l
      <4>1. v.todo[l] = u.todo[l + 1] /\ l + 1 \in DOMAIN u.todo /\ l \in Nat
        BY <1>2, <1>3
      <4>2. k + 1 = l + 1
        BY <3>1, <3>3, <3>4, <4>1
      <4> QED BY <3>1, <4>1, <4>2
    <3> QED BY <3>1, <3>2, <3>3, <3>4, <1>5
  <2> QED BY <2>1, <2>2, <2>3, <1>1, <1>4, <1>6 DEF CxFreshOf
<1> QED BY <1>0, <1>3, <1>5, <1>6, <1>9, <1>10, <1>11, <1>12, <1>13 DEF CxBaseInv, CxFresh

\* A step of a user or the end of a process keeps what holds for every setting.
LEMMA CxUserKeepsBase ==
  ASSUME CxBaseInv, NEW x \in CxContexts, CxUserStep(x) \/ CxCrash(x)
  PROVE  CxBaseInv'
<1>0. /\ CxTypes /\ CxIndexed /\ CxFresh /\ CxOnce /\ CxIndexedOf(x) /\ CxFreshOf(x)
      /\ cxSet' = cxSet
  BY CxUserEffect DEF CxBaseInv, CxIndexed, CxFresh
<1> DEFINE u == cxUser[x]
           v == cxUser'[x]
<1>a. /\ u.todo \in Seq(CxClients) /\ u.slots \in Seq(CxNumbers) /\ u.call \in Nat \ {0}
      /\ Len(u.todo) \in Nat /\ Len(u.slots) \in Nat
      /\ cxSet.calls[x] \in Seq(Seq(CxClients)) /\ Len(cxSet.calls[x]) \in Nat
      /\ DOMAIN cxSet.calls[x] = 1..Len(cxSet.calls[x])
  <2>1. /\ u.todo \in Seq(CxClients) /\ u.slots \in Seq(CxNumbers) /\ u.call \in Nat \ {0}
    BY <1>0, CxRecords, CxUserParts
  <2>2. cxSet.calls[x] \in Seq(Seq(CxClients))
    BY <1>0, CxSetting DEF CxTypes
  <2> QED BY <2>1, <2>2
<1>1. CASE CxStart(x)
  <2>1. /\ u.at = "idle" /\ v.at = "look" /\ v.call = u.call /\ u.call <= Len(cxSet.calls[x])
        /\ v.todo = cxSet.calls[x][u.call] /\ v.slots = <<>> /\ cxC' = cxC
    BY <1>0, <1>1, CxUserMoves DEF CxStart
  <2>2. u.call \in DOMAIN cxSet.calls[x] /\ v.todo \in Seq(CxClients)
    BY <1>a, <2>1
  <2>3. CxIndexedOf(x)'
    BY <2>1, <2>2 DEF CxIndexedOf
  <2>4. CxInStart(x)' /\ ~CxInStart(x)
    BY <2>1 DEF CxInStart
  <2>5. \A k \in DOMAIN cxSet.calls[x] : CxToCome(x, k)' => CxToCome(x, k)
    BY <2>1, <2>4 DEF CxToCome
  <2>6. \A m \in DOMAIN v.todo : cxC[v.todo[m]].at = "off"
    BY <1>0, <2>1, <2>2, <2>4 DEF CxFreshOf, CxToCome
  <2>7. \A k, l \in DOMAIN v.todo : v.todo[k] = v.todo[l] => k = l
    <3>1. cxSet \in CxSettings
      BY <1>0 DEF CxTypes
    <3> QED BY <2>1, <2>2, <3>1, CxSetting
  <2>8. CxFreshOf(x)'
    BY <1>0, <2>1, <2>2, <2>4, <2>5, <2>6, <2>7 DEF CxFreshOf
  <2> QED BY <2>1, <2>3, <2>8, CxUserBase
<1>2. CASE CxLook(x)
  <2>1. /\ u.at = "look" /\ v.call = u.call /\ v.todo = u.todo /\ v.slots = u.slots
        /\ \/ v.at = "kick" /\ Len(u.slots) = Len(u.todo)
           \/ v.at = "fail"
           \/ v.at = "reset" /\ Len(u.slots) # Len(u.todo) /\ v.seen \in CxNumbers
        /\ cxC' = cxC
    BY <1>0, <1>2, CxUserMoves DEF CxLook
  <2>2. CxInStart(x) /\ CxInStart(x)'
    BY <2>1 DEF CxInStart
  <2>3. CxIndexedOf(x)'
    BY <1>0, <1>a, <2>1, <2>2 DEF CxIndexedOf
  <2>4. CxFreshOf(x)'
    BY <1>0, <2>1, <2>2 DEF CxFreshOf, CxToCome
  <2> QED BY <2>1, <2>3, <2>4, CxUserBase
<1>3. CASE CxReset(x)
  <2>1. /\ u.at = "reset" /\ v.at = "look" /\ v.call = u.call /\ v.todo = u.todo
        /\ v.slots = Append(u.slots, u.seen)
        /\ cxC' = cxC
    BY <1>0, <1>3, CxUserMoves DEF CxReset
  <2>2. CxInStart(x) /\ CxInStart(x)'
    BY <2>1 DEF CxInStart
  <2>3. CxIndexedOf(x)'
    <3>1. u.seen \in CxNumbers /\ Len(u.slots) < Len(u.todo)
      BY <1>0, <2>1 DEF CxIndexedOf
    <3>2. Len(v.slots) = Len(u.slots) + 1
      BY <1>a, <2>1, <3>1
    <3> QED BY <1>a, <2>1, <3>1, <3>2 DEF CxIndexedOf
  <2>4. CxFreshOf(x)'
    BY <1>0, <2>1, <2>2 DEF CxFreshOf, CxToCome
  <2> QED BY <2>1, <2>3, <2>4, CxUserBase
<1>4. CASE CxFail(x)
  <2>1. /\ u.at = "fail" /\ v.at = "idle" /\ v.call = u.call + 1 /\ v.slots = <<>>
        /\ cxC' = cxC
    BY <1>0, <1>4, CxUserMoves DEF CxFail
  <2>2. CxInStart(x) /\ ~CxInStart(x)'
    BY <2>1 DEF CxInStart
  <2>3. CxIndexedOf(x)'
    BY <2>1, <2>2 DEF CxIndexedOf
  <2>4. \A k \in DOMAIN cxSet.calls[x] : CxToCome(x, k)' => CxToCome(x, k)
    BY <1>a, <2>1 DEF CxToCome
  <2>5. v.call <= Len(cxSet.calls[x]) + 1
    BY <1>0, <1>a, <2>1, <2>2 DEF CxFreshOf
  <2>6. CxFreshOf(x)'
    BY <1>0, <2>1, <2>2, <2>4, <2>5 DEF CxFreshOf
  <2> QED BY <2>1, <2>3, <2>6, CxUserBase
<1>5. CASE CxKick(x)
  BY <1>5, CxKickKeepsBase
<1>6. CASE CxStarted(x)
  <2>1. /\ u.at = "kick" /\ v.at = "idle" /\ v.call = u.call + 1 /\ v.slots = <<>>
        /\ cxC' = cxC
    BY <1>0, <1>6, CxUserMoves DEF CxStarted
  <2>2. CxInStart(x) /\ ~CxInStart(x)'
    BY <2>1 DEF CxInStart
  <2>3. CxIndexedOf(x)'
    BY <2>1, <2>2 DEF CxIndexedOf
  <2>4. \A k \in DOMAIN cxSet.calls[x] : CxToCome(x, k)' => CxToCome(x, k)
    BY <1>a, <2>1 DEF CxToCome
  <2>5. v.call <= Len(cxSet.calls[x]) + 1
    BY <1>0, <1>a, <2>1, <2>2 DEF CxFreshOf
  <2>6. CxFreshOf(x)'
    BY <1>0, <2>1, <2>2, <2>4, <2>5 DEF CxFreshOf
  <2> QED BY <2>1, <2>3, <2>6, CxUserBase
<1>7. CASE CxStop(x)
  <2>1. /\ u.at = "idle" /\ v.at = "joining" /\ v.call = u.call
        /\ cxC' = cxC
    BY <1>0, <1>7, CxUserMoves DEF CxStop
  <2>2. ~CxInStart(x) /\ ~CxInStart(x)'
    BY <2>1 DEF CxInStart
  <2>3. CxIndexedOf(x)'
    BY <2>1, <2>2 DEF CxIndexedOf
  <2>4. CxFreshOf(x)'
    BY <1>0, <2>1, <2>2 DEF CxFreshOf, CxToCome
  <2> QED BY <2>1, <2>3, <2>4, CxUserBase
<1>8. CASE CxJoin(x)
  <2>1. /\ u.at = "joining" /\ v.at = "joined" /\ v.call = u.call
        /\ cxC' = cxC
    BY <1>0, <1>8, CxUserMoves DEF CxJoin
  <2>2. ~CxInStart(x) /\ ~CxInStart(x)'
    BY <2>1 DEF CxInStart
  <2>3. CxIndexedOf(x)'
    BY <2>1, <2>2 DEF CxIndexedOf
  <2>4. CxFreshOf(x)'
    BY <1>0, <2>1, <2>2 DEF CxFreshOf, CxToCome
  <2> QED BY <2>1, <2>3, <2>4, CxUserBase
<1>9. CASE CxDestroy(x)
  <2>1. /\ u.at = "joined" /\ v.at = "destroyed" /\ v.call = u.call
        /\ cxC' = cxC
    BY <1>0, <1>9, CxUserMoves DEF CxDestroy
  <2>2. ~CxInStart(x) /\ ~CxInStart(x)'
    BY <2>1 DEF CxInStart
  <2>3. CxIndexedOf(x)'
    BY <2>1, <2>2 DEF CxIndexedOf
  <2>4. CxFreshOf(x)'
    BY <1>0, <2>1, <2>2 DEF CxFreshOf, CxToCome
  <2> QED BY <2>1, <2>3, <2>4, CxUserBase
<1>10. CASE CxCrash(x)
  <2>1. v.at = "crashed" /\ v.call = u.call
    BY <1>0, <1>10, CxUserMoves
  <2>2. ~CxInStart(x)' /\ \A k : ~CxToCome(x, k)'
    BY <2>1 DEF CxInStart, CxToCome
  <2>3. \A c \in CxClients :
          \/ cxC'[c] = cxC[c]
          \/ cxC'[c] = [cxC[c] EXCEPT !.at = "crashed"] /\ cxC[c].at # "off"
    BY <1>10 DEF CxCrash, CxRuns
  <2>4. \A c \in CxClients :
          /\ cxC'[c].ix = cxC[c].ix /\ cxC'[c].stays = cxC[c].stays
          /\ cxC[c].at = "off" => cxC'[c].at = "off"
          /\ cxC'[c].at # "off" => cxC[c].at # "off"
          /\ cxC'[c].at = "crashed" \/ cxC'[c] = cxC[c]
    BY <1>0, <2>3, CxRecords DEF CxThreadType
  <2>5. UNCHANGED <<cxSet, cxDrops>> /\ \A y \in CxContexts \ {x} : cxUser'[y] = cxUser[y]
    BY <1>0, CxUserEffect
  <2>6. CxOnce'
    <3> SUFFICES ASSUME NEW c \in CxClients PROVE CxOnceOf(c)'
      BY DEF CxOnce
    <3>1. CxOnceOf(c)
      BY <1>0 DEF CxOnce
    <3>2. CASE cxC'[c] = cxC[c]
      BY <2>5, <3>1, <3>2 DEF CxOnceOf
    <3>3. CASE cxC'[c].at = "crashed"
      BY <2>4, <2>5, <3>1, <3>3 DEF CxOnceOf, CxInLoop
    <3> QED BY <2>4, <3>2, <3>3
  <2>7. CxIndexed'
    <3>1. \A y \in CxContexts : CxIndexedOf(y)'
      BY <1>0, <2>1, <2>2, <2>5 DEF CxIndexed, CxIndexedOf, CxInStart
    <3> QED BY <1>0, <2>4, <3>1 DEF CxIndexed
  <2>8. CxFreshOf(x)'
    BY <1>0, <2>1, <2>2 DEF CxFreshOf
  <2>9. \A y \in CxContexts \ {x} : CxFreshOf(y)'
    <3> SUFFICES ASSUME NEW y \in CxContexts \ {x} PROVE CxFreshOf(y)'
      OBVIOUS
    <3>1. CxFreshOf(y) /\ cxUser'[y] = cxUser[y] /\ cxSet' = cxSet
      BY <1>0, <2>5 DEF CxFresh
    <3>2. /\ cxUser[y].todo \in Seq(CxClients) /\ cxSet.calls[y] \in Seq(Seq(CxClients))
      BY <1>0, CxRecords, CxUserParts, CxSetting DEF CxTypes
    <3>3. /\ \A k \in DOMAIN cxUser[y].todo : cxUser[y].todo[k] \in CxClients
          /\ \A k \in DOMAIN cxSet.calls[y] : \A m \in DOMAIN cxSet.calls[y][k] :
               cxSet.calls[y][k][m] \in CxClients
      BY <3>2
    <3> QED BY <3>1, <3>3, <2>4 DEF CxFreshOf, CxInStart, CxToCome
  <2>10. CxTypes'
    BY <1>0, <1>10, CxTypesUser
  <2> QED BY <2>6, <2>7, <2>8, <2>9, <2>10 DEF CxBaseInv, CxFresh
<1> QED BY <1>1, <1>2, <1>3, <1>4, <1>5, <1>6, <1>7, <1>8, <1>9, <1>10 DEF CxUserStep

-----------------------------------------------------------------------------
(* What holds for every setting. *)

\* A step of a sender or of the purger keeps it.
LEMMA CxOtherKeepsBase ==
  ASSUME CxBaseInv, CxSend \/ CxTrySendFails \/ CxPurge \/ CxPurgerLeaves
  PROVE  CxBaseInv'
<1>1. CxTypes'
  BY CxTypesOther DEF CxBaseInv
<1>2. UNCHANGED <<cxSet, cxUser, cxC, cxDrops>>
  BY CxOtherEffect
<1>3. CxIndexed' /\ CxOnce'
  BY <1>2 DEF CxBaseInv, CxIndexed, CxIndexedOf, CxInStart, CxOnce, CxOnceOf
<1>4. CxFresh'
  BY <1>2 DEF CxBaseInv, CxFresh, CxFreshOf, CxInStart, CxToCome
<1> QED BY <1>1, <1>3, <1>4 DEF CxBaseInv

\* Every step keeps it, stuttering included.
LEMMA CxKeepsBase == ASSUME CxBaseInv, [CxNext]_cxVars PROVE CxBaseInv'
<1>1. CASE CxNext
  BY <1>1, CxOtherKeepsBase, CxUserKeepsBase, CxClientKeepsBase DEF CxNext, CxRunning
<1>2. CASE UNCHANGED cxVars
  <2>1. CxTypes'
    BY <1>2 DEF CxBaseInv, CxTypes, cxVars
  <2>2. CxIndexed' /\ CxOnce'
    BY <1>2 DEF CxBaseInv, CxIndexed, CxIndexedOf, CxInStart, CxOnce, CxOnceOf, cxVars
  <2>3. CxFresh'
    BY <1>2 DEF CxBaseInv, CxFresh, CxFreshOf, CxInStart, CxToCome, cxVars
  <2> QED BY <2>1, <2>2, <2>3 DEF CxBaseInv
<1> QED BY <1>1, <1>2

\* It holds before anything is started.
LEMMA CxStartsBase == ASSUME CxInit PROVE CxBaseInv
<1>1. /\ cxSet \in CxSettings /\ CxDEAD \in Nat /\ CxNever \in Int /\ cxSet.sends \in Nat
      /\ cxSet.flushes \in Nat /\ cxSet.stays \in [CxClients -> Nat]
      /\ cxSet.calls \in [CxContexts -> Seq(Seq(CxClients))]
  BY CxSetting DEF CxInit, CxDEAD, CxNever
<1>2. CxIdleUser \in CxUserType /\ CxIdleUser.at = "idle" /\ CxIdleUser.call = 1
  <2>1. <<>> \in Seq(CxClients) /\ <<>> \in Seq(CxNumbers)
    OBVIOUS
  <2> QED BY <2>1 DEF CxIdleUser, CxUserType, CxUserPoints
<1>3. CxOffClient \in CxThreadType /\ CxOffClient.at = "off" /\ CxOffClient.stays = 0 /\ CxOffClient.in
  BY <1>1 DEF CxOffClient, CxThreadType
<1>4. CxTypes
  BY <1>1, <1>2, <1>3 DEF CxInit, CxTypes
<1>5. CxIndexed
  BY <1>2, <1>3 DEF CxInit, CxIndexed, CxIndexedOf, CxInStart
<1>6. CxOnce
  <2>1. \A c \in CxClients : cxC[c] = CxOffClient /\ cxDrops[c] = 0 /\ 0 <= cxSet.stays[c]
    BY <1>1 DEF CxInit
  <2> QED BY <2>1, <1>3 DEF CxOnce, CxOnceOf
<1>7. CxFresh
  <2> SUFFICES ASSUME NEW x \in CxContexts PROVE CxFreshOf(x)
    BY DEF CxFresh
  <2>1. cxUser[x].at = "idle" /\ cxUser[x].call = 1 /\ \A c \in CxClients : cxC[c].at = "off"
    BY <1>2, <1>3 DEF CxInit
  <2>2. cxSet.calls[x] \in Seq(Seq(CxClients)) /\ 1 <= Len(cxSet.calls[x]) + 1
    BY <1>1
  <2>3. \A k \in DOMAIN cxSet.calls[x] : \A m \in DOMAIN cxSet.calls[x][k] :
          cxSet.calls[x][k][m] \in CxClients
    BY <2>2
  <2> QED BY <2>1, <2>2, <2>3 DEF CxFreshOf, CxInStart
<1> QED BY <1>4, <1>5, <1>6, <1>7 DEF CxBaseInv

\* The types, that every thread has an index, that each client is started once and that it
\* is dropped at most once, for everything users do.
THEOREM CxBase == CxSpec => []CxBaseInv
<1>1. CxInit => CxBaseInv
  BY CxStartsBase
<1>2. CxBaseInv /\ [CxNext]_cxVars => CxBaseInv'
  BY CxKeepsBase
<1> QED BY <1>1, <1>2, PTL DEF CxSpec

\* The final droppedCb comes once and nothing is handled after it (Context.hpp:1416),
\* however many Contexts stop, crash, are destroyed or have their clients purged.
THEOREM CxDropsOnce == CxSpec => CxGoneForGood
<1> DEFINE Gone == \A c \in CxClients : cxDrops[c] > 0 =>
                     cxGot'[c] = cxGot[c] /\ cxDrops'[c] = cxDrops[c]
<1>1. ASSUME CxBaseInv, [CxNext]_cxVars PROVE [Gone]_cxVars
  <2>0. CxTypes /\ CxOnce
    BY <1>1 DEF CxBaseInv
  <2>1. CASE UNCHANGED cxVars
    BY <2>1
  <2>2. CASE CxSend \/ CxTrySendFails \/ CxPurge \/ CxPurgerLeaves
    BY <2>2, CxOtherEffect
  <2>3. ASSUME NEW x \in CxContexts, CxUserStep(x) \/ CxCrash(x) PROVE Gone
    BY <2>0, <2>3, CxUserEffect
  <2>4. ASSUME NEW d \in CxClients, CxClientStep(d) PROVE Gone
    <3> SUFFICES ASSUME cxDrops[d] > 0 PROVE cxGot'[d] = cxGot[d] /\ cxDrops'[d] = cxDrops[d]
      BY <2>0, <2>4, CxClientEffect
    <3>1. cxC[d].at \notin CxInLoop /\ cxDrops[d] \in Nat
          /\ (cxC[d].at = "last" => ~cxC[d].in)
      BY <2>0, CxRecords DEF CxOnce, CxOnceOf
    <3>2. ~CxBorn(d) /\ ~CxCheck(d) /\ ~CxPeek(d) /\ ~CxIdleRound(d)
      BY <3>1 DEF CxInLoop, CxBorn, CxCheck, CxPeek, CxIdleRound
    <3>3. ~CxHandle(d) /\ ~CxWaste(d) /\ ~CxTurn(d) /\ ~CxCaught(d)
      <4>1. ~CxHandle(d)
        BY <3>1 DEF CxInLoop, CxHandle
      <4>2. ~CxWaste(d) /\ ~CxTurn(d)
        BY <3>1 DEF CxInLoop, CxWaste, CxTurn
      <4>3. CxCaught(d) => cxC[d].at = "caught"
        BY DEF CxCaught
      <4> QED BY <3>1, <4>1, <4>2, <4>3 DEF CxInLoop
    <3>4. CASE CxLeave(d) \/ CxDrain(d) \/ CxUnblock(d)
      BY <3>4 DEF CxLeave, CxDrain, CxUnblock, cxSeen
    <3>5. CASE CxLast(d)
      <4>1. cxDrops'[d] = cxDrops[d] + 0 /\ cxGot' = cxGot
        BY <2>0, <3>1, <3>5 DEF CxLast, CxStillIn, CxTypes
      <4> QED BY <3>1, <4>1
    <3> QED BY <2>4, <3>2, <3>3, <3>4, <3>5 DEF CxClientStep
  <2> QED BY <1>1, <2>1, <2>2, <2>3, <2>4 DEF CxNext, CxRunning
<1>2. CxBaseInv /\ [CxNext]_cxVars => [Gone]_cxVars
  BY <1>1
<1> QED BY <1>2, CxBase, PTL DEF CxSpec, CxGoneForGood

-----------------------------------------------------------------------------
(* What holds when all is orderly: the steps of the users. *)

\* A step that neither enters start() nor frees the lock inside it leaves one start() only.
LEMMA CxStillOneStart ==
  ASSUME CxBaseInv, CxOrderInv, NEW x \in CxContexts, CxUserStep(x) \/ CxCrash(x),
         CxInStart(x)' => CxInStart(x) /\ cxLock' = cxLock
  PROVE  CxOneStart'
<1>0. CxTypes /\ CxOneStart
  BY DEF CxBaseInv, CxOrderInv, CxOwnInv
<1>1. /\ cxSet' = cxSet
      /\ \A y \in CxContexts \ {x} : /\ CxInStart(y)' <=> CxInStart(y)
                                     /\ y \in cxLock' <=> y \in cxLock
  BY <1>0, CxUserEffect DEF CxInStart
<1> QED BY <1>0, <1>1 DEF CxOneStart

\* A step of a user that touches no thread and no running client's cursor keeps the order
\* of all if it keeps the user's own part.
LEMMA CxUserOrder ==
  ASSUME CxBaseInv, CxOrderInv, NEW x \in CxContexts, CxUserStep(x), cxC' = cxC,
         \A c \in CxClients : CxRuns(c) => cxCur'[cxC[c].ix] = cxCur[cxC[c].ix],
         cxCur' = cxCur \/ CxInStart(x), CxOneStart', CxReservedOf(x)',
         \A i \in CxNumbers : CxInRing(i)',
         \A i \in CxNumbers : ~CxDead(i)' =>
            \/ i \in ToSet(cxUser'[x].slots)
            \/ i \notin ToSet(cxUser[x].slots) /\ ~CxDead(i)
  PROVE  CxOrderInv'
<1>0. /\ CxTypes /\ CxIndexed /\ CxOrderly /\ CxOneStart /\ CxCursors /\ CxRunners /\ CxReserved
      /\ CxInHand /\ CxIndexAccounted /\ CxHistory /\ CxConsecutive
  BY DEF CxBaseInv, CxOrderInv, CxOwnInv
<1>1. /\ UNCHANGED <<cxSet, cxLog, cxNoted, cxGot>>
      /\ \A y \in CxContexts \ {x} : cxUser'[y] = cxUser[y]
  BY <1>0, CxUserEffect
<1>2. \A c \in CxClients : CxRuns(c)' <=> CxRuns(c)
  BY DEF CxRuns
<1>3. CxOrderly' /\ CxConsecutive'
  BY <1>0, <1>1 DEF CxOrderly, CxConsecutive
<1>4. CxCursors'
  BY <1>0, <1>1 DEF CxCursors
<1>5. CxRunners'
  BY <1>0, <1>2 DEF CxRunners
<1>6. CxInHand' /\ CxHistory'
  <2> SUFFICES ASSUME NEW c \in CxClients PROVE CxInHandOf(c)' /\ CxHistoryOf(c)'
    BY DEF CxInHand, CxHistory
  <2>1. CxInHandOf(c) /\ CxHistoryOf(c)
    BY <1>0 DEF CxInHand, CxHistory
  <2>2. cxC[c].at \in {"check", "peek", "handle", "waste", "turn", "caught"} =>
          cxCur'[cxC[c].ix] = cxCur[cxC[c].ix]
    BY DEF CxRuns, CxEnds
  <2> QED BY <2>1, <2>2, <1>1 DEF CxInHandOf, CxHistoryOf, CxUpToDate, CxAgain
<1>7. CxReserved'
  <2> SUFFICES ASSUME NEW y \in CxContexts \ {x} PROVE CxReservedOf(y)'
    BY DEF CxReserved
  <2>1. CxReservedOf(y) /\ cxUser'[y] = cxUser[y]
    BY <1>0, <1>1 DEF CxReserved
  <2>2. CASE cxCur' = cxCur
    BY <2>1, <2>2, <1>2 DEF CxReservedOf, CxInStart
  <2>3. CASE CxInStart(x)
    <3>1. ~CxInStart(y)
      BY <2>3, <1>0 DEF CxOneStart
    <3> QED BY <2>1, <3>1 DEF CxReservedOf, CxInStart
  <2> QED BY <2>2, <2>3
<1>8. CxIndexAccounted'
  <2> SUFFICES ASSUME NEW i \in CxNumbers, ~CxDead(i)'
               PROVE  \/ \E c \in CxClients : cxC'[c].ix = i /\ cxC'[c].at \notin {"off", "gone"}
                      \/ \E y \in CxContexts : i \in ToSet(cxUser'[y].slots)
    BY DEF CxIndexAccounted
  <2> QED BY <1>0, <1>1 DEF CxIndexAccounted
<1> QED BY <1>3, <1>4, <1>5, <1>6, <1>7, <1>8 DEF CxOrderInv, CxOwnInv

\* The thread that kickOffClientThread creates takes over an index its start() reserved.
LEMMA CxKickKeepsOrder ==
  ASSUME CxBaseInv, CxOrderInv, NEW x \in CxContexts, CxKick(x)
  PROVE  CxOrderInv'
<1>0. /\ CxTypes /\ CxIndexed /\ CxOrderly /\ CxOneStart /\ CxCursors /\ CxRunners /\ CxReserved
      /\ CxInHand /\ CxIndexAccounted /\ CxHistory /\ CxConsecutive /\ CxUserStep(x)
  BY DEF CxBaseInv, CxOrderInv, CxOwnInv, CxUserStep
<1>1. PICK d \in CxClients :
        /\ d = Head(cxUser[x].todo) /\ cxC[d].at = "off"
        /\ cxC'[d] = [CxOffClient EXCEPT !.at = "born", !.ix = Head(cxUser[x].slots), !.of = x]
        /\ Head(cxUser[x].slots) \in CxNumbers /\ cxUser[x].slots # <<>>
        /\ \A e \in CxClients \ {d} : cxC'[e] = cxC[e]
  BY CxKickKeepsBase
<1> DEFINE s == cxUser[x].slots
           t == cxUser'[x].slots
           i == Head(s)
<1>2. /\ cxUser[x].at = "kick" /\ cxUser'[x].at = "kick" /\ t = Tail(s)
      /\ cxLock' = cxLock /\ cxCur' = cxCur
  BY <1>0, CxUserMoves DEF CxKick, cxRing
<1>3. /\ s \in Seq(CxNumbers) /\ i = s[1] /\ 1 \in DOMAIN s /\ t \in Seq(CxNumbers)
      /\ \A k \in DOMAIN t : t[k] = s[k + 1] /\ k + 1 \in DOMAIN s /\ k + 1 # 1 /\ k \in Nat
      /\ \A k \in DOMAIN s : s[k] = i \/ \E l \in DOMAIN t : s[k] = t[l]
  <2>1. s \in Seq(CxNumbers) /\ s # <<>>
    BY <1>0, <1>1, CxRecords, CxUserParts
  <2>2. t \in Seq(CxNumbers) /\ Len(t) = Len(s) - 1 /\ \A k \in 1..Len(t) : t[k] = s[k + 1]
    BY <1>2, <2>1
  <2>3. /\ i = s[1] /\ 1 \in DOMAIN s /\ DOMAIN s = 1..Len(s) /\ DOMAIN t = 1..Len(t)
        /\ Len(s) \in Nat /\ Len(t) \in Nat
    BY <2>1, <2>2
  <2>4. \A k \in DOMAIN s : k # 1 => k - 1 \in DOMAIN t /\ t[k - 1] = s[k]
    <3> SUFFICES ASSUME NEW k \in 1..Len(s), k # 1 PROVE k - 1 \in 1..Len(t) /\ t[k - 1] = s[k]
      BY <2>3
    <3>1. k - 1 \in 1..Len(t) /\ (k - 1) + 1 = k
      BY <2>2, <2>3
    <3> QED BY <3>1, <2>2
  <2>5. \A k \in DOMAIN t : t[k] = s[k + 1] /\ k + 1 \in DOMAIN s /\ k + 1 # 1 /\ k \in Nat
    BY <2>2, <2>3
  <2> QED BY <2>1, <2>2, <2>3, <2>4, <2>5
<1>4. /\ cxC'[d].at = "born" /\ cxC'[d].ix = i /\ cxC'[d].n = 0 /\ cxC'[d].seen = CxNever
      /\ cxC'[d].stays = 0
  BY <1>1 DEF CxOffClient
<1> HIDE DEF s, t, i
<1>5. /\ UNCHANGED <<cxSet, cxLog, cxNoted, cxGot>>
      /\ \A y \in CxContexts \ {x} : cxUser'[y] = cxUser[y]
  BY <1>0, CxUserEffect
<1>6. /\ \A c \in CxClients : CxRuns(c)' <=> (c = d \/ CxRuns(c))
      /\ ~CxRuns(d) /\ cxGot[d] = <<>>
  <2>1. CxRuns(d)' /\ ~CxRuns(d)
    BY <1>1, <1>4 DEF CxRuns, CxEnds
  <2>2. cxGot[d] = <<>>
    BY <1>0, <1>1 DEF CxHistory, CxHistoryOf
  <2> QED BY <2>1, <2>2, <1>1 DEF CxRuns
<1>7. /\ cxCur[i] # CxDEAD /\ (\A c \in CxClients : CxRuns(c) => cxC[c].ix # i)
      /\ \A k \in DOMAIN t : t[k] # i
  <2>1. CxReservedOf(x) /\ CxInStart(x)
    BY <1>0, <1>2 DEF CxReserved, CxInStart
  <2>2. cxCur[i] # CxDEAD /\ \A c \in CxClients : CxRuns(c) => cxC[c].ix # i
    BY <2>1, <1>3 DEF CxReservedOf, s
  <2>3. \A k \in DOMAIN t : t[k] # i
    BY <2>1, <1>3 DEF CxReservedOf, s
  <2> QED BY <2>2, <2>3
<1>8. CxOrderly' /\ CxOneStart' /\ CxCursors'
  <2>1. CxOneStart'
    BY <1>0, <1>2, CxStillOneStart DEF CxInStart
  <2>2. CxOrderly' /\ CxCursors'
    BY <1>0, <1>2, <1>5 DEF CxOrderly, CxCursors, CxInRing
  <2> QED BY <2>1, <2>2
<1>9. CxConsecutive'
  <2> SUFFICES ASSUME NEW c \in CxClients PROVE CxConsecutiveOf(c)'
    BY DEF CxConsecutive, CxConsecutiveOf
  <2>1. CxConsecutiveOf(c)
    BY <1>0, CxConsecutiveEach
  <2>2. CASE c = d
    <3>1. cxGot'[c] = <<>> /\ 2..Len(<<>>) = {}
      BY <1>5, <1>6, <2>2
    <3> QED BY <3>1 DEF CxConsecutiveOf
  <2>3. CASE c # d
    BY <2>1, <2>3, <1>1, <1>5 DEF CxConsecutiveOf
  <2> QED BY <2>2, <2>3
<1>10. CxRunners'
  <2> SUFFICES ASSUME NEW c \in CxClients, c = d \/ CxRuns(c)
               PROVE  /\ cxCur[cxC'[c].ix] # CxDEAD
                      /\ \A e \in CxClients : ((e = d \/ CxRuns(e)) /\ cxC'[c].ix = cxC'[e].ix) => c = e
    BY <1>2, <1>6 DEF CxRunners
  <2>1. \A e \in CxClients \ {d} : cxC'[e].ix = cxC[e].ix
    BY <1>1
  <2> QED BY <2>1, <1>0, <1>4, <1>6, <1>7 DEF CxRunners
<1>11. CxReserved'
  <2>1. CxReservedOf(x)'
    <3>1. CxReservedOf(x) /\ CxInStart(x)
      BY <1>0, <1>2 DEF CxReserved, CxInStart
    <3>2. \A k \in DOMAIN t :
            /\ cxCur'[t[k]] # CxDEAD
            /\ \A c \in CxClients : CxRuns(c)' => cxC'[c].ix # t[k]
            /\ \A l \in DOMAIN t : t[k] = t[l] => k = l
      <4> SUFFICES ASSUME NEW k \in DOMAIN t
                   PROVE  /\ cxCur'[t[k]] # CxDEAD
                          /\ \A c \in CxClients : CxRuns(c)' => cxC'[c].ix # t[k]
                          /\ \A l \in DOMAIN t : t[k] = t[l] => k = l
        OBVIOUS
      <4>1. t[k] = s[k + 1] /\ k + 1 \in DOMAIN s /\ k \in Nat
        BY <1>3
      <4>2. /\ cxCur[s[k + 1]] # CxDEAD
            /\ \A c \in CxClients : CxRuns(c) => cxC[c].ix # s[k + 1]
            /\ \A l \in DOMAIN s : s[k + 1] = s[l] => k + 1 = l
        BY <3>1, <4>1 DEF CxReservedOf, s
      <4>3. \A c \in CxClients : CxRuns(c)' => cxC'[c].ix # t[k]
        BY <4>1, <4>2, <1>1, <1>4, <1>6, <1>7
      <4>4. ASSUME NEW l \in DOMAIN t, t[k] = t[l] PROVE k = l
        <5>1. t[l] = s[l + 1] /\ l + 1 \in DOMAIN s /\ l \in Nat
          BY <1>3
        <5>2. k + 1 = l + 1
          BY <4>1, <4>2, <4>4, <5>1
        <5> QED BY <4>1, <5>1, <5>2
      <4> QED BY <4>1, <4>2, <4>3, <4>4, <1>2
    <3> QED BY <1>2, <3>2 DEF CxReservedOf, t
  <2>2. \A y \in CxContexts \ {x} : CxReservedOf(y)'
    <3> SUFFICES ASSUME NEW y \in CxContexts \ {x} PROVE CxReservedOf(y)'
      OBVIOUS
    <3>1. CxReservedOf(y) /\ cxUser'[y] = cxUser[y] /\ ~CxInStart(y)
      BY <1>0, <1>2, <1>5 DEF CxReserved, CxOneStart, CxInStart
    <3> QED BY <3>1 DEF CxReservedOf, CxInStart
  <2> QED BY <2>1, <2>2 DEF CxReserved
<1>12. CxInHand' /\ CxHistory'
  <2> SUFFICES ASSUME NEW c \in CxClients PROVE CxInHandOf(c)' /\ CxHistoryOf(c)'
    BY DEF CxInHand, CxHistory
  <2>1. CxInHandOf(c) /\ CxHistoryOf(c)
    BY <1>0 DEF CxInHand, CxHistory
  <2>2. CASE c # d
    BY <2>1, <2>2, <1>1, <1>2, <1>5 DEF CxInHandOf, CxHistoryOf, CxUpToDate, CxAgain
  <2>3. CASE c = d
    <3>1. CxRingCap \in Nat /\ cxLog \in Nat /\ CxNever = -1
      BY <1>0, CxSetting DEF CxTypes, CxNever
    <3>2. cxGot'[c] = <<>> /\ DOMAIN <<>> = {}
      BY <2>3, <1>5, <1>6
    <3>3. CxInHandOf(c)'
      BY <2>3, <3>1, <1>4, <1>5 DEF CxInHandOf
    <3> QED BY <2>3, <3>2, <3>3, <1>4 DEF CxHistoryOf
  <2> QED BY <2>2, <2>3
<1>13. CxIndexAccounted'
  <2> SUFFICES ASSUME NEW j \in CxNumbers, ~CxDead(j)
               PROVE  \/ \E c \in CxClients : cxC'[c].ix = j /\ cxC'[c].at \notin {"off", "gone"}
                      \/ \E y \in CxContexts : j \in ToSet(cxUser'[y].slots)
    BY <1>2 DEF CxIndexAccounted, CxDead
  <2>1. CASE \E c \in CxClients : cxC[c].ix = j /\ cxC[c].at \notin {"off", "gone"}
    BY <2>1, <1>1
  <2>2. CASE j \in ToSet(s)
    <3>1. j = i \/ j \in ToSet(t)
      BY <2>2, <1>3 DEF ToSet
    <3> QED BY <3>1, <1>4 DEF t
  <2>3. CASE \E y \in CxContexts \ {x} : j \in ToSet(cxUser[y].slots)
    BY <2>3, <1>5
  <2> QED BY <2>1, <2>2, <2>3, <1>0 DEF CxIndexAccounted, s
<1> QED BY <1>8, <1>9, <1>10, <1>11, <1>12, <1>13 DEF CxOrderInv, CxOwnInv

\* The end of a process ends its threads and its start(), which leaves its indexes to the
\* purger.
LEMMA CxCrashKeepsOrder ==
  ASSUME CxBaseInv, CxOrderInv, NEW x \in CxContexts, CxCrash(x)
  PROVE  CxOrderInv'
<1>0. /\ CxTypes /\ CxIndexed /\ CxOrderly /\ CxOneStart /\ CxCursors /\ CxRunners /\ CxReserved
      /\ CxInHand /\ CxIndexAccounted /\ CxHistory /\ CxConsecutive
  BY DEF CxBaseInv, CxOrderInv, CxOwnInv
<1>1. cxUser'[x].at = "crashed" /\ cxUser'[x].slots = cxUser[x].slots /\ cxCur' = cxCur
  BY <1>0, CxUserMoves DEF CxCrash, cxRing
<1>2. /\ UNCHANGED <<cxSet, cxLog, cxNoted, cxGot>>
      /\ \A y \in CxContexts \ {x} : cxUser'[y] = cxUser[y]
  BY <1>0, CxUserEffect
<1>3. \A c \in CxClients :
        /\ cxC'[c].ix = cxC[c].ix /\ cxC'[c].stays = cxC[c].stays
        /\ cxC'[c].n = cxC[c].n /\ cxC'[c].seen = cxC[c].seen
        /\ cxC'[c].at = cxC[c].at \/ (cxC'[c].at = "crashed" /\ CxRuns(c))
        /\ CxRuns(c)' => CxRuns(c)
  <2> SUFFICES ASSUME NEW c \in CxClients
               PROVE  /\ cxC'[c].ix = cxC[c].ix /\ cxC'[c].stays = cxC[c].stays
                      /\ cxC'[c].n = cxC[c].n /\ cxC'[c].seen = cxC[c].seen
                      /\ cxC'[c].at = cxC[c].at \/ (cxC'[c].at = "crashed" /\ CxRuns(c))
                      /\ CxRuns(c)' => CxRuns(c)
    OBVIOUS
  <2>1. \/ cxC'[c] = cxC[c]
        \/ cxC'[c] = [cxC[c] EXCEPT !.at = "crashed"] /\ CxRuns(c)
    BY <1>0 DEF CxCrash
  <2> QED BY <1>0, <2>1, CxRecords DEF CxThreadType, CxRuns
<1>4. CxOrderly' /\ CxOneStart' /\ CxCursors'
  <2>1. CxOneStart'
    BY <1>1, CxStillOneStart DEF CxInStart
  <2>2. CxOrderly' /\ CxCursors'
    BY <1>0, <1>1, <1>2 DEF CxOrderly, CxCursors, CxInRing
  <2> QED BY <2>1, <2>2
<1>5. CxConsecutive'
  <2> SUFFICES ASSUME NEW c \in CxClients PROVE CxConsecutiveOf(c)'
    BY DEF CxConsecutive, CxConsecutiveOf
  <2>1. CxConsecutiveOf(c)
    BY <1>0, CxConsecutiveEach
  <2> QED BY <2>1, <1>2, <1>3 DEF CxConsecutiveOf
<1>6. CxRunners'
  BY <1>0, <1>1, <1>3 DEF CxRunners
<1>7. CxReserved'
  <2> SUFFICES ASSUME NEW y \in CxContexts PROVE CxReservedOf(y)'
    BY DEF CxReserved
  <2>1. CASE y = x
    BY <2>1, <1>1 DEF CxReservedOf, CxInStart
  <2>2. CASE y # x
    BY <2>2, <1>0, <1>1, <1>2, <1>3 DEF CxReserved, CxReservedOf, CxInStart
  <2> QED BY <2>1, <2>2
<1>8. CxInHand' /\ CxHistory'
  <2> SUFFICES ASSUME NEW c \in CxClients PROVE CxInHandOf(c)' /\ CxHistoryOf(c)'
    BY DEF CxInHand, CxHistory
  <2>1. CxInHandOf(c) /\ CxHistoryOf(c)
    BY <1>0 DEF CxInHand, CxHistory
  <2> QED BY <2>1, <1>1, <1>2, <1>3 DEF CxInHandOf, CxHistoryOf, CxUpToDate, CxAgain
<1>9. CxIndexAccounted'
  <2> SUFFICES ASSUME NEW j \in CxNumbers, ~CxDead(j)
               PROVE  \/ \E c \in CxClients : cxC'[c].ix = j /\ cxC'[c].at \notin {"off", "gone"}
                      \/ \E y \in CxContexts : j \in ToSet(cxUser'[y].slots)
    BY <1>1 DEF CxIndexAccounted, CxDead
  <2>1. \A y \in CxContexts : cxUser'[y].slots = cxUser[y].slots
    BY <1>1, <1>2
  <2> QED BY <2>1, <1>0, <1>3 DEF CxIndexAccounted
<1> QED BY <1>4, <1>5, <1>6, <1>7, <1>8, <1>9 DEF CxOrderInv, CxOwnInv

\* A step of a user, no Context being destroyed that others read from.
LEMMA CxUserKeepsOrder ==
  ASSUME CxBaseInv, CxOrderInv, NEW x \in CxContexts, CxUserStep(x) \/ CxCrash(x)
  PROVE  CxOrderInv'
<1>0. /\ CxTypes /\ CxIndexed /\ CxOrderly /\ CxOneStart /\ CxCursors /\ CxRunners /\ CxReserved
      /\ CxFreshOf(x) /\ CxReservedOf(x) /\ CxIndexedOf(x) /\ CxFresh
  BY DEF CxBaseInv, CxOrderInv, CxOwnInv, CxReserved, CxIndexed, CxFresh
<1>1. UNCHANGED <<cxSet, cxLog>> /\ \A y \in CxContexts \ {x} : cxUser'[y] = cxUser[y]
  BY <1>0, CxUserEffect
<1> DEFINE u == cxUser[x]
           v == cxUser'[x]
<1>2. u.slots \in Seq(CxNumbers) /\ u.todo \in Seq(CxClients) /\ u.call \in Nat \ {0}
  BY <1>0, CxRecords, CxUserParts
<1>3. cxLog \in Nat /\ cxLog < CxDEAD /\ CxRingCap \in Nat /\ cxCur \in [CxNumbers -> Nat]
  <2>1. CxRingCap \in Nat /\ CxMaxLog \in 0..(CxDEAD - 1) /\ cxLog \in Nat /\ cxLog <= CxMaxLog
        /\ cxCur \in [CxNumbers -> Nat]
    BY <1>0, CxSetting DEF CxTypes, CxCursors
  <2> QED BY <2>1 DEF CxDEAD
<1>4. cxCur' = cxCur => \A i \in CxNumbers : CxInRing(i)' /\ (CxDead(i)' <=> CxDead(i))
  BY <1>0, <1>1 DEF CxCursors, CxInRing, CxDead
<1>5. CASE CxStart(x)
  <2>1. /\ u.at = "idle" /\ v.at = "look" /\ u.call <= Len(cxSet.calls[x]) /\ v.slots = <<>>
        /\ cxCur' = cxCur /\ cxC' = cxC /\ CxMayLock(x) /\ cxLock' = cxLock \cup {x}
    BY <1>0, <1>5, CxUserMoves DEF CxStart, cxRing
  <2>2. u.slots = <<>>
    BY <1>0, <2>1 DEF CxReservedOf
  <2>3. CxReservedOf(x)'
    BY <2>1 DEF CxReservedOf
  <2>4. \A y \in CxContexts : CxInStart(y) => cxSet.calls[y] # <<>>
    <3> SUFFICES ASSUME NEW y \in CxContexts, CxInStart(y) PROVE cxSet.calls[y] # <<>>
      OBVIOUS
    <3>1. cxUser[y].call \in Nat \ {0} /\ cxUser[y].call <= Len(cxSet.calls[y])
      BY <1>0, CxRecords, CxUserParts DEF CxFresh, CxFreshOf
    <3> QED BY <3>1
  <2>5. cxSet.calls[x] # <<>>
    BY <1>2, <2>1
  <2>6. \A y \in CxContexts : ~CxInStart(y)
    <3>1. CASE cxSet.ipc
      BY <1>0, <2>1, <3>1 DEF CxOneStart, CxMayLock
    <3>2. CASE ~cxSet.ipc
      <4>1. \A y \in CxContexts : cxSet.calls[y] # <<>> => y = x
        BY <1>0, <2>5, <3>2, CxSetting DEF CxTypes
      <4> QED BY <2>1, <2>4, <4>1 DEF CxInStart
    <3> QED BY <3>1, <3>2
  <2>7. CxOneStart'
    <3>1. \A y \in CxContexts : CxInStart(y)' <=> y = x
      BY <2>1, <2>6, <1>1 DEF CxInStart
    <3> QED BY <3>1, <2>1 DEF CxOneStart
  <2>8. \A i : i \notin ToSet(u.slots)
    BY <2>2 DEF ToSet
  <2> QED BY <1>4, <1>5, <2>1, <2>3, <2>7, <2>8, CxUserOrder DEF CxUserStep
<1>6. CASE CxLook(x)
  <2>1. /\ u.at = "look" /\ v.slots = u.slots /\ v.at \in {"kick", "fail", "reset"}
        /\ v.at = "reset" => cxCur[v.seen] = CxDEAD
        /\ cxCur' = cxCur /\ cxC' = cxC /\ cxLock' = cxLock
    BY <1>0, <1>6, CxUserMoves DEF CxLook, cxRing
  <2>2. CxInStart(x) /\ CxOneStart'
    BY <1>6, <2>1, CxStillOneStart DEF CxInStart, CxUserStep
  <2>3. CxReservedOf(x)'
    <3>1. \A c \in CxClients : CxRuns(c)' => CxRuns(c)
      BY <2>1 DEF CxRuns
    <3> QED BY <1>0, <2>1, <2>2, <3>1 DEF CxReservedOf
  <2> QED BY <1>4, <1>6, <2>1, <2>2, <2>3, CxUserOrder DEF CxUserStep
<1>7. CASE CxReset(x)
  <2>1. /\ u.at = "reset" /\ v.slots = Append(u.slots, u.seen) /\ v.at = "look"
        /\ cxCur' = [cxCur EXCEPT ![u.seen] = cxLog] /\ cxC' = cxC /\ cxLock' = cxLock
    BY <1>0, <1>7, CxUserMoves DEF CxReset
  <2>2. CxInStart(x) /\ CxOneStart'
    BY <1>7, <2>1, CxStillOneStart DEF CxInStart, CxUserStep
  <2>3. u.seen \in CxNumbers /\ cxCur[u.seen] = CxDEAD
    BY <1>0, <2>1 DEF CxIndexedOf, CxReservedOf
  <2>4. /\ DOMAIN v.slots = 1..(Len(u.slots) + 1) /\ DOMAIN u.slots = 1..Len(u.slots)
        /\ Len(u.slots) \in Nat /\ v.slots[Len(u.slots) + 1] = u.seen
        /\ \A k \in DOMAIN u.slots : v.slots[k] = u.slots[k] /\ u.slots[k] \in CxNumbers
    BY <1>2, <2>1, <2>3
  <2>5. cxCur'[u.seen] = cxLog /\ cxLog # CxDEAD
        /\ \A i \in CxNumbers \ {u.seen} : cxCur'[i] = cxCur[i]
    BY <1>3, <2>1, <2>3
  <2>6. \A c \in CxClients : CxRuns(c) => cxC[c].ix \in CxNumbers \ {u.seen}
    BY <1>0, <2>3 DEF CxRunners, CxIndexed, CxRuns
  <2>7. \A k \in DOMAIN u.slots : u.slots[k] # u.seen /\ cxCur[u.slots[k]] # CxDEAD
    BY <1>0, <2>2, <2>3 DEF CxReservedOf
  <2>8. CxReservedOf(x)'
    <3>1. \A k \in DOMAIN v.slots :
            /\ cxCur'[v.slots[k]] # CxDEAD
            /\ \A c \in CxClients : CxRuns(c)' => cxC'[c].ix # v.slots[k]
            /\ \A l \in DOMAIN v.slots : v.slots[k] = v.slots[l] => k = l
      <4>a. \A k \in DOMAIN v.slots : k \in DOMAIN u.slots \/ k = Len(u.slots) + 1
        BY <2>4
      <4>1. \A c \in CxClients : CxRuns(c)' => CxRuns(c) /\ cxC'[c].ix = cxC[c].ix
        BY <2>1 DEF CxRuns
      <4>2. ASSUME NEW k \in DOMAIN u.slots
            PROVE  /\ cxCur'[v.slots[k]] # CxDEAD
                   /\ \A c \in CxClients : CxRuns(c)' => cxC'[c].ix # v.slots[k]
                   /\ \A l \in DOMAIN v.slots : v.slots[k] = v.slots[l] => k = l
        <5>1. v.slots[k] = u.slots[k] /\ u.slots[k] \in CxNumbers \ {u.seen}
          BY <2>4, <2>7
        <5>2. /\ cxCur[u.slots[k]] # CxDEAD
              /\ \A c \in CxClients : CxRuns(c) => cxC[c].ix # u.slots[k]
              /\ \A l \in DOMAIN u.slots : u.slots[k] = u.slots[l] => k = l
          BY <1>0, <2>2 DEF CxReservedOf
        <5>3. \A l \in DOMAIN v.slots : v.slots[k] = v.slots[l] => k = l
          BY <4>a, <5>1, <5>2, <2>4
        <5> QED BY <5>1, <5>2, <5>3, <4>1, <2>5
      <4>3. ASSUME NEW k, k = Len(u.slots) + 1
            PROVE  /\ cxCur'[v.slots[k]] # CxDEAD
                   /\ \A c \in CxClients : CxRuns(c)' => cxC'[c].ix # v.slots[k]
                   /\ \A l \in DOMAIN v.slots : v.slots[k] = v.slots[l] => k = l
        <5>1. v.slots[k] = u.seen
          BY <2>4, <4>3
        <5> QED BY <5>1, <4>a, <4>1, <4>3, <2>4, <2>5, <2>6, <2>7
      <4> QED BY <4>a, <4>2, <4>3
    <3> QED BY <2>1, <3>1 DEF CxReservedOf
  <2>9. \A i \in CxNumbers : CxInRing(i)'
    BY <1>0, <1>1, <1>3, <2>5 DEF CxCursors, CxInRing
  <2>10. \A i \in CxNumbers : \/ i \in ToSet(v.slots)
                              \/ i \notin ToSet(u.slots) /\ cxCur'[i] = cxCur[i]
    <3>1. u.seen \in ToSet(v.slots)
      BY <2>4 DEF ToSet
    <3>2. \A i \in ToSet(u.slots) : i \in ToSet(v.slots)
      BY <2>4 DEF ToSet
    <3> QED BY <3>1, <3>2, <2>5
  <2>11. \A i \in CxNumbers : ~CxDead(i)' => \/ i \in ToSet(v.slots)
                                             \/ i \notin ToSet(u.slots) /\ ~CxDead(i)
    BY <2>10 DEF CxDead
  <2> QED BY <1>7, <2>1, <2>2, <2>5, <2>6, <2>8, <2>9, <2>11, CxUserOrder DEF CxUserStep
<1>8. CASE CxFail(x)
  <2>1. /\ u.at = "fail" /\ v.slots = <<>> /\ v.at = "idle" /\ cxC' = cxC
        /\ cxCur' = [i \in CxNumbers |-> IF i \in ToSet(u.slots) THEN CxDEAD ELSE cxCur[i]]
    BY <1>0, <1>8, CxUserMoves DEF CxFail, CxToGiveBack
  <2>2. CxInStart(x) /\ CxOneStart'
    BY <1>8, <2>1, CxStillOneStart DEF CxInStart, CxUserStep
  <2>3. CxReservedOf(x)'
    BY <2>1 DEF CxReservedOf, CxInStart
  <2>4. \A c \in CxClients : CxRuns(c) => cxCur'[cxC[c].ix] = cxCur[cxC[c].ix]
    <3>1. \A c \in CxClients : CxRuns(c) => cxC[c].ix \in CxNumbers /\ cxC[c].ix \notin ToSet(u.slots)
      BY <1>0, <2>2 DEF CxReservedOf, CxIndexed, CxRuns, ToSet
    <3> QED BY <2>1, <3>1
  <2>5. \A i \in CxNumbers : CxInRing(i)'
    BY <1>0, <1>1, <2>1 DEF CxCursors, CxInRing
  <2>6. \A i \in CxNumbers : ~CxDead(i)' => i \notin ToSet(u.slots) /\ ~CxDead(i)
    BY <2>1 DEF CxDead, CxDEAD
  <2> QED BY <1>8, <2>1, <2>2, <2>3, <2>4, <2>5, <2>6, CxUserOrder DEF CxUserStep
<1>9. CASE CxKick(x)
  BY <1>9, CxKickKeepsOrder
<1>10. CASE CxStarted(x)
  <2>1. /\ u.at = "kick" /\ v.at = "idle" /\ v.slots = <<>> /\ u.todo = <<>>
        /\ cxCur' = cxCur /\ cxC' = cxC
    BY <1>0, <1>10, CxUserMoves DEF CxStarted, cxRing
  <2>2. CxOneStart'
    BY <1>10, <2>1, CxStillOneStart DEF CxInStart, CxUserStep
  <2>3. CxReservedOf(x)'
    BY <2>1 DEF CxReservedOf, CxInStart
  <2>4. Len(u.slots) = 0
    BY <1>0, <2>1 DEF CxIndexedOf
  <2>5. \A i : i \notin ToSet(u.slots)
    BY <1>2, <2>4 DEF ToSet
  <2> QED BY <1>4, <1>10, <2>1, <2>2, <2>3, <2>5, CxUserOrder DEF CxUserStep
<1>11. CASE CxStop(x)
  <2>1. v.at = "joining" /\ v.slots = u.slots /\ cxCur' = cxCur /\ cxC' = cxC
    BY <1>0, <1>11, CxUserMoves DEF CxStop, cxRing
  <2>2. CxOneStart' /\ CxReservedOf(x)'
    BY <1>11, <2>1, CxStillOneStart DEF CxInStart, CxReservedOf, CxUserStep
  <2> QED BY <1>4, <1>11, <2>1, <2>2, CxUserOrder DEF CxUserStep
<1>12. CASE CxJoin(x)
  <2>1. v.at = "joined" /\ v.slots = u.slots /\ cxCur' = cxCur /\ cxC' = cxC
    BY <1>0, <1>12, CxUserMoves DEF CxJoin, cxRing
  <2>2. CxOneStart' /\ CxReservedOf(x)'
    BY <1>12, <2>1, CxStillOneStart DEF CxInStart, CxReservedOf, CxUserStep
  <2> QED BY <1>4, <1>12, <2>1, <2>2, CxUserOrder DEF CxUserStep
<1>13. ~CxDestroy(x)
  BY <1>0 DEF CxDestroy, CxOrderly
<1> QED BY <1>5, <1>6, <1>7, <1>8, <1>9, <1>10, <1>11, <1>12, <1>13, CxCrashKeepsOrder
        DEF CxUserStep

-----------------------------------------------------------------------------
(* What holds when all is orderly: senders and the purger. *)

\* A step that only adds messages and marks cursors that nobody has keeps the order.
LEMMA CxOtherOrder ==
  ASSUME CxBaseInv, CxOrderInv, CxSend \/ CxTrySendFails \/ CxPurge \/ CxPurgerLeaves,
         cxLog <= cxLog', CxCursors',
         \A i \in CxNumbers : cxCur'[i] = cxCur[i] \/ cxCur'[i] = CxDEAD,
         \A c \in CxClients : CxRuns(c) => cxCur'[cxC[c].ix] = cxCur[cxC[c].ix],
         \A x \in CxContexts : CxInStart(x) =>
           \A k \in DOMAIN cxUser[x].slots : cxCur'[cxUser[x].slots[k]] = cxCur[cxUser[x].slots[k]]
  PROVE  CxOrderInv'
<1>0. /\ CxTypes /\ CxIndexed /\ CxOrderly /\ CxOneStart /\ CxRunners /\ CxReserved
      /\ CxInHand /\ CxIndexAccounted /\ CxHistory /\ CxConsecutive
  BY DEF CxBaseInv, CxOrderInv, CxOwnInv
<1>1. UNCHANGED <<cxSet, cxUser, cxC, cxGot, cxDrops, cxLock>>
  BY CxOtherEffect
<1>2. \A c \in CxClients : CxRuns(c)' <=> CxRuns(c)
  BY <1>1 DEF CxRuns
<1>3. CxOrderly' /\ CxOneStart' /\ CxConsecutive'
  BY <1>0, <1>1 DEF CxOrderly, CxOneStart, CxInStart, CxConsecutive
<1>4. CxRunners'
  BY <1>0, <1>1, <1>2 DEF CxRunners
<1>5. CxReserved'
  <2> SUFFICES ASSUME NEW x \in CxContexts PROVE CxReservedOf(x)'
    BY DEF CxReserved
  <2>1. CxReservedOf(x) /\ cxUser' = cxUser /\ CxIndexedOf(x)
    BY <1>0, <1>1 DEF CxReserved, CxIndexed
  <2>2. cxUser[x].at = "reset" => cxCur'[cxUser[x].seen] = CxDEAD
    BY <2>1 DEF CxReservedOf, CxIndexedOf
  <2>3. CxInStart(x) => \A k \in DOMAIN cxUser[x].slots :
                          /\ cxCur'[cxUser[x].slots[k]] # CxDEAD
                          /\ \A c \in CxClients : CxRuns(c)' => cxC'[c].ix # cxUser[x].slots[k]
    BY <2>1, <1>1, <1>2 DEF CxReservedOf
  <2> QED BY <2>1, <2>2, <2>3 DEF CxReservedOf, CxInStart
<1>6. CxInHand' /\ CxHistory'
  <2> SUFFICES ASSUME NEW c \in CxClients PROVE CxInHandOf(c)' /\ CxHistoryOf(c)'
    BY DEF CxInHand, CxHistory
  <2>1. CxInHandOf(c) /\ CxHistoryOf(c)
    BY <1>0 DEF CxInHand, CxHistory
  <2>2. cxC[c].at \in {"check", "peek", "handle", "waste", "turn", "caught"} =>
          cxCur'[cxC[c].ix] = cxCur[cxC[c].ix]
    BY DEF CxRuns, CxEnds
  <2>3. cxLog \in Nat /\ cxLog' \in Nat
    BY <1>0, CxTypesOther DEF CxTypes
  <2>4. cxC[c].n \in Nat /\ cxC[c].seen \in Int /\ CxNever \in Int /\ cxGot[c] \in Seq(Int)
    BY <1>0, CxRecords, CxThreadParts
  <2>5. CxInHandOf(c)'
    BY <2>1, <2>2, <2>3, <2>4, <1>1 DEF CxInHandOf
  <2>6. \A k \in DOMAIN cxGot[c] : 0 <= cxGot[c][k] /\ cxGot[c][k] < cxLog'
    BY <2>1, <2>3, <2>4 DEF CxHistoryOf
  <2>7. CxHistoryOf(c)'
    BY <2>1, <2>2, <2>6, <1>1 DEF CxHistoryOf, CxUpToDate, CxAgain
  <2> QED BY <2>5, <2>7
<1>7. CxIndexAccounted'
  BY <1>0, <1>1 DEF CxIndexAccounted, CxDead, CxDEAD
<1> QED BY <1>3, <1>4, <1>5, <1>6, <1>7 DEF CxOrderInv, CxOwnInv

\* A send keeps clear of every reader, the slowest first.
LEMMA CxSendKeepsOrder == ASSUME CxBaseInv, CxOrderInv, CxSend PROVE CxOrderInv'
<1>0. CxTypes /\ CxCursors /\ CxTypes' /\ cxSet \in CxSettings
  BY CxTypesOther DEF CxBaseInv, CxOrderInv, CxOwnInv, CxTypes
<1>1. CxBatch \in Nat /\ cxLog' = cxLog + CxBatch /\ cxCur' = cxCur /\ cxNoted' = cxNoted
      /\ cxLog + CxBatch <= CxRingCap + CxLow
  BY <1>0, CxBatchSize DEF CxSend, CxRoom
<1>2. CxRingCap \in Nat /\ CxMaxLog \in Int /\ CxNumbers \subseteq Nat
      /\ cxSet.sends + cxSet.flushes <= CxMaxLog /\ cxSet.sends \in Nat /\ cxSet.flushes \in Nat
  BY <1>0, CxSetting
<1>3. cxLog \in Nat /\ cxLog' \in Nat /\ cxCur \in [CxNumbers -> Nat] /\ cxNoted \in [CxNumbers -> Int]
      /\ cxSent' \in Nat /\ cxSent' <= cxSet.sends /\ cxLog' <= cxSent' + cxSet.flushes
  BY <1>0, CxOtherEffect DEF CxTypes
<1>4. cxLog' <= CxMaxLog
  BY <1>2, <1>3
<1>5. \A i \in CxNumbers : CxLow <= cxCur[i] /\ CxLow \in Nat
  <2> SUFFICES ASSUME NEW i \in CxNumbers PROVE CxLow <= cxCur[i] /\ CxLow \in Nat
    OBVIOUS
  <2> DEFINE T == {cxCur[j] : j \in CxNumbers}
  <2>1. T \in SUBSET Nat /\ T # {} /\ cxCur[i] \in T
    BY <1>3
  <2> QED BY <2>1, CxMin DEF CxLow
<1>6. CxCursors'
  <2> SUFFICES ASSUME NEW i \in CxNumbers
               PROVE  CxInRing(i)' /\ CxNever <= cxNoted[i] /\ cxNoted[i] <= cxLog'
    BY <1>1, <1>4 DEF CxCursors
  <2>1. CxInRing(i) /\ CxNever <= cxNoted[i] /\ cxNoted[i] <= cxLog
    BY <1>0 DEF CxCursors
  <2>2. cxCur[i] \in Nat /\ cxNoted[i] \in Int
    BY <1>3
  <2> QED BY <2>1, <2>2, <1>1, <1>2, <1>3, <1>5 DEF CxInRing
<1>7. cxLog <= cxLog'
  BY <1>1, <1>3
<1> QED BY <1>1, <1>6, <1>7, CxOtherOrder

\* A purge marks only cursors of clients that are too slow for its period; the Flush
\* keeps clear of the others.
LEMMA CxPurgeKeepsOrder == ASSUME CxBaseInv, CxOrderInv, CxPurge PROVE CxOrderInv'
<1>0. CxTypes /\ CxCursors /\ CxRunners /\ CxIndexed /\ CxReserved /\ CxTypes' /\ cxSet \in CxSettings
      /\ CxOrderly
  BY CxTypesOther DEF CxBaseInv, CxOrderInv, CxOwnInv, CxTypes
<1> DEFINE marked == {i \in CxNumbers : ~CxDead(i) /\ CxToPurge(i)}
           T == {CxDEAD} \cup {cxCur[i] : i \in CxNumbers \ marked}
<1>1. /\ cxNoted' = [i \in CxNumbers |-> IF CxUnread(i) THEN cxCur[i] ELSE cxNoted[i]]
      /\ cxCur' = [i \in CxNumbers |-> IF i \in marked THEN CxDEAD ELSE cxCur[i]]
      /\ \/ cxLog' = cxLog
         \/ cxLog' = cxLog + 1 /\ cxLog < CxRingCap + Min(T)
      /\ CxPeriodPassed /\ cxSent' = cxSent
  BY DEF CxPurge
<1>2. CxRingCap \in Nat /\ CxMaxLog \in Int /\ CxNumbers \subseteq Nat
      /\ cxSet.sends + cxSet.flushes <= CxMaxLog /\ cxSet.sends \in Nat /\ cxSet.flushes \in Nat
  BY <1>0, CxSetting
<1>3. cxLog \in Nat /\ cxLog' \in Nat /\ cxCur \in [CxNumbers -> Nat] /\ cxNoted \in [CxNumbers -> Int]
      /\ cxSent' \in Nat /\ cxSent' <= cxSet.sends /\ cxLog' <= cxSent' + cxSet.flushes
  BY <1>0, CxOtherEffect DEF CxTypes
<1>4. cxLog' <= CxMaxLog /\ CxDEAD \in Nat /\ CxNever \in Int /\ CxNever <= 0
  BY <1>2, <1>3 DEF CxDEAD, CxNever
<1>5. \A i \in CxNumbers \ marked : Min(T) <= cxCur[i] /\ Min(T) \in Nat
  <2> SUFFICES ASSUME NEW i \in CxNumbers \ marked PROVE Min(T) <= cxCur[i] /\ Min(T) \in Nat
    OBVIOUS
  <2>1. T \in SUBSET Nat /\ T # {} /\ cxCur[i] \in T
    BY <1>3, <1>4
  <2> HIDE DEF T
  <2> QED BY <2>1, CxMin
<1>6. \A i \in marked : cxNoted[i] = cxCur[i] /\ ~CxDead(i)
  BY DEF CxToPurge
<1>7. \A c \in CxClients : CxRuns(c) => cxC[c].ix \in CxNumbers /\ cxC[c].ix \notin marked
  BY <1>0, <1>1, <1>6 DEF CxPeriodPassed, CxOrderly, CxIndexed, CxRuns
<1>8. \A x \in CxContexts : CxInStart(x) => \A k \in DOMAIN cxUser[x].slots :
        cxUser[x].slots[k] \in CxNumbers /\ cxUser[x].slots[k] \notin marked
  <2> SUFFICES ASSUME NEW x \in CxContexts, CxInStart(x), NEW k \in DOMAIN cxUser[x].slots
               PROVE  cxUser[x].slots[k] \in CxNumbers /\ cxUser[x].slots[k] \notin marked
    OBVIOUS
  <2>1. cxUser[x].slots \in Seq(CxNumbers)
    BY <1>0, CxRecords, CxUserParts
  <2>2. cxUser[x].slots[k] \in CxNumbers /\ cxUser[x].slots[k] \in ToSet(cxUser[x].slots)
    BY <2>1 DEF ToSet
  <2>3. cxUser[x].at # "crashed"
    BY DEF CxInStart
  <2> QED BY <2>2, <2>3, <1>1, <1>6 DEF CxPeriodPassed
<1> HIDE DEF marked, T
<1>9. marked \subseteq CxNumbers /\ \A i \in CxNumbers : /\ i \in marked => cxCur'[i] = CxDEAD
                                                         /\ i \notin marked => cxCur'[i] = cxCur[i]
  BY <1>1 DEF marked
<1>10. CxCursors'
  <2> SUFFICES ASSUME NEW i \in CxNumbers
               PROVE  CxInRing(i)' /\ CxNever <= cxNoted'[i] /\ cxNoted'[i] <= cxLog'
    BY <1>4 DEF CxCursors
  <2>1. CxInRing(i) /\ CxNever <= cxNoted[i] /\ cxNoted[i] <= cxLog
    BY <1>0 DEF CxCursors
  <2>2. cxCur[i] \in Nat /\ cxNoted[i] \in Int
    BY <1>3
  <2>3. CxInRing(i)'
    BY <2>1, <2>2, <1>1, <1>2, <1>3, <1>5, <1>9 DEF CxInRing
  <2>4. cxNoted'[i] = cxNoted[i] \/ (cxNoted'[i] = cxCur[i] /\ cxCur[i] < cxLog)
    BY <1>1 DEF CxUnread
  <2> QED BY <2>1, <2>2, <2>3, <2>4, <1>1, <1>3, <1>4
<1>11. cxLog <= cxLog'
  BY <1>1, <1>3
<1> QED BY <1>7, <1>8, <1>9, <1>10, <1>11, CxOtherOrder

\* Every step of an orderly transport, stuttering included.
LEMMA CxKeepsOrder == ASSUME CxBaseInv, CxOrderInv, [CxNext]_cxVars PROVE CxOrderInv'
<1>0. CxTypes /\ CxCursors
  BY DEF CxBaseInv, CxOrderInv, CxOwnInv
<1>1. CASE CxTrySendFails \/ CxPurgerLeaves
  <2>1. cxLog' = cxLog /\ cxCur' = cxCur /\ cxNoted' = cxNoted /\ cxLog \in Nat
    BY <1>0, <1>1 DEF CxTrySendFails, CxPurgerLeaves, CxTypes, cxRing
  <2>2. CxCursors' /\ cxLog <= cxLog'
    BY <1>0, <2>1 DEF CxCursors, CxInRing
  <2> QED BY <1>1, <2>1, <2>2, CxOtherOrder
<1>2. CASE UNCHANGED cxVars
  BY <1>2 DEF CxOrderInv, CxOwnInv, CxOrderly, CxOneStart, CxInStart, CxCursors, CxInRing,
     CxRunners, CxRuns, CxReserved, CxReservedOf, CxInHand, CxInHandOf, CxIndexAccounted, CxDead,
     CxHistory, CxHistoryOf, CxUpToDate, CxAgain, CxConsecutive, cxVars
<1> QED BY <1>1, <1>2, CxSendKeepsOrder, CxPurgeKeepsOrder, CxUserKeepsOrder, CxClientKeepsOrder
        DEF CxNext, CxRunning

\* Before anything is started.
LEMMA CxStartsOrder == ASSUME CxInit, CxOrderly PROVE CxOrderInv
<1>0. cxSet \in CxSettings
  BY DEF CxInit
<1>1. CxRingCap \in Nat /\ CxMaxLog \in 0..(CxDEAD - 1) /\ CxNever \in Int /\ CxNever <= 0
  BY <1>0, CxSetting DEF CxNever
<1>2. CxIdleUser.at = "idle" /\ CxIdleUser.slots = <<>> /\ CxOffClient.at = "off"
      /\ CxOffClient.n = 0 /\ CxOffClient.seen = CxNever
  BY DEF CxIdleUser, CxOffClient
<1>3. /\ \A x \in CxContexts : cxUser[x].at = "idle" /\ cxUser[x].slots = <<>>
      /\ \A c \in CxClients : /\ cxC[c].at = "off" /\ cxC[c].n = 0 /\ cxC[c].seen = CxNever
                              /\ cxGot[c] = <<>> /\ ~CxRuns(c)
      /\ \A i \in CxNumbers : cxCur[i] = CxDEAD /\ cxNoted[i] = CxNever
      /\ cxLog = 0
  BY <1>2 DEF CxInit, CxRuns
<1>4. CxOneStart /\ CxRunners /\ CxReserved
  BY <1>3 DEF CxOneStart, CxInStart, CxRunners, CxReserved, CxReservedOf
<1>5. CxCursors /\ CxInHand
  BY <1>1, <1>3 DEF CxCursors, CxInRing, CxInHand, CxInHandOf
<1>6. CxIndexAccounted
  BY <1>3 DEF CxIndexAccounted, CxDead, CxDEAD
<1>7. CxHistory
  BY <1>3 DEF CxHistory, CxHistoryOf
<1>8. CxConsecutive
  <2>1. \A c \in CxClients : Len(cxGot[c]) = 0
    BY <1>3
  <2> QED BY <2>1 DEF CxConsecutive
<1> QED BY <1>4, <1>5, <1>6, <1>7, <1>8 DEF CxOrderInv, CxOwnInv

\* What the invariants say of types.
LEMMA CxTyped == ASSUME CxBaseInv, CxOrderInv PROVE CxTypeOK
<1>0. CxTypes /\ CxCursors /\ CxInHand /\ CxHistory /\ CxOnce /\ CxFresh /\ cxSet \in CxSettings
  BY DEF CxBaseInv, CxOrderInv, CxOwnInv, CxTypes
<1>1. /\ CxRingCap \in Nat /\ CxMaxLog \in Int
      /\ cxSet.sends \in Nat /\ cxSet.stays \in [CxClients -> Nat]
      /\ cxSet.calls \in [CxContexts -> Seq(Seq(CxClients))]
  BY <1>0, CxSetting
<1>2. /\ cxLog \in Nat /\ cxLog <= CxMaxLog /\ cxSent \in Nat /\ cxSent <= cxSet.sends
      /\ cxCur \in [CxNumbers -> Nat] /\ cxNoted \in [CxNumbers -> Int] /\ cxLock \subseteq CxContexts
      /\ cxPurger \in {"off", "on", "gone"} /\ cxStopped \in [CxContexts -> BOOLEAN]
      /\ cxPurged \subseteq CxClients
  BY <1>0 DEF CxTypes, CxCursors
<1>3. cxCur \in [CxNumbers -> (0..cxLog) \cup (CxDEAD..(CxDEAD + CxRingCap))]
  <2> SUFFICES ASSUME NEW i \in CxNumbers
               PROVE  cxCur[i] \in (0..cxLog) \cup (CxDEAD..(CxDEAD + CxRingCap))
    BY <1>2
  <2>1. CxInRing(i) /\ cxCur[i] \in Nat
    BY <1>0, <1>2 DEF CxCursors
  <2>2. CxDEAD \in Int
    BY DEF CxDEAD
  <2> QED BY <2>1, <2>2, <1>1, <1>2 DEF CxInRing
<1>4. cxNoted \in [CxNumbers -> CxNever..cxLog]
  <2>1. \A i \in CxNumbers : cxNoted[i] \in Int /\ CxNever <= cxNoted[i] /\ cxNoted[i] <= cxLog
    BY <1>0, <1>2 DEF CxCursors
  <2> QED BY <2>1, <1>2, CxNeverInt
<1>5. ASSUME NEW x \in CxContexts
      PROVE  /\ cxUser[x].at \in CxUserPoints
             /\ cxUser[x].call \in 1..(Len(cxSet.calls[x]) + 1)
             /\ cxUser[x].seen \in CxNumbers \cup {CxNever}
             /\ cxUser[x].todo \in Seq(CxClients) /\ cxUser[x].slots \in Seq(CxNumbers)
  <2>1. /\ cxUser[x].at \in CxUserPoints /\ cxUser[x].call \in Nat \ {0}
        /\ cxUser[x].seen \in CxNumbers \cup {CxNever}
        /\ cxUser[x].todo \in Seq(CxClients) /\ cxUser[x].slots \in Seq(CxNumbers)
    BY <1>0, CxRecords, CxUserParts
  <2>2. cxUser[x].call <= Len(cxSet.calls[x]) + 1 /\ Len(cxSet.calls[x]) \in Nat
    BY <1>0, <1>1 DEF CxFresh, CxFreshOf
  <2> QED BY <2>1, <2>2
<1>6. ASSUME NEW c \in CxClients
      PROVE  /\ cxC[c].at \in CxRunPoints \cup CxEnds \cup {"off"}
             /\ cxC[c].ix \in CxNumbers \cup {CxNever} /\ cxC[c].n \in 0..CxRingCap
             /\ cxC[c].in \in BOOLEAN /\ cxC[c].of \in CxContexts \cup {CxNobody}
             /\ cxC[c].stays \in 0..cxSet.stays[c] /\ cxC[c].seen \in CxNever..cxLog
             /\ cxDrops[c] \in 0..1 /\ cxGot[c] \in Seq(0..(cxLog - 1))
  <2>1. /\ cxC[c].at \in CxRunPoints \cup CxEnds \cup {"off"}
        /\ cxC[c].ix \in CxNumbers \cup {CxNever} /\ cxC[c].n \in Nat
        /\ cxC[c].in \in BOOLEAN /\ cxC[c].of \in CxContexts \cup {CxNobody}
        /\ cxC[c].stays \in Nat /\ cxC[c].seen \in Int /\ CxNever \in Int
        /\ cxDrops[c] \in Nat /\ cxGot[c] \in Seq(Int) /\ cxSet.stays[c] \in Nat
    BY <1>0, <1>1, CxRecords, CxThreadParts
  <2>2. CxInHandOf(c) /\ CxHistoryOf(c) /\ CxOnceOf(c)
    BY <1>0 DEF CxInHand, CxHistory, CxOnce
  <2>3. cxC[c].n \in 0..CxRingCap /\ cxC[c].seen \in CxNever..cxLog
    BY <1>1, <1>2, <2>1, <2>2 DEF CxInHandOf
  <2>4. cxC[c].stays \in 0..cxSet.stays[c] /\ cxDrops[c] \in 0..1
    BY <2>1, <2>2 DEF CxOnceOf
  <2>5. cxGot[c] \in Seq(0..(cxLog - 1))
    <3>1. \A k \in 1..Len(cxGot[c]) : cxGot[c][k] \in Int /\ 0 <= cxGot[c][k] /\ cxGot[c][k] < cxLog
      BY <2>1, <2>2 DEF CxHistoryOf
    <3>2. \A k \in 1..Len(cxGot[c]) : cxGot[c][k] \in 0..(cxLog - 1)
      BY <3>1, <1>2
    <3>3. Len(cxGot[c]) \in Nat /\ cxGot[c] \in [1..Len(cxGot[c]) -> 0..(cxLog - 1)]
      BY <2>1, <3>2
    <3> QED BY <3>3, SeqDef
  <2> QED BY <2>1, <2>3, <2>4, <2>5
<1>7. cxLog \in 0..CxMaxLog /\ cxSent \in 0..cxSet.sends
  BY <1>1, <1>2
<1> QED BY <1>2, <1>3, <1>4, <1>5, <1>6, <1>7 DEF CxTypeOK, CxUserPoints

\* What they say of indexes.
LEMMA CxOwns == ASSUME CxBaseInv, CxOrderInv PROVE CxOwnIndex
<1>0. /\ CxTypes /\ CxIndexed /\ CxOneStart /\ CxCursors /\ CxRunners /\ CxReserved
      /\ cxSet \in CxSettings
  BY DEF CxBaseInv, CxOrderInv, CxOwnInv, CxTypes
<1> DEFINE reserved(x) == IF cxUser[x].at \in {"look", "kick", "fail"} THEN cxUser[x].slots
                          ELSE <<>>
<1>1. \A c \in CxClients : CxRuns(c) => ~CxDead(cxC[c].ix)
  BY CxAlive
<1>2. \A c, d \in CxClients : (c # d /\ CxRuns(c) /\ CxRuns(d)) => cxC[c].ix # cxC[d].ix
  BY <1>0 DEF CxRunners
<1>3. ASSUME NEW x \in CxContexts, NEW k \in DOMAIN reserved(x)
      PROVE  CxInStart(x) /\ k \in DOMAIN cxUser[x].slots /\ reserved(x)[k] = cxUser[x].slots[k]
  <2>1. cxUser[x].at \in {"look", "kick", "fail"}
    BY <1>3
  <2> QED BY <2>1 DEF CxInStart
<1>4. ASSUME NEW x \in CxContexts, NEW k \in DOMAIN reserved(x)
      PROVE  /\ \A c \in CxClients \ cxPurged : CxRuns(c) => cxC[c].ix # reserved(x)[k]
             /\ \A y \in CxContexts : \A l \in DOMAIN reserved(y) :
                  <<x, k>> # <<y, l>> => reserved(x)[k] # reserved(y)[l]
  <2>1. CxInStart(x) /\ k \in DOMAIN cxUser[x].slots /\ reserved(x)[k] = cxUser[x].slots[k]
    BY <1>3
  <2>2. ASSUME NEW y \in CxContexts, NEW l \in DOMAIN reserved(y), <<x, k>> # <<y, l>>
        PROVE  reserved(x)[k] # reserved(y)[l]
    <3>1. CxInStart(y) /\ l \in DOMAIN cxUser[y].slots /\ reserved(y)[l] = cxUser[y].slots[l]
      BY <1>3
    <3>2. y = x /\ k # l
      BY <1>0, <2>1, <2>2, <3>1 DEF CxOneStart
    <3> QED BY <1>0, <2>1, <3>1, <3>2 DEF CxReserved, CxReservedOf
  <2>3. \A c \in CxClients \ cxPurged : CxRuns(c) => cxC[c].ix # reserved(x)[k]
    BY <1>0, <2>1 DEF CxReserved, CxReservedOf
  <2> QED BY <2>2, <2>3
<1> QED BY <1>1, <1>2, <1>4 DEF CxOwnIndex

\* In a transport where no client outlasts a purge period and no creator is destroyed,
\* whatever else its Contexts do (start, fail to start, stop, crash, clients that throw,
\* leave and come back): each running client and each reservation of a start() has a living
\* cursor of its own (Context.hpp:1237, 1252, 1258), messages are handled in order
\* (ContextDetail.hpp:134) and are not overwritten in a handler (ContextDetail.hpp:147).
THEOREM CxSafe == CxSpec /\ CxOrderly => []CxSafety
<1>1. CxInit /\ CxOrderly => CxBaseInv /\ CxOrderInv
  BY CxStartsBase, CxStartsOrder
<1>2. CxBaseInv /\ CxOrderInv /\ [CxNext]_cxVars => (CxBaseInv /\ CxOrderInv)'
  BY CxKeepsBase, CxKeepsOrder
<1>3. CxBaseInv /\ CxOrderInv => CxSafety
  <2> SUFFICES ASSUME CxBaseInv, CxOrderInv PROVE CxSafety
    OBVIOUS
  <2>1. CxNotOverwritten
    <3> SUFFICES ASSUME NEW c \in CxClients, cxC[c].at = "handle"
                 PROVE  cxLog <= cxC[c].seen + CxRingCap
      BY DEF CxNotOverwritten
    <3>1. CxRuns(c)
      BY DEF CxRuns, CxEnds
    <3>2. cxC[c].seen = cxCur[cxC[c].ix]
      BY DEF CxOrderInv, CxOwnInv, CxInHand, CxInHandOf
    <3> QED BY <3>1, <3>2, CxAlive
  <2>2. CxIndexAccounted /\ CxConsecutive
    BY DEF CxOrderInv, CxOwnInv
  <2> QED BY <2>1, <2>2, CxTyped, CxOwns DEF CxSafety
<1> QED BY <1>1, <1>2, <1>3, PTL DEF CxSpec
-----------------------------------------------------------------------------
(* The thread pool: the inductive invariant, and what each step does to it.  *)

\* Points at which a thread has a consumer in its hands, that it took from its queue, ...
PoHand == {"starting", "look", "claim", "keep", "handle", "drop"}
\* ... is in a round over its queue, and has an index of the ring.
PoRound == PoHand \cup {"visit", "resuming"}
PoBusy == PoRound \cup {"shuffle", "loop", "task", "invoke", "leaving"}
PoEnding == {"leaving", "cleanup", "done"}
PoPoints == PoBusy \cup PoEnding \cup {"off"}
PoThread == [pc : PoPoints, b : Int, e : Nat, n : Nat, left : Nat, seen : Int, ok : BOOLEAN,
             c : PoAll \cup {"none"}]

PoTypes ==
  /\ poSet \in PoSettings /\ poPhase \in {"created", "resetting", "running"}
  /\ poSeq \in 0..poSet.maxSeq /\ poCur \in [PoSlots -> Int] /\ poT \in [PoThreads -> PoThread]
  /\ poQ \in [PoSlots -> Seq(PoConsumers)] /\ poAdding \in [PoConsumers -> SUBSET PoSlots]
  /\ poNext \in [PoConsumers -> Int] /\ poDropCount \in [PoConsumers -> Nat]
  /\ poIn \subseteq PoAll /\ poMQ \in Seq(PoTasks) /\ poStop \in BOOLEAN
  /\ poLog \in [PoConsumers -> Seq(Int)] /\ poDrops \in [PoAll -> Nat]

\* Bounds; a thread that runs has a living cursor and what it looks at is at its queue's front.
PoRoundOf(t) ==
  /\ poT[t].b <= poT[t].e /\ poT[t].e <= poSeq /\ poT[t].left <= poT[t].n
  /\ poT[t].pc \in PoBusy => poCur[poSet.slot[t]] >= 0
  /\ poT[t].pc \in PoRound => poT[t].b >= 0
  /\ poT[t].pc \in PoRound \cup {"leaving"} => poT[t].left <= Len(poQ[t])
  /\ poT[t].pc \in {"claim", "handle"} => poT[t].b <= poT[t].seen /\ poT[t].seen <= poT[t].e
PoLimits ==
  /\ \A s \in PoSlots : PoDead <= poCur[s] /\ poCur[s] <= poSeq /\ Len(poQ[s]) <= PoQueueCap
  /\ \A c \in PoConsumers : PoIGNORE <= poNext[c] /\ poNext[c] <= poSeq
  /\ \A t \in PoThreads : PoRoundOf(t)
  /\ poPhase # "running" => ~poStop /\ \A t \in PoThreads : poT[t].pc = "off"
  /\ poPhase = "created" /\ ~poSet.recycled => \A s \in PoSlots : poCur[s] >= 0

\* A thread that serves a consumer has it to come, in its queue or in its hands, once, or
\* has given it up; who was dropped is nowhere.
PoAmong(q, c) == \E i \in 1..Len(q) : q[i] = c
PoDistinct(q) == \A i, j \in 1..Len(q) : q[i] = q[j] => i = j
PoQueued(t, c) == PoAmong(poQ[t], c)
PoHeld(t, c) == poT[t].pc \in PoHand /\ poT[t].c = c
PoHas(t, c) == t \in poAdding[c] \/ PoQueued(t, c) \/ PoHeld(t, c)
PoPlaceOf(t, c) ==
  /\ PoHas(t, c) => c \in poIn /\ t \in PoAffinity(c)
  /\ PoQueued(t, c) => t \notin poAdding[c]
  /\ PoHeld(t, c) => t \notin poAdding[c] /\ ~PoQueued(t, c)
PoPlaces ==
  /\ \A t \in PoThreads : PoDistinct(poQ[t])
  /\ \A t \in PoThreads : poT[t].pc \in PoHand => poT[t].c \in PoConsumers
  /\ \A t \in PoThreads, c \in PoConsumers : PoPlaceOf(t, c)
  /\ \A c \in PoConsumers : poAdding[c] \subseteq PoAffinity(c)
  /\ \A c \in PoConsumers : c \in poIn => c \in poSet.added

\* Dropped when the last of the threads gives it up, and never again.
PoAway(c) == {t \in PoServers(c) : ~PoHas(t, c)}
PoCountOf(c) ==
  /\ c \in poIn => /\ poDrops[c] = 0 /\ poDropCount[c] = Cardinality(PoAway(c))
                   /\ poDropCount[c] < Cardinality(PoServers(c))
  /\ c \notin poIn /\ poDrops[c] = 0 => poLog[c] = <<>>
  /\ poDrops[c] <= 1
  /\ poDrops[c] > 0 => poNext[c] = PoSTOP \/ poStop
PoCounts == \A c \in PoConsumers : PoCountOf(c)

\* nextSeq_ follows the log, and is IGNORE while a thread handles messages.
PoConsecutive(s) == \A i \in 1..(Len(s) - 1) : s[i + 1] = s[i] + 1
PoNumberOf(c) ==
  /\ PoConsecutive(poLog[c])
  /\ poLog[c] # <<>> /\ poNext[c] >= 0 => Last(poLog[c]) = poNext[c] - 1
  /\ poNext[c] = PoNone => poLog[c] = <<>>
PoHandles(t, c) == PoHeld(t, c) /\ poT[t].pc = "handle"
PoGivesUp(t, c) == PoHeld(t, c) /\ (poT[t].pc = "drop" \/ (poT[t].pc \in {"starting", "look"} /\ ~poT[t].ok))
PoHandOf(t, c) ==
  /\ PoHandles(t, c) => /\ poNext[c] = PoIGNORE
                        /\ poLog[c] # <<>> => Last(poLog[c]) = poT[t].seen - 1
  /\ PoGivesUp(t, c) => poNext[c] = PoSTOP
PoNumbers ==
  /\ \A c \in PoConsumers : PoNumberOf(c)
  /\ \A t \in PoThreads, c \in PoConsumers : PoHandOf(t, c)
  /\ \A t, u \in PoThreads, c \in PoConsumers : PoHandles(t, c) /\ PoHandles(u, c) => t = u

\* A task is in the queue of the tasks once or in the hands of one thread.
PoInvokes(t, m) == poT[t].pc = "invoke" /\ poT[t].c = m
PoTasksOnce ==
  /\ PoDistinct(poMQ) /\ \A m : PoAmong(poMQ, m) => m \in poIn
  /\ \A t \in PoThreads : poT[t].pc = "invoke" =>
       /\ poT[t].c \in PoTasks /\ poT[t].c \in poIn
       /\ ~PoAmong(poMQ, poT[t].c)
       /\ \A u \in PoThreads : PoInvokes(u, poT[t].c) => u = t

\* A thread that ends leaves in its queue only who was being added when the pool stopped.
PoLeftIn(t) == IF poT[t].pc = "leaving" THEN poT[t].left ELSE 0
PoEnds ==
  /\ poStop => \A c \in PoConsumers : poAdding[c] # {} => c \in poLate
  /\ \A t \in PoThreads : poT[t].pc \in PoEnding =>
       poStop /\ \A i \in 1..Len(poQ[t]) : PoLeftIn(t) < i => poQ[t][i] \in poLate
  /\ \A t \in PoThreads : poT[t].pc = "done" => poIn \cap PoTasks = {}

PoInv == PoTypes /\ PoLimits /\ PoPlaces /\ PoCounts /\ PoNumbers /\ PoTasksOnce /\ PoEnds

-----------------------------------------------------------------------------
\* What the settings give.
LEMMA PoSetting ==
  ASSUME poSet \in PoSettings
  PROVE  /\ PoThreads \subseteq PoSlots /\ PoSlots \subseteq Nat /\ PoThreads # {}
         /\ IsFiniteSet(PoThreads) /\ PoConsumers \cap PoTasks = {}
         /\ poSet.slot \in [PoThreads -> PoSlots]
         /\ \A t, u \in PoThreads : poSet.slot[t] = poSet.slot[u] => t = u
         /\ ~poSet.recycled => \A t \in PoThreads : poSet.slot[t] = t
         /\ poSet.maxSeq \in 0..PoMaxSeq /\ poSet.added \subseteq PoAll /\ PoMaxSeq \in Nat
         /\ \A c \in PoAll : PoAffinity(c) \subseteq PoSlots
         /\ \A c \in poSet.added \cap PoConsumers : PoServers(c) # {}
         /\ \A c \in poSet.startThrows : Cardinality(PoServers(c)) = 1
<1>1. poSet \in [affinity : [PoConsumers \cup PoTasks -> SUBSET PoSlots],
                 startThrows : SUBSET PoConsumers,
                 added : SUBSET (PoConsumers \cup PoTasks),
                 slot : [PoThreads -> PoSlots], recycled : BOOLEAN,
                 maxSeq : 0..PoMaxSeq, lateAdd : BOOLEAN]
  BY PoAssumption
<1>2. /\ poSet.affinity \in [PoAll -> SUBSET PoSlots] /\ poSet.slot \in [PoThreads -> PoSlots]
      /\ poSet.maxSeq \in 0..PoMaxSeq /\ poSet.added \subseteq PoAll
  BY <1>1 DEF PoAll
<1>3. \A c \in PoAll : PoAffinity(c) \subseteq PoSlots
  BY <1>2 DEF PoAffinity
<1>4. /\ \A t, u \in PoThreads : poSet.slot[t] = poSet.slot[u] => t = u
      /\ ~poSet.recycled => \A t \in PoThreads : poSet.slot[t] = t
  BY PoAssumption
<1>5. /\ \A c \in poSet.added \cap PoConsumers : PoServers(c) # {}
      /\ \A c \in poSet.startThrows : Cardinality(PoServers(c)) = 1
  BY PoAssumption DEF PoServers, PoAffinity
<1> QED BY <1>2, <1>3, <1>4, <1>5, PoAssumption

\* The counter of the ring is a number of the setting.
LEMMA PoSeqNat == ASSUME PoTypes PROVE poSeq \in Nat /\ poSeq <= PoMaxSeq
<1>1. poSeq \in 0..poSet.maxSeq /\ poSet.maxSeq \in 0..PoMaxSeq /\ PoMaxSeq \in Nat
  BY PoSetting DEF PoTypes
<1> QED BY <1>1

\* What EXCEPT does to a function.
LEMMA PoReplaced ==
  ASSUME NEW X, NEW S, NEW f \in [X -> S], NEW x \in X, NEW r \in S, NEW g,
         g = [f EXCEPT ![x] = r]
  PROVE  g \in [X -> S] /\ g[x] = r /\ \A y \in X : y # x => g[y] = f[y]
OBVIOUS

\* ... and to the record of a thread.
LEMMA PoRecord ==
  ASSUME NEW th \in PoThread
  PROVE  /\ th.pc \in PoPoints /\ th.b \in Int /\ th.e \in Nat /\ th.n \in Nat /\ th.left \in Nat
         /\ th.seen \in Int /\ th.ok \in BOOLEAN /\ th.c \in PoAll \cup {"none"}
BY DEF PoThread

\* What Append does to a queue ...
LEMMA PoAppended ==
  ASSUME NEW S, NEW q \in Seq(S), NEW e \in S, PoDistinct(q), ~PoAmong(q, e)
  PROVE  /\ Append(q, e) \in Seq(S) /\ Len(Append(q, e)) = Len(q) + 1 /\ Len(q) \in Nat
         /\ PoDistinct(Append(q, e))
         /\ \A x : PoAmong(Append(q, e), x) <=> PoAmong(q, x) \/ x = e
<1> DEFINE r == Append(q, e)
<1>1. r \in Seq(S) /\ Len(r) = Len(q) + 1 /\ Len(q) \in Nat /\ r[Len(q) + 1] = e
  OBVIOUS
<1> HIDE DEF r
<1>2. \A i \in 1..Len(q) : r[i] = q[i] /\ i \in 1..Len(r)
  BY <1>1 DEF r
<1>3. \A i \in 1..Len(r) : (i = Len(r) /\ r[i] = e) \/ (i \in 1..Len(q) /\ r[i] = q[i])
  <2>1. \A i \in 1..Len(r) : i = Len(r) \/ i \in 1..Len(q)
    BY <1>1
  <2> QED BY <1>1, <1>2, <2>1
<1>4. \A i \in 1..Len(q) : q[i] # e
  BY DEF PoAmong
<1>5. PoDistinct(r)
  <2> SUFFICES ASSUME NEW i \in 1..Len(r), NEW j \in 1..Len(r), r[i] = r[j] PROVE i = j
    BY DEF PoDistinct
  <2>1. (i = Len(r) /\ r[i] = e) \/ (i \in 1..Len(q) /\ r[i] = q[i])
    BY <1>3
  <2>2. (j = Len(r) /\ r[j] = e) \/ (j \in 1..Len(q) /\ r[j] = q[j])
    BY <1>3
  <2> QED BY <1>4, <2>1, <2>2 DEF PoDistinct
<1>6. ASSUME NEW x PROVE PoAmong(r, x) <=> PoAmong(q, x) \/ x = e
  <2>1. PoAmong(r, x) => PoAmong(q, x) \/ x = e
    BY <1>3 DEF PoAmong
  <2>2. PoAmong(q, x) => PoAmong(r, x)
    BY <1>2 DEF PoAmong
  <2>3. x = e => PoAmong(r, x)
    <3>1. Len(q) + 1 \in 1..Len(r)
      BY <1>1
    <3> QED BY <1>1, <3>1 DEF PoAmong
  <2> QED BY <2>1, <2>2, <2>3
<1> QED BY <1>1, <1>5, <1>6 DEF r

\* ... and Tail.
LEMMA PoTailed ==
  ASSUME NEW S, NEW q \in Seq(S), q # <<>>, PoDistinct(q)
  PROVE  /\ Tail(q) \in Seq(S) /\ Len(Tail(q)) = Len(q) - 1 /\ Len(q) \in Nat \ {0}
         /\ PoDistinct(Tail(q)) /\ Head(q) \in S /\ ~PoAmong(Tail(q), Head(q))
         /\ \A x : PoAmong(q, x) <=> PoAmong(Tail(q), x) \/ x = Head(q)
<1> DEFINE r == Tail(q)
<1>1. r \in Seq(S) /\ Len(r) = Len(q) - 1 /\ Len(q) \in Nat \ {0} /\ Head(q) = q[1] /\ q[1] \in S
  OBVIOUS
<1> HIDE DEF r
<1>2. \A i \in 1..Len(r) : r[i] = q[i + 1] /\ i + 1 \in 2..Len(q)
  BY <1>1 DEF r
<1>3. \A j \in 1..Len(q) : j = 1 \/ (j - 1 \in 1..Len(r) /\ r[j - 1] = q[j])
  <2> SUFFICES ASSUME NEW j \in 1..Len(q), j # 1 PROVE j - 1 \in 1..Len(r) /\ r[j - 1] = q[j]
    OBVIOUS
  <2>1. j - 1 \in 1..Len(r) /\ (j - 1) + 1 = j
    BY <1>1
  <2>2. r[j - 1] = q[(j - 1) + 1]
    BY <1>2, <2>1
  <2> QED BY <2>1, <2>2
<1>4. 1 \in 1..Len(q) /\ \A i \in 1..Len(r) : i + 1 \in 1..Len(q) /\ i + 1 # 1
  BY <1>1
<1>5. PoDistinct(r)
  <2> SUFFICES ASSUME NEW i \in 1..Len(r), NEW j \in 1..Len(r), r[i] = r[j] PROVE i = j
    BY DEF PoDistinct
  <2>1. i + 1 = j + 1
    BY <1>2, <1>4 DEF PoDistinct
  <2> QED BY <2>1
<1>6. ~PoAmong(r, Head(q))
  BY <1>1, <1>2, <1>4 DEF PoAmong, PoDistinct
<1>7. ASSUME NEW x PROVE PoAmong(q, x) <=> PoAmong(r, x) \/ x = Head(q)
  <2>1. PoAmong(q, x) => PoAmong(r, x) \/ x = Head(q)
    BY <1>1, <1>3 DEF PoAmong
  <2>2. PoAmong(r, x) => PoAmong(q, x)
    BY <1>2, <1>4 DEF PoAmong
  <2>3. x = Head(q) => PoAmong(q, x)
    BY <1>1, <1>4 DEF PoAmong
  <2> QED BY <2>1, <2>2, <2>3
<1> QED BY <1>1, <1>5, <1>6, <1>7 DEF r

\* Steps that leave all consumers where they are.
LEMMA PoPlacesKept ==
  ASSUME PoPlaces, poSet' = poSet, poQ' = poQ, poAdding' = poAdding,
         poIn' \cap PoConsumers = poIn \cap PoConsumers,
         \A t \in PoThreads : poT'[t].pc \in PoHand <=> poT[t].pc \in PoHand,
         \A t \in PoThreads : poT[t].pc \in PoHand => poT'[t].c = poT[t].c
  PROVE  PoPlaces' /\ \A t \in PoThreads, c \in PoConsumers : PoHas(t, c)' <=> PoHas(t, c)
<1>1. \A t \in PoThreads, c \in PoConsumers : PoHeld(t, c)' <=> PoHeld(t, c)
  BY DEF PoHeld
<1>2. \A t \in PoThreads, c \in PoConsumers : PoQueued(t, c)' <=> PoQueued(t, c)
  BY DEF PoQueued
<1>3. \A t \in PoThreads, c \in PoConsumers : PoHas(t, c)' <=> PoHas(t, c)
  BY <1>1, <1>2 DEF PoHas
<1>4. \A c : PoAffinity(c)' = PoAffinity(c)
  BY DEF PoAffinity
<1>5. \A c \in PoConsumers : c \in poIn' <=> c \in poIn
  OBVIOUS
<1>6. ASSUME NEW t \in PoThreads, NEW c \in PoConsumers PROVE PoPlaceOf(t, c)'
  <2>1. PoPlaceOf(t, c)
    BY DEF PoPlaces
  <2> QED BY <2>1, <1>1, <1>2, <1>3, <1>4, <1>5 DEF PoPlaceOf
<1>7. \A t \in PoThreads : poT'[t].pc \in PoHand => poT'[t].c \in PoConsumers
  BY DEF PoPlaces
<1>8. PoPlaces'
  BY <1>4, <1>5, <1>6, <1>7 DEF PoPlaces
<1> QED BY <1>3, <1>8

\* Steps after which the same threads have a consumer and the same ones gave it up.
LEMMA PoCountsKept ==
  ASSUME PoCounts, poSet' = poSet, poIn' \cap PoConsumers = poIn \cap PoConsumers,
         \A t \in PoThreads, c \in PoConsumers : PoHas(t, c)' <=> PoHas(t, c),
         poDropCount' = poDropCount, \A c \in PoConsumers : poDrops'[c] = poDrops[c],
         poStop => poStop',
         \A c \in PoConsumers : c \notin poIn => poLog'[c] = poLog[c] /\ poNext'[c] = poNext[c]
  PROVE  PoCounts'
<1> SUFFICES ASSUME NEW c \in PoConsumers PROVE PoCountOf(c)'
  BY DEF PoCounts
<1>1. PoCountOf(c) /\ (c \in poIn' <=> c \in poIn) /\ poDrops'[c] = poDrops[c]
  BY DEF PoCounts
<1>2. PoServers(c)' = PoServers(c)
  BY DEF PoServers, PoAffinity
<1>3. PoServers(c) \subseteq PoThreads
  BY DEF PoServers
<1>4. PoAway(c)' = PoAway(c)
  BY <1>2, <1>3 DEF PoAway
<1>5. CASE c \in poIn
  BY <1>1, <1>2, <1>4, <1>5 DEF PoCountOf
<1>6. CASE c \notin poIn
  BY <1>1, <1>2, <1>4, <1>6 DEF PoCountOf
<1> QED BY <1>5, <1>6

\* Steps that change neither nextSeq_ nor what was delivered.
LEMMA PoNumbersKept ==
  ASSUME PoNumbers, poNext' = poNext, poLog' = poLog,
         \A t \in PoThreads, c \in PoConsumers :
           PoHandles(t, c)' => PoHandles(t, c) /\ poT'[t].seen = poT[t].seen,
         \A t \in PoThreads, c \in PoConsumers :
           PoGivesUp(t, c)' => PoGivesUp(t, c) \/ poNext[c] = PoSTOP
  PROVE  PoNumbers'
<1>1. \A c \in PoConsumers : PoNumberOf(c)'
  BY DEF PoNumbers, PoNumberOf
<1>2. ASSUME NEW t \in PoThreads, NEW c \in PoConsumers PROVE PoHandOf(t, c)'
  <2>1. PoHandOf(t, c)
    BY DEF PoNumbers
  <2>2. PoHandles(t, c)' => /\ poNext'[c] = PoIGNORE
                            /\ poLog'[c] # <<>> => Last(poLog'[c]) = poT'[t].seen - 1
    BY <2>1 DEF PoHandOf
  <2>3. PoGivesUp(t, c)' => poNext'[c] = PoSTOP
    BY <2>1 DEF PoHandOf
  <2> QED BY <2>2, <2>3 DEF PoHandOf
<1>3. \A t, u \in PoThreads, c \in PoConsumers : PoHandles(t, c)' /\ PoHandles(u, c)' => t = u
  BY DEF PoNumbers
<1> QED BY <1>1, <1>2, <1>3 DEF PoNumbers

\* Steps that leave the tasks where they are.
LEMMA PoTasksKept ==
  ASSUME PoTasksOnce, poMQ' = poMQ, poMQ \in Seq(PoTasks), poIn' \cap PoTasks = poIn \cap PoTasks,
         \A t \in PoThreads : poT'[t].pc = "invoke" => poT[t].pc = "invoke" /\ poT'[t].c = poT[t].c
  PROVE  PoTasksOnce'
<1>1. \A m : PoAmong(poMQ, m) => m \in PoTasks
  BY DEF PoAmong
<1>2. \A m : PoAmong(poMQ, m) => m \in poIn'
  BY <1>1 DEF PoTasksOnce
<1>3. ASSUME NEW t \in PoThreads, poT'[t].pc = "invoke"
      PROVE  /\ poT'[t].c \in PoTasks /\ poT'[t].c \in poIn' /\ ~PoAmong(poMQ, poT'[t].c)
             /\ \A u \in PoThreads : poT'[u].pc = "invoke" /\ poT'[u].c = poT'[t].c => u = t
  BY <1>3 DEF PoTasksOnce, PoInvokes
<1> QED BY <1>2, <1>3 DEF PoTasksOnce, PoInvokes

\* Steps that neither end a thread nor stop the pool.
LEMMA PoEndsKept ==
  ASSUME PoEnds, poStop' = poStop, poLate \subseteq poLate',
         \A c \in PoConsumers : poAdding'[c] # {} /\ poStop => poAdding[c] # {} \/ c \in poLate',
         \A t \in PoThreads : poT'[t].pc \in PoEnding =>
           poT[t].pc \in PoEnding /\ poQ'[t] = poQ[t] /\ PoLeftIn(t)' = PoLeftIn(t)
             /\ (poT'[t].pc = "done" => poT[t].pc = "done"),
         poIn' \cap PoTasks \subseteq poIn \/ ~poStop
  PROVE  PoEnds'
<1>1. poStop' => \A c \in PoConsumers : poAdding'[c] # {} => c \in poLate'
  BY DEF PoEnds
<1>2. \A t \in PoThreads : poT'[t].pc \in PoEnding =>
        poStop' /\ \A i \in 1..Len(poQ'[t]) : PoLeftIn(t)' < i => poQ'[t][i] \in poLate'
  BY DEF PoEnds
<1>3. \A t \in PoThreads : poT'[t].pc = "done" => poIn' \cap PoTasks = {}
  BY DEF PoEnds, PoEnding
<1> QED BY <1>1, <1>2, <1>3 DEF PoEnds

\* A step of a thread changes its own record and queue.
LEMMA PoLimitsKept ==
  ASSUME PoTypes, PoLimits, NEW t \in PoThreads, poT[t].pc # "off",
         UNCHANGED <<poSet, poPhase, poSeq, poCur, poStop>>,
         \A c \in PoConsumers : PoIGNORE <= poNext'[c] /\ poNext'[c] <= poSeq,
         \A u \in PoThreads : u # t => poT'[u] = poT[u] /\ poQ'[u] = poQ[u],
         \A s \in PoSlots : Len(poQ'[s]) <= PoQueueCap, PoRoundOf(t)'
  PROVE  PoLimits'
<1>1. poPhase = "running"
  BY DEF PoLimits
<1>2. ASSUME NEW u \in PoThreads, u # t PROVE PoRoundOf(u)'
  BY <1>2 DEF PoLimits, PoRoundOf
<1> QED BY <1>1, <1>2 DEF PoLimits

\* A step of a thread after which it has the same consumer in its hands, if any.  What it
\* does to the consumer's number and log is for the step to show.
LEMMA PoHandKeeps ==
  ASSUME PoInv, NEW t \in PoThreads, NEW th \in PoThread, poT' = [poT EXCEPT ![t] = th],
         UNCHANGED <<poSet, poPhase, poSeq, poCur, poQ, poAdding, poDropCount, poIn, poMQ,
                     poStop, poDrops, poLate>>,
         poNext' \in [PoConsumers -> Int], poLog' \in [PoConsumers -> Seq(Int)],
         \A c \in PoConsumers : PoIGNORE <= poNext'[c] /\ poNext'[c] <= poSeq,
         \A c \in PoConsumers : c \notin poIn => poLog'[c] = poLog[c] /\ poNext'[c] = poNext[c],
         PoNumbers', PoRoundOf(t)',
         poT[t].pc # "off", th.pc \notin PoEnding \cup {"invoke"},
         th.pc \in PoHand <=> poT[t].pc \in PoHand,
         poT[t].pc \in PoHand => th.c = poT[t].c
  PROVE  PoInv'
<1>0. PoTypes /\ PoLimits /\ PoPlaces /\ PoCounts /\ PoTasksOnce /\ PoEnds
  BY DEF PoInv
<1>1. /\ poT' \in [PoThreads -> PoThread] /\ poT'[t] = th
      /\ \A u \in PoThreads : u # t => poT'[u] = poT[u]
  BY <1>0, PoReplaced DEF PoTypes
<1>2. PoTypes'
  BY <1>0, <1>1 DEF PoTypes
<1>3. PoPlaces' /\ \A u \in PoThreads, c \in PoConsumers : PoHas(u, c)' <=> PoHas(u, c)
  <2>1. \A u \in PoThreads : /\ poT'[u].pc \in PoHand <=> poT[u].pc \in PoHand
                             /\ poT[u].pc \in PoHand => poT'[u].c = poT[u].c
    BY <1>1
  <2> QED BY <1>0, <2>1, PoPlacesKept
<1>4. PoCounts'
  BY <1>0, <1>3, PoCountsKept
<1>6. PoTasksOnce'
  <2>1. \A u \in PoThreads :
          poT'[u].pc = "invoke" => poT[u].pc = "invoke" /\ poT'[u].c = poT[u].c
    BY <1>1
  <2> QED BY <1>0, <2>1, PoTasksKept DEF PoTypes
<1>7. PoEnds'
  <2>1. \A u \in PoThreads : poT'[u].pc \in PoEnding =>
          poT[u].pc \in PoEnding /\ poQ'[u] = poQ[u] /\ PoLeftIn(u)' = PoLeftIn(u)
            /\ (poT'[u].pc = "done" => poT[u].pc = "done")
    BY <1>1 DEF PoLeftIn
  <2> QED BY <1>0, <2>1, PoEndsKept
<1>8. PoLimits'
  <2>2. \A s \in PoSlots : Len(poQ'[s]) <= PoQueueCap
    BY <1>0 DEF PoLimits
  <2>3. \A u \in PoThreads : u # t => poT'[u] = poT[u] /\ poQ'[u] = poQ[u]
    BY <1>1
  <2> QED BY <1>0, <2>2, <2>3, PoLimitsKept
<1> QED BY <1>2, <1>3, <1>4, <1>6, <1>7, <1>8 DEF PoInv

\* Such a step that leaves numbers and logs alone.
LEMMA PoQuietKeeps ==
  ASSUME PoInv, NEW t \in PoThreads, NEW th \in PoThread, poT' = [poT EXCEPT ![t] = th],
         UNCHANGED <<poSet, poPhase, poSeq, poCur, poQ, poAdding, poNext, poDropCount, poIn, poMQ,
                     poStop, poCallbacks>>,
         poT[t].pc # "off", th.pc \notin PoEnding \cup {"handle", "invoke"},
         th.pc \in PoHand <=> poT[t].pc \in PoHand,
         poT[t].pc \in PoHand => th.c = poT[t].c,
         th.pc = "drop" \/ (th.pc \in {"starting", "look"} /\ ~th.ok) => poNext[th.c] = PoSTOP,
         PoRoundOf(t)'
  PROVE  PoInv'
<1>0. PoTypes /\ PoLimits /\ PoNumbers
  BY DEF PoInv
<1>1. poT'[t] = th /\ \A u \in PoThreads : u # t => poT'[u] = poT[u]
  BY <1>0, PoReplaced DEF PoTypes
<1>2. \A u \in PoThreads, c \in PoConsumers :
        PoHandles(u, c)' => PoHandles(u, c) /\ poT'[u].seen = poT[u].seen
  BY <1>1 DEF PoHandles, PoHeld
<1>3. \A u \in PoThreads, c \in PoConsumers :
        PoGivesUp(u, c)' => PoGivesUp(u, c) \/ poNext[c] = PoSTOP
  BY <1>1 DEF PoGivesUp, PoHeld
<1>4. PoNumbers'
  BY <1>0, <1>2, <1>3, PoNumbersKept DEF poCallbacks
<1>5. poNext' \in [PoConsumers -> Int] /\ poLog' \in [PoConsumers -> Seq(Int)]
  BY <1>0 DEF PoTypes, poCallbacks
<1>6. \A c \in PoConsumers : PoIGNORE <= poNext'[c] /\ poNext'[c] <= poSeq
  BY <1>0 DEF PoLimits
<1>7. UNCHANGED <<poSet, poPhase, poSeq, poCur, poQ, poAdding, poDropCount, poIn, poMQ,
                  poStop, poDrops, poLate>> /\ poLog' = poLog /\ poNext' = poNext
  BY DEF poCallbacks
<1> QED BY <1>4, <1>5, <1>6, <1>7, PoHandKeeps

\* The number and the log of one consumer change.
LEMMA PoNumberKept ==
  ASSUME PoNumbers, NEW c \in PoConsumers,
         \A d \in PoConsumers : d # c => poNext'[d] = poNext[d] /\ poLog'[d] = poLog[d],
         \A u \in PoThreads, d \in PoConsumers : d # c =>
           /\ PoHandles(u, d)' => PoHandles(u, d) /\ poT'[u].seen = poT[u].seen
           /\ PoGivesUp(u, d)' => PoGivesUp(u, d),
         PoNumberOf(c)', \A u \in PoThreads : PoHandOf(u, c)',
         \A u, v \in PoThreads : PoHandles(u, c)' /\ PoHandles(v, c)' => u = v
  PROVE  PoNumbers'
<1>1. ASSUME NEW d \in PoConsumers PROVE PoNumberOf(d)'
  <2>1. CASE d = c
    BY <2>1
  <2>2. CASE d # c
    BY <2>2 DEF PoNumbers, PoNumberOf
  <2> QED BY <2>1, <2>2
<1>2. ASSUME NEW u \in PoThreads, NEW d \in PoConsumers PROVE PoHandOf(u, d)'
  <2>1. CASE d = c
    BY <2>1
  <2>2. CASE d # c
    <3>0. PoHandOf(u, d)
      BY DEF PoNumbers
    <3>1. PoHandles(u, d)' => /\ poNext'[d] = PoIGNORE
                              /\ poLog'[d] # <<>> => Last(poLog'[d]) = poT'[u].seen - 1
      BY <2>2, <3>0 DEF PoHandOf
    <3>2. PoGivesUp(u, d)' => poNext'[d] = PoSTOP
      BY <2>2, <3>0 DEF PoHandOf
    <3> QED BY <3>1, <3>2 DEF PoHandOf
  <2> QED BY <2>1, <2>2
<1>3. ASSUME NEW u \in PoThreads, NEW v \in PoThreads, NEW d \in PoConsumers,
             PoHandles(u, d)', PoHandles(v, d)'
      PROVE  u = v
  <2>1. CASE d = c
    BY <1>3, <2>1
  <2>2. CASE d # c
    BY <1>3, <2>2 DEF PoNumbers
  <2> QED BY <2>1, <2>2
<1> QED BY <1>1, <1>2, <1>3 DEF PoNumbers

\* A thread goes on to the next consumer in its queue (PoNextVisit).
LEMMA PoNextVisitWhat ==
  ASSUME NEW th \in PoThread, NEW r,
         r = [th EXCEPT !.pc = "visit", !.c = "none", !.seen = PoNone, !.ok = TRUE]
  PROVE  /\ r \in PoThread /\ r.pc = "visit" /\ r.b = th.b /\ r.e = th.e /\ r.n = th.n
         /\ r.left = th.left /\ r.c = "none" /\ r.ok = TRUE
<1>1. "visit" \in PoPoints /\ PoNone \in Int /\ TRUE \in BOOLEAN /\ "none" \in PoAll \cup {"none"}
  BY DEF PoPoints, PoBusy, PoRound, PoNone
<1> QED BY <1>1 DEF PoThread

\* What a thread does with the number it read (PoReads).
LEMMA PoReadsWhat ==
  ASSUME NEW t \in PoThreads, NEW th \in PoThread, NEW s \in Int, th.b <= th.e
  PROVE  LET r == PoReads(t, th, s)
         IN  /\ r \in PoThread /\ r.pc \in {"claim", "drop", "keep"} /\ r.b = th.b /\ r.e = th.e
             /\ r.n = th.n /\ r.left = th.left /\ r.c = th.c /\ r.ok = th.ok
             /\ r.pc = "claim" => r.seen = s /\ th.b <= s /\ s <= th.e
             /\ r.pc = "drop" => s = PoSTOP \/ ~th.ok
<1> DEFINE r == PoReads(t, th, s)
<1> USE DEF PoPoints, PoBusy, PoRound, PoHand
<1> DEFINE d == PoDecision(s, th.b, th.e)
<1>1. th.b \in Int /\ th.e \in Int /\ th.ok \in BOOLEAN /\ d \in {"claim", "drop", "keep"}
  BY PoRecord DEF PoDecision
<1>2. d = "claim" => r = [th EXCEPT !.pc = "claim", !.seen = s] /\ th.b <= s /\ s <= th.e
  BY <1>1 DEF PoReads, PoDecision
<1>3. d = "drop" \/ (d = "keep" /\ ~th.ok) => r = [th EXCEPT !.pc = "drop"] /\ (s = PoSTOP \/ ~th.ok)
  BY <1>1 DEF PoReads, PoDecision
<1>4. d = "keep" /\ th.ok => r = [th EXCEPT !.pc = "keep"]
  BY DEF PoReads
<1> HIDE DEF d, r
<1>5. /\ r \in PoThread /\ r.pc \in {"claim", "drop", "keep"} /\ r.b = th.b /\ r.e = th.e
      /\ r.n = th.n /\ r.left = th.left /\ r.c = th.c /\ r.ok = th.ok
      /\ r.pc = "claim" => r.seen = s /\ th.b <= s /\ s <= th.e
      /\ r.pc = "drop" => s = PoSTOP \/ ~th.ok
  <2>1. CASE d = "claim"
    BY <1>2, <2>1 DEF PoThread
  <2>2. CASE d = "drop" \/ (d = "keep" /\ ~th.ok)
    BY <1>3, <2>2 DEF PoThread
  <2>3. CASE d = "keep" /\ th.ok
    BY <1>4, <2>3 DEF PoThread
  <2> QED BY <1>1, <2>1, <2>2, <2>3
<1> QED BY <1>5 DEF r

\* A thread looks at the ring and begins a round over its queue (PoPeek).
LEMMA PoPeekKeeps == ASSUME PoInv, NEW t \in PoThreads, PoPeek(t) PROVE PoInv'
<1> USE DEF PoPoints, PoBusy, PoRound, PoHand, PoEnding
<1>0. PoTypes /\ PoLimits /\ PoRoundOf(t) /\ poT[t] \in PoThread
  BY DEF PoInv, PoTypes, PoLimits
<1> DEFINE th == [poT[t] EXCEPT !.pc = "visit", !.b = PoCursor(t), !.e = poSeq,
                                !.n = Len(poQ[t]), !.left = Len(poQ[t])]
<1>1. poT' = [poT EXCEPT ![t] = th] /\ poT[t].pc = "loop"
  BY DEF PoPeek
<1>2. /\ t \in PoSlots /\ poSet.slot[t] \in PoSlots /\ Len(poQ[t]) \in Nat /\ poSeq \in Nat
      /\ PoCursor(t) \in Int
  BY <1>0, PoSetting DEF PoTypes, PoCursor
<1>3. /\ th \in PoThread /\ th.pc = "visit" /\ th.b = PoCursor(t) /\ th.e = poSeq
      /\ th.n = Len(poQ[t]) /\ th.left = Len(poQ[t])
  BY <1>0, <1>2 DEF PoThread
<1> HIDE DEF th
<1>4. poT'[t] = th
  BY <1>0, <1>1 DEF PoTypes
<1>5. 0 <= PoCursor(t) /\ PoCursor(t) <= poSeq
  BY <1>0, <1>1, <1>2 DEF PoLimits, PoRoundOf, PoCursor
<1>6. UNCHANGED <<poSet, poPhase, poSeq, poCur, poQ, poAdding, poNext, poDropCount, poIn, poMQ,
                  poStop, poCallbacks>>
  BY DEF PoPeek, poLife, poRing, poTasksVars
<1>7. PoRoundOf(t)'
  BY <1>2, <1>3, <1>4, <1>5, <1>6 DEF PoRoundOf, PoCursor
<1> QED BY <1>1, <1>3, <1>6, <1>7, PoQuietKeeps

\* The start callback returns (PoStartingOk).
LEMMA PoStartingOkKeeps == ASSUME PoInv, NEW t \in PoThreads, PoStartingOk(t) PROVE PoInv'
<1> USE DEF PoPoints, PoBusy, PoRound, PoHand, PoEnding
<1>0. PoTypes /\ PoLimits /\ PoRoundOf(t) /\ poT[t] \in PoThread /\ PoPlaces /\ PoNumbers
  BY DEF PoInv, PoTypes, PoLimits
<1> DEFINE th == [poT[t] EXCEPT !.pc = "look"]
<1>1. poT' = [poT EXCEPT ![t] = th] /\ poT[t].pc = "starting"
  BY DEF PoStartingOk, PoGoes
<1>3. /\ th \in PoThread /\ th.pc = "look" /\ th.b = poT[t].b /\ th.e = poT[t].e /\ th.c = poT[t].c
      /\ th.n = poT[t].n /\ th.left = poT[t].left /\ th.ok = poT[t].ok
  BY <1>0 DEF PoThread
<1> HIDE DEF th
<1>4. poT'[t] = th
  BY <1>0, <1>1 DEF PoTypes
<1>6. UNCHANGED <<poSet, poPhase, poSeq, poCur, poQ, poAdding, poNext, poDropCount, poIn, poMQ,
                  poStop, poCallbacks>>
  BY DEF PoStartingOk, poLife, poRing, poTasksVars
<1>5. ~th.ok => poNext[th.c] = PoSTOP
  <2>1. poT[t].c \in PoConsumers
    BY <1>0, <1>1 DEF PoPlaces
  <2>2. PoHandOf(t, poT[t].c)
    BY <1>0, <2>1 DEF PoNumbers
  <2> QED BY <1>1, <1>3, <2>2 DEF PoHandOf, PoGivesUp, PoHeld
<1>7. PoRoundOf(t)'
  BY <1>0, <1>1, <1>3, <1>4, <1>6 DEF PoRoundOf
<1> QED BY <1>1, <1>3, <1>5, <1>6, <1>7, PoQuietKeeps

\* nextSeq_ is read again after the start callback (PoLook).
LEMMA PoLookKeeps == ASSUME PoInv, NEW t \in PoThreads, PoLook(t) PROVE PoInv'
<1> USE DEF PoPoints, PoBusy, PoRound, PoHand, PoEnding
<1>0. PoTypes /\ PoLimits /\ PoRoundOf(t) /\ poT[t] \in PoThread /\ PoPlaces /\ PoNumbers
  BY DEF PoInv, PoTypes, PoLimits
<1> DEFINE c == poT[t].c
           th == PoReads(t, poT[t], poNext[c])
<1>1. poT' = [poT EXCEPT ![t] = th] /\ poT[t].pc = "look"
  BY DEF PoLook
<1>2. c \in PoConsumers /\ PoHandOf(t, c) /\ poNext[c] \in Int
  BY <1>0, <1>1 DEF PoPlaces, PoNumbers, PoTypes
<1>3. /\ th \in PoThread /\ th.pc \in {"claim", "drop", "keep"} /\ th.b = poT[t].b /\ th.e = poT[t].e
      /\ th.n = poT[t].n /\ th.left = poT[t].left /\ th.c = poT[t].c /\ th.ok = poT[t].ok
      /\ th.pc = "claim" => th.seen = poNext[c] /\ poT[t].b <= poNext[c] /\ poNext[c] <= poT[t].e
      /\ th.pc = "drop" => poNext[c] = PoSTOP \/ ~poT[t].ok
  <2>1. poT[t].b <= poT[t].e
    BY <1>0 DEF PoRoundOf
  <2> QED BY <1>0, <1>2, <2>1, PoReadsWhat
<1> HIDE DEF th
<1>4. poT'[t] = th
  BY <1>0, <1>1 DEF PoTypes
<1>6. UNCHANGED <<poSet, poPhase, poSeq, poCur, poQ, poAdding, poNext, poDropCount, poIn, poMQ,
                  poStop, poCallbacks>>
  BY DEF PoLook, poLife, poRing, poTasksVars
<1>5. th.pc = "drop" => poNext[c] = PoSTOP
  BY <1>1, <1>2, <1>3 DEF PoHandOf, PoGivesUp, PoHeld
<1>7. PoRoundOf(t)'
  BY <1>0, <1>1, <1>3, <1>4, <1>6 DEF PoRoundOf
<1>8. /\ th.pc \notin PoEnding \cup {"handle", "invoke"} /\ poT[t].pc # "off"
      /\ th.pc \in PoHand <=> poT[t].pc \in PoHand
      /\ poT[t].pc \in PoHand => th.c = poT[t].c
      /\ th.pc = "drop" \/ (th.pc \in {"starting", "look"} /\ ~th.ok) => poNext[th.c] = PoSTOP
  BY <1>1, <1>3, <1>5
<1> QED BY <1>1, <1>3, <1>6, <1>7, <1>8, PoQuietKeeps

\* A consumer that was put back is in all its queues again (PoResumedAll).
LEMMA PoResumedAllKeeps == ASSUME PoInv, NEW t \in PoThreads, PoResumedAll(t) PROVE PoInv'
<1> USE DEF PoPoints, PoBusy, PoRound, PoHand, PoEnding
<1>0. PoTypes /\ PoLimits /\ PoRoundOf(t) /\ poT[t] \in PoThread
  BY DEF PoInv, PoTypes, PoLimits
<1> DEFINE th == [poT[t] EXCEPT !.pc = "visit", !.c = "none", !.seen = PoNone, !.ok = TRUE]
<1>1. poT' = [poT EXCEPT ![t] = th] /\ poT[t].pc = "resuming"
  BY DEF PoResumedAll, PoNextVisit
<1>3. /\ th \in PoThread /\ th.pc = "visit" /\ th.b = poT[t].b /\ th.e = poT[t].e
      /\ th.n = poT[t].n /\ th.left = poT[t].left
  BY <1>0, PoNextVisitWhat
<1> HIDE DEF th
<1>4. poT'[t] = th
  BY <1>0, <1>1 DEF PoTypes
<1>6. UNCHANGED <<poSet, poPhase, poSeq, poCur, poQ, poAdding, poNext, poDropCount, poIn, poMQ,
                  poStop, poCallbacks>>
  BY DEF PoResumedAll, poLife, poRing, poTasksVars
<1>7. PoRoundOf(t)'
  BY <1>0, <1>1, <1>3, <1>4, <1>6 DEF PoRoundOf
<1> QED BY <1>1, <1>3, <1>6, <1>7, PoQuietKeeps

\* The compare-and-swap to IGNORE (PoClaim): only one thread can win it.
LEMMA PoClaimKeeps == ASSUME PoInv, NEW t \in PoThreads, PoClaim(t) PROVE PoInv'
<1> USE DEF PoPoints, PoBusy, PoRound, PoHand, PoEnding
<1>0. /\ PoTypes /\ PoLimits /\ PoRoundOf(t) /\ poT[t] \in PoThread /\ PoPlaces /\ PoNumbers
      /\ poT[t].pc = "claim"
  BY DEF PoInv, PoTypes, PoLimits, PoClaim
<1>2. PICK c \in PoConsumers : c = poT[t].c /\ c \in poIn
  BY <1>0 DEF PoPlaces, PoPlaceOf, PoHas, PoHeld
<1> DEFINE th == [poT[t] EXCEPT !.pc = IF PoClaims(t) THEN "handle" ELSE "keep"]
<1>1. poT' = [poT EXCEPT ![t] = th]
  BY DEF PoClaim, PoGoes
<1>3. /\ th \in PoThread /\ th.b = poT[t].b /\ th.e = poT[t].e /\ th.c = poT[t].c
      /\ th.n = poT[t].n /\ th.left = poT[t].left /\ th.ok = poT[t].ok /\ th.seen = poT[t].seen
      /\ th.pc = IF PoClaims(t) THEN "handle" ELSE "keep"
  BY <1>0 DEF PoThread
<1> HIDE DEF th
<1>4. poT'[t] = th /\ \A u \in PoThreads : u # t => poT'[u] = poT[u]
  BY <1>0, <1>1 DEF PoTypes
<1>6. UNCHANGED <<poSet, poPhase, poSeq, poCur, poQ, poAdding, poDropCount, poIn, poMQ,
                  poStop, poCallbacks>>
  BY DEF PoClaim, poLife, poRing, poTasksVars
<1>7. PoRoundOf(t)'
  BY <1>0, <1>3, <1>4, <1>6 DEF PoRoundOf
<1>8. CASE ~PoClaims(t)
  <2>1. poNext' = poNext
    BY <1>8 DEF PoClaim
  <2> QED BY <1>0, <1>1, <1>3, <1>6, <1>7, <1>8, <2>1, PoQuietKeeps
<1>9. CASE PoClaims(t)
  <2>1. poNext' = [poNext EXCEPT ![c] = PoIGNORE] /\ poNext[c] = poT[t].seen
    BY <1>2, <1>9 DEF PoClaim, PoClaims
  <2>2. PoIGNORE \in Int /\ 0 <= poNext[c] /\ poNext[c] \in Int /\ poSeq \in Nat
    BY <1>0, <1>2, <2>1, PoSetting DEF PoRoundOf, PoTypes, PoIGNORE, PoThread
  <2>3. /\ poNext' \in [PoConsumers -> Int] /\ poNext'[c] = PoIGNORE
        /\ \A d \in PoConsumers : d # c => poNext'[d] = poNext[d]
    BY <1>0, <1>2, <2>1, <2>2, PoReplaced DEF PoTypes
  <2>4. \A u \in PoThreads : ~PoHandles(u, c) /\ ~PoGivesUp(u, c)
    BY <1>0, <1>2, <2>2 DEF PoNumbers, PoHandOf, PoIGNORE, PoSTOP
  <2>5. \A u \in PoThreads : (PoHandles(u, c)' => u = t) /\ ~PoGivesUp(u, c)'
    BY <1>2, <1>3, <1>4, <1>9, <2>4 DEF PoHandles, PoGivesUp, PoHeld
  <2>6. PoNumberOf(c)'
    <3>1. PoNumberOf(c) /\ poLog' = poLog
      BY <1>0, <1>2, <1>6 DEF PoNumbers, poCallbacks
    <3>2. ~(poNext'[c] >= 0) /\ poNext'[c] # PoNone
      BY <2>3 DEF PoIGNORE, PoNone
    <3> QED BY <3>1, <3>2 DEF PoNumberOf
  <2>7. poLog[c] # <<>> => Last(poLog[c]) = poT[t].seen - 1
    BY <1>0, <1>2, <2>1, <2>2 DEF PoNumbers, PoNumberOf
  <2>8. \A u \in PoThreads : PoHandOf(u, c)'
    BY <1>2, <1>3, <1>4, <1>6, <2>3, <2>5, <2>7 DEF PoHandOf, poCallbacks
  <2>9. \A u \in PoThreads, d \in PoConsumers : d # c =>
          /\ PoHandles(u, d)' => PoHandles(u, d) /\ poT'[u].seen = poT[u].seen
          /\ PoGivesUp(u, d)' => PoGivesUp(u, d)
    BY <1>2, <1>3, <1>4, <1>9 DEF PoHandles, PoGivesUp, PoHeld
  <2>10. PoNumbers'
    <3>1. \A d \in PoConsumers : d # c => poNext'[d] = poNext[d] /\ poLog'[d] = poLog[d]
      BY <1>6, <2>3 DEF poCallbacks
    <3>2. \A u, v \in PoThreads : PoHandles(u, c)' /\ PoHandles(v, c)' => u = v
      BY <2>5
    <3> QED BY <1>0, <1>2, <2>6, <2>8, <2>9, <3>1, <3>2, PoNumberKept
  <2>11. \A d \in PoConsumers : PoIGNORE <= poNext'[d] /\ poNext'[d] <= poSeq
    BY <1>0, <2>2, <2>3 DEF PoLimits, PoIGNORE
  <2>12. /\ UNCHANGED <<poSet, poPhase, poSeq, poCur, poQ, poAdding, poDropCount, poIn, poMQ,
                        poStop, poDrops, poLate>>
         /\ poLog' = poLog /\ poLog' \in [PoConsumers -> Seq(Int)]
    BY <1>0, <1>6 DEF poCallbacks, PoTypes
  <2>13. \A d \in PoConsumers : d \notin poIn => poLog'[d] = poLog[d] /\ poNext'[d] = poNext[d]
    BY <1>2, <2>3, <2>12
  <2>14. /\ th.pc \notin PoEnding \cup {"invoke"} /\ th.pc \in PoHand /\ poT[t].pc \in PoHand
         /\ poT[t].pc # "off" /\ th.c = poT[t].c
    BY <1>0, <1>3, <1>9
  <2> QED BY <1>1, <1>3, <1>7, <2>3, <2>10, <2>11, <2>12, <2>13, <2>14, PoHandKeeps
<1> QED BY <1>8, <1>9

\* Two logs, one after the other.
LEMMA PoConcat ==
  ASSUME NEW s \in Seq(Int), NEW e \in Seq(Int), NEW r, r = s \o e
  PROVE  /\ r \in Seq(Int) /\ Len(r) = Len(s) + Len(e) /\ Len(s) \in Nat /\ Len(e) \in Nat
         /\ \A i \in 1..Len(s) : r[i] = s[i]
         /\ \A j \in (Len(s) + 1)..(Len(s) + Len(e)) : r[j] = e[j - Len(s)]
<1>1. r \in Seq(Int) /\ Len(r) = Len(s) + Len(e) /\ Len(s) \in Nat /\ Len(e) \in Nat
  OBVIOUS
<1>2. \A i \in 1..Len(s) : r[i] = s[i]
  BY <1>1
<1>3. \A j \in (Len(s) + 1)..(Len(s) + Len(e)) : r[j] = e[j - Len(s)]
  BY <1>1, ConcatProperties
<1> QED BY <1>1, <1>2, <1>3

\* A log that goes on with consecutive numbers.
LEMMA PoRun ==
  ASSUME NEW s \in Seq(Int), NEW k \in Nat, NEW a \in Int, s # <<>> => Last(s) = a - 1,
         PoConsecutive(s), NEW e, e = [i \in 1..k |-> a + i - 1], NEW r, r = s \o e
  PROVE  r \in Seq(Int) /\ PoConsecutive(r) /\ (r # <<>> => Last(r) = a + k - 1)
<1>1. e \in Seq(Int) /\ Len(e) = k /\ \A i \in 1..k : e[i] = a + i - 1
  OBVIOUS
<1>2. /\ r \in Seq(Int) /\ Len(r) = Len(s) + k /\ Len(s) \in Nat
      /\ \A i \in 1..Len(s) : r[i] = s[i]
  BY <1>1, PoConcat
<1>3. \A j \in (Len(s) + 1)..(Len(s) + k) : r[j] = e[j - Len(s)]
  BY <1>1, PoConcat
<1>4. \A j \in (Len(s) + 1)..(Len(s) + k) : r[j] = a + j - Len(s) - 1
  <2> SUFFICES ASSUME NEW j \in (Len(s) + 1)..(Len(s) + k) PROVE r[j] = a + j - Len(s) - 1
    OBVIOUS
  <2>1. j - Len(s) \in 1..k
    BY <1>2
  <2> QED BY <1>1, <1>2, <1>3, <2>1
<1>5. s # <<>> => Len(s) > 0 /\ s[Len(s)] = a - 1
  BY DEF Last
<1>6. ASSUME NEW i \in 1..(Len(r) - 1) PROVE r[i + 1] = r[i] + 1
  <2>0. i \in Int /\ 1 <= i /\ i < Len(s) + k
    BY <1>2
  <2>1. CASE i < Len(s)
    <3>1. i \in 1..(Len(s) - 1) /\ i \in 1..Len(s) /\ i + 1 \in 1..Len(s)
      BY <1>2, <2>0, <2>1
    <3> QED BY <1>2, <3>1 DEF PoConsecutive
  <2>2. CASE i = Len(s)
    <3>1. i \in 1..Len(s) /\ i + 1 \in (Len(s) + 1)..(Len(s) + k) /\ s # <<>>
      BY <1>2, <2>0, <2>2
    <3>2. r[i] = a - 1
      BY <1>2, <1>5, <2>2, <3>1
    <3>3. r[i + 1] = a
      BY <1>2, <1>4, <2>2, <3>1
    <3> QED BY <3>2, <3>3
  <2>3. CASE i > Len(s)
    <3> DEFINE n == Len(s)
    <3>0. n \in Int /\ k \in Int /\ a \in Int /\ i \in Int /\ n + 1 <= i /\ i + 1 <= n + k
      BY <1>2, <2>0, <2>3
    <3>2. r[i] = a + i - n - 1 /\ r[i + 1] = a + (i + 1) - n - 1
      <4> HIDE DEF n
      <4>1. i \in (n + 1)..(n + k) /\ i + 1 \in (n + 1)..(n + k)
        BY <3>0
      <4> QED BY <1>4, <4>1 DEF n
    <3> HIDE DEF n
    <3> QED BY <3>0, <3>2
  <2> QED BY <1>2, <2>0, <2>1, <2>2, <2>3
<1>7. r # <<>> => Last(r) = a + k - 1
  <2>1. CASE k = 0
    <3>1. Len(r) = Len(s) /\ (r # <<>> => Len(s) > 0)
      BY <1>2, <2>1
    <3>2. r # <<>> => Len(s) \in 1..Len(s)
      BY <1>2, <3>1
    <3> QED BY <1>2, <1>5, <2>1, <3>1, <3>2 DEF Last
  <2>2. CASE k > 0
    <3>1. Len(r) \in (Len(s) + 1)..(Len(s) + k)
      BY <1>2, <2>2
    <3>2. r[Len(r)] = a + Len(r) - Len(s) - 1
      BY <1>4, <3>1
    <3> QED BY <1>2, <3>2 DEF Last
  <2> QED BY <2>1, <2>2
<1> QED BY <1>2, <1>6, <1>7 DEF PoConsecutive

\* The start callback throws: nextSeq_ becomes STOP, and no other thread serves the consumer
\* (PoStartingThrows).
LEMMA PoStartingThrowsKeeps == ASSUME PoInv, NEW t \in PoThreads, PoStartingThrows(t) PROVE PoInv'
<1> USE DEF PoPoints, PoBusy, PoRound, PoHand, PoEnding
<1>0. /\ PoTypes /\ PoLimits /\ PoRoundOf(t) /\ poT[t] \in PoThread /\ PoPlaces /\ PoNumbers
      /\ poT[t].pc = "starting"
  BY DEF PoInv, PoTypes, PoLimits, PoStartingThrows
<1>2. PICK c \in PoConsumers : c = poT[t].c /\ c \in poIn /\ t \in PoAffinity(c)
  BY <1>0 DEF PoPlaces, PoPlaceOf, PoHas, PoHeld
<1> DEFINE th == [poT[t] EXCEPT !.pc = "look", !.ok = FALSE]
<1>1. poT' = [poT EXCEPT ![t] = th]
  BY DEF PoStartingThrows
<1>3. /\ th \in PoThread /\ th.b = poT[t].b /\ th.e = poT[t].e /\ th.c = poT[t].c
      /\ th.n = poT[t].n /\ th.left = poT[t].left /\ th.pc = "look"
  BY <1>0 DEF PoThread
<1> HIDE DEF th
<1>4. poT'[t] = th /\ \A u \in PoThreads : u # t => poT'[u] = poT[u]
  BY <1>0, <1>1 DEF PoTypes
<1>6. /\ UNCHANGED <<poSet, poPhase, poSeq, poCur, poQ, poAdding, poDropCount, poIn, poMQ,
                     poStop, poDrops, poLate>>
      /\ poLog' = poLog
  BY DEF PoStartingThrows, poLife, poRing, poTasksVars, poCallbacks
<1>7. PoRoundOf(t)'
  BY <1>0, <1>3, <1>4, <1>6 DEF PoRoundOf
<1>8. \A u \in PoThreads : PoHeld(u, c) => u = t
  <2>1. Cardinality(PoServers(c)) = 1 /\ IsFiniteSet(PoThreads)
    BY <1>0, <1>2, PoSetting DEF PoStartingThrows, PoTypes
  <2>2. t \in PoServers(c) /\ IsFiniteSet(PoServers(c)) /\ IsFiniteSet({t}) /\ Cardinality({t}) = 1
    BY <1>2, <2>1, FS_Subset, FS_Singleton DEF PoServers
  <2>3. PoServers(c) = {t}
    BY <2>1, <2>2, FS_Subset
  <2>4. \A u \in PoThreads : PoHeld(u, c) => u \in PoServers(c)
    BY <1>0 DEF PoPlaces, PoPlaceOf, PoHas, PoServers
  <2> QED BY <2>3, <2>4
<1>9. PoSTOP \in Int /\ poNext' = [poNext EXCEPT ![c] = PoSTOP]
  BY <1>2 DEF PoStartingThrows, PoSTOP
<1>10. /\ poNext' \in [PoConsumers -> Int] /\ poNext'[c] = PoSTOP
       /\ \A d \in PoConsumers : d # c => poNext'[d] = poNext[d]
  BY <1>0, <1>2, <1>9, PoReplaced DEF PoTypes
<1>11. \A u \in PoThreads : ~PoHandles(u, c)'
  BY <1>2, <1>3, <1>4, <1>8 DEF PoHandles, PoHeld
<1>12. PoNumberOf(c)'
  <2>1. PoNumberOf(c) /\ ~(poNext'[c] >= 0) /\ poNext'[c] # PoNone
    BY <1>0, <1>2, <1>10 DEF PoNumbers, PoSTOP, PoNone
  <2> QED BY <1>6, <2>1 DEF PoNumberOf
<1>13. \A u \in PoThreads : PoHandOf(u, c)'
  BY <1>10, <1>11 DEF PoHandOf
<1>14. \A u \in PoThreads, d \in PoConsumers : d # c =>
         /\ PoHandles(u, d)' => PoHandles(u, d) /\ poT'[u].seen = poT[u].seen
         /\ PoGivesUp(u, d)' => PoGivesUp(u, d)
  BY <1>2, <1>3, <1>4 DEF PoHandles, PoGivesUp, PoHeld
<1>15. PoNumbers'
  <2>1. \A d \in PoConsumers : d # c => poNext'[d] = poNext[d] /\ poLog'[d] = poLog[d]
    BY <1>6, <1>10
  <2> QED BY <1>0, <1>11, <1>12, <1>13, <1>14, <2>1, PoNumberKept
<1>16. \A d \in PoConsumers : PoIGNORE <= poNext'[d] /\ poNext'[d] <= poSeq
  <2>1. PoIGNORE <= PoSTOP /\ PoSTOP <= poSeq
    BY <1>0, PoSeqNat DEF PoIGNORE, PoSTOP
  <2> QED BY <1>0, <1>10, <2>1 DEF PoLimits
<1>17. \A d \in PoConsumers : d \notin poIn => poLog'[d] = poLog[d] /\ poNext'[d] = poNext[d]
  BY <1>2, <1>6, <1>10
<1>18. /\ th.pc \notin PoEnding \cup {"invoke"} /\ th.pc \in PoHand /\ poT[t].pc \in PoHand
       /\ poT[t].pc # "off" /\ th.c = poT[t].c /\ poLog' \in [PoConsumers -> Seq(Int)]
  BY <1>0, <1>3, <1>6 DEF PoTypes
<1> QED BY <1>1, <1>3, <1>6, <1>7, <1>10, <1>15, <1>16, <1>17, <1>18, PoHandKeeps

\* The message callback throws after some messages (PoHandleThrows).
LEMMA PoHandleThrowsKeeps == ASSUME PoInv, NEW t \in PoThreads, PoHandleThrows(t) PROVE PoInv'
<1> USE DEF PoPoints, PoBusy, PoRound, PoHand, PoEnding
<1>0. /\ PoTypes /\ PoLimits /\ PoRoundOf(t) /\ poT[t] \in PoThread /\ PoPlaces /\ PoNumbers
      /\ poT[t].pc = "handle"
  BY DEF PoInv, PoTypes, PoLimits, PoHandleThrows
<1>2. PICK c \in PoConsumers : c = poT[t].c /\ c \in poIn /\ PoHandles(t, c)
  BY <1>0 DEF PoPlaces, PoPlaceOf, PoHas, PoHandles, PoHeld
<1> DEFINE th == [poT[t] EXCEPT !.pc = "drop"]
<1>1. poT' = [poT EXCEPT ![t] = th]
  BY DEF PoHandleThrows, PoGoes
<1>3. /\ th \in PoThread /\ th.b = poT[t].b /\ th.e = poT[t].e /\ th.c = poT[t].c
      /\ th.n = poT[t].n /\ th.left = poT[t].left /\ th.pc = "drop"
  BY <1>0 DEF PoThread
<1> HIDE DEF th
<1>4. poT'[t] = th /\ \A u \in PoThreads : u # t => poT'[u] = poT[u]
  BY <1>0, <1>1 DEF PoTypes
<1>6. UNCHANGED <<poSet, poPhase, poSeq, poCur, poQ, poAdding, poDropCount, poIn, poMQ,
                  poStop, poDrops, poLate>>
  BY DEF PoHandleThrows, poLife, poRing, poTasksVars
<1>7. PoRoundOf(t)'
  BY <1>0, <1>3, <1>4, <1>6 DEF PoRoundOf
<1>8. PICK k \in 0..(poT[t].e - poT[t].seen) :
        poLog' = [poLog EXCEPT ![c] = @ \o [i \in 1..k |-> poT[t].seen + i - 1]]
  BY <1>2 DEF PoHandleThrows
<1>5. k \in Nat /\ poT[t].seen \in Int /\ poLog[c] \in Seq(Int)
  BY <1>0, <1>2, <1>8 DEF PoTypes, PoThread
<1>19. PICK run : run = [i \in 1..k |-> poT[t].seen + i - 1]
  OBVIOUS
<1>27. PICK new : new = poLog[c] \o run
  OBVIOUS
<1>20. PoHandOf(t, c) /\ PoNumberOf(c)
  BY <1>0, <1>2 DEF PoNumbers
<1>21. poLog[c] # <<>> => Last(poLog[c]) = poT[t].seen - 1
  BY <1>2, <1>20 DEF PoHandOf
<1>22. PoConsecutive(poLog[c])
  BY <1>20 DEF PoNumberOf
<1>23. new \in Seq(Int) /\ PoConsecutive(new)
  BY <1>5, <1>19, <1>21, <1>22, <1>27, PoRun
<1>24. poLog' = [poLog EXCEPT ![c] = new]
  BY <1>8, <1>19, <1>27
<1>25. /\ poLog' \in [PoConsumers -> Seq(Int)] /\ poLog'[c] = new
       /\ \A d \in PoConsumers : d # c => poLog'[d] = poLog[d]
  BY <1>0, <1>2, <1>23, <1>24, PoReplaced DEF PoTypes
<1>9. PoSTOP \in Int /\ poNext' = [poNext EXCEPT ![c] = PoSTOP]
  BY <1>2 DEF PoHandleThrows, PoSTOP
<1>10. /\ poNext' \in [PoConsumers -> Int] /\ poNext'[c] = PoSTOP
       /\ \A d \in PoConsumers : d # c => poNext'[d] = poNext[d]
  BY <1>0, <1>2, <1>9, PoReplaced DEF PoTypes
<1>11. \A u \in PoThreads : ~PoHandles(u, c)'
  <2>1. \A u \in PoThreads : PoHandles(u, c) => u = t
    BY <1>0, <1>2 DEF PoNumbers
  <2> QED BY <1>2, <1>3, <1>4, <2>1 DEF PoHandles, PoHeld
<1>12. PoNumberOf(c)'
  <2>1. ~(poNext'[c] >= 0) /\ poNext'[c] # PoNone
    BY <1>10 DEF PoSTOP, PoNone
  <2> QED BY <1>23, <1>25, <2>1 DEF PoNumberOf
<1>13. \A u \in PoThreads : PoHandOf(u, c)'
  BY <1>10, <1>11 DEF PoHandOf
<1>14. \A u \in PoThreads, d \in PoConsumers : d # c =>
         /\ PoHandles(u, d)' => PoHandles(u, d) /\ poT'[u].seen = poT[u].seen
         /\ PoGivesUp(u, d)' => PoGivesUp(u, d)
  BY <1>2, <1>3, <1>4 DEF PoHandles, PoGivesUp, PoHeld
<1>15. PoNumbers'
  <2>1. \A d \in PoConsumers : d # c => poNext'[d] = poNext[d] /\ poLog'[d] = poLog[d]
    BY <1>10, <1>25
  <2> QED BY <1>0, <1>11, <1>12, <1>13, <1>14, <2>1, PoNumberKept
<1>16. \A d \in PoConsumers : PoIGNORE <= poNext'[d] /\ poNext'[d] <= poSeq
  <2>1. PoIGNORE <= PoSTOP /\ PoSTOP <= poSeq
    BY <1>0, PoSeqNat DEF PoIGNORE, PoSTOP
  <2> QED BY <1>0, <1>10, <2>1 DEF PoLimits
<1>17. \A d \in PoConsumers : d \notin poIn => poLog'[d] = poLog[d] /\ poNext'[d] = poNext[d]
  BY <1>2, <1>10, <1>25
<1>18. /\ th.pc \notin PoEnding \cup {"invoke"} /\ th.pc \in PoHand /\ poT[t].pc \in PoHand
       /\ poT[t].pc # "off" /\ th.c = poT[t].c
  BY <1>0, <1>3
<1> QED BY <1>1, <1>3, <1>6, <1>7, <1>10, <1>15, <1>16, <1>17, <1>18, <1>25, PoHandKeeps

\* A thread takes a consumer from its queue, puts it back or changes the order.
LEMMA PoMoveKeeps ==
  ASSUME PoInv, NEW t \in PoThreads, NEW th \in PoThread, poT' = [poT EXCEPT ![t] = th],
         NEW q \in Seq(PoConsumers), poQ' = [poQ EXCEPT ![t] = q],
         Len(q) <= PoQueueCap, PoDistinct(q),
         UNCHANGED <<poSet, poPhase, poSeq, poCur, poAdding, poDropCount, poIn, poMQ,
                     poStop, poDrops, poLate>>,
         poNext' \in [PoConsumers -> Int], poLog' \in [PoConsumers -> Seq(Int)],
         \A c \in PoConsumers : PoIGNORE <= poNext'[c] /\ poNext'[c] <= poSeq,
         \A c \in PoConsumers : c \notin poIn => poLog'[c] = poLog[c] /\ poNext'[c] = poNext[c],
         PoNumbers', PoRoundOf(t)',
         poT[t].pc # "off", th.pc \notin PoEnding \cup {"invoke"},
         th.pc \in PoHand => th.c \in PoConsumers,
         \A c \in PoConsumers : PoQueued(t, c) \/ PoHeld(t, c) <=>
                                  PoAmong(q, c) \/ (th.pc \in PoHand /\ th.c = c),
         th.pc \in PoHand => ~PoAmong(q, th.c)
  PROVE  PoInv'
<1>0. PoTypes /\ PoLimits /\ PoPlaces /\ PoCounts /\ PoTasksOnce /\ PoEnds
  BY DEF PoInv
<1>1. /\ poT' \in [PoThreads -> PoThread] /\ poT'[t] = th
      /\ \A u \in PoThreads : u # t => poT'[u] = poT[u]
  BY <1>0, PoReplaced DEF PoTypes
<1>2. PoThreads \subseteq PoSlots /\ t \in PoSlots
  BY <1>0, PoSetting DEF PoTypes
<1>3. /\ poQ' \in [PoSlots -> Seq(PoConsumers)] /\ poQ'[t] = q
      /\ \A s \in PoSlots : s # t => poQ'[s] = poQ[s]
  BY <1>0, <1>2, PoReplaced DEF PoTypes
<1>4. PoTypes'
  BY <1>0, <1>1, <1>3 DEF PoTypes
<1>5. \A u \in PoThreads, c \in PoConsumers :
        u # t => (PoHeld(u, c)' <=> PoHeld(u, c)) /\ (PoQueued(u, c)' <=> PoQueued(u, c))
  BY <1>1, <1>2, <1>3 DEF PoHeld, PoQueued
<1>6. \A c \in PoConsumers : /\ PoQueued(t, c)' <=> PoAmong(q, c)
                             /\ PoHeld(t, c)' <=> th.pc \in PoHand /\ th.c = c
  BY <1>1, <1>3 DEF PoHeld, PoQueued
<1>7. \A u \in PoThreads, c \in PoConsumers : PoHas(u, c)' <=> PoHas(u, c)
  BY <1>5, <1>6 DEF PoHas
<1>8. PoPlaces'
  <2>1. \A u \in PoThreads : PoDistinct(poQ'[u])
    BY <1>0, <1>2, <1>3 DEF PoPlaces
  <2>2. \A u \in PoThreads : poT'[u].pc \in PoHand => poT'[u].c \in PoConsumers
    BY <1>0, <1>1 DEF PoPlaces
  <2>3. ASSUME NEW u \in PoThreads, NEW c \in PoConsumers PROVE PoPlaceOf(u, c)'
    <3>1. PoPlaceOf(u, c) /\ PoAffinity(c)' = PoAffinity(c)
      BY <1>0 DEF PoPlaces, PoAffinity
    <3>2. CASE u = t
      BY <1>6, <1>7, <3>1, <3>2 DEF PoPlaceOf
    <3>3. CASE u # t
      BY <1>5, <1>7, <3>1, <3>3 DEF PoPlaceOf
    <3> QED BY <3>2, <3>3
  <2> QED BY <1>0, <2>1, <2>2, <2>3 DEF PoPlaces, PoAffinity
<1>9. PoCounts'
  BY <1>0, <1>7, PoCountsKept
<1>10. PoTasksOnce'
  <2>1. \A u \in PoThreads :
          poT'[u].pc = "invoke" => poT[u].pc = "invoke" /\ poT'[u].c = poT[u].c
    BY <1>1
  <2> QED BY <1>0, <2>1, PoTasksKept DEF PoTypes
<1>11. PoEnds'
  <2>1. \A u \in PoThreads : poT'[u].pc \in PoEnding =>
          poT[u].pc \in PoEnding /\ poQ'[u] = poQ[u] /\ PoLeftIn(u)' = PoLeftIn(u)
            /\ (poT'[u].pc = "done" => poT[u].pc = "done")
    BY <1>1, <1>2, <1>3 DEF PoLeftIn
  <2> QED BY <1>0, <2>1, PoEndsKept
<1>12. PoLimits'
  <2>2. \A s \in PoSlots : Len(poQ'[s]) <= PoQueueCap
    BY <1>0, <1>3 DEF PoLimits
  <2>3. \A u \in PoThreads : u # t => poT'[u] = poT[u] /\ poQ'[u] = poQ[u]
    BY <1>1, <1>2, <1>3
  <2> QED BY <1>0, <2>2, <2>3, PoLimitsKept
<1> QED BY <1>4, <1>8, <1>9, <1>10, <1>11, <1>12 DEF PoInv

\* A function that puts a queue in another order reaches all of it.
LEMMA PoShuffled ==
  ASSUME NEW n \in Nat, NEW f \in [1..n -> 1..n], IsInjective(f)
  PROVE  \A k \in 1..n : \E i \in 1..n : f[i] = k
<1>1. IsFiniteSet(1..n)
  BY FS_Interval
<1>2. f \in Injection(1..n, 1..n)
  BY DEF Injection
<1>3. f \in Surjection(1..n, 1..n)
  BY <1>1, <1>2, FS_Injection
<1> QED BY <1>3 DEF Surjection

\* The initial consumers are put in a random order (PoShuffle).
LEMMA PoShuffleKeeps == ASSUME PoInv, NEW t \in PoThreads, PoShuffle(t) PROVE PoInv'
<1> USE DEF PoPoints, PoBusy, PoRound, PoHand, PoEnding
<1>0. /\ PoTypes /\ PoLimits /\ PoRoundOf(t) /\ poT[t] \in PoThread /\ PoPlaces /\ PoNumbers
      /\ poT[t].pc = "shuffle"
  BY DEF PoInv, PoTypes, PoLimits, PoShuffle
<1>1. t \in PoSlots /\ poQ[t] \in Seq(PoConsumers) /\ Len(poQ[t]) <= PoQueueCap
      /\ PoDistinct(poQ[t])
  BY <1>0, PoSetting DEF PoTypes, PoLimits, PoPlaces
<1>2. PICK f \in [1..Len(poQ[t]) -> 1..Len(poQ[t])] :
        /\ \A i, j \in DOMAIN f : f[i] = f[j] => i = j
        /\ poQ' = [poQ EXCEPT ![t] = [i \in DOMAIN f |-> poQ[t][f[i]]]]
  BY DEF PoShuffle
<1>3. PICK q : q = [i \in DOMAIN f |-> poQ[t][f[i]]]
  OBVIOUS
<1>4. /\ q \in Seq(PoConsumers) /\ Len(q) = Len(poQ[t]) /\ PoDistinct(q)
      /\ \A x : PoAmong(q, x) <=> PoAmong(poQ[t], x)
  <2> DEFINE n == Len(poQ[t])
  <2>1. /\ n \in Nat /\ q \in [1..n -> PoConsumers] /\ \A i \in 1..n : q[i] = poQ[t][f[i]]
    BY <1>1, <1>2, <1>3
  <2>2. q \in Seq(PoConsumers) /\ Len(q) = n
    BY <2>1
  <2>3. IsInjective(f)
    BY <1>2 DEF IsInjective
  <2>4. \A k \in 1..n : \E i \in 1..n : f[i] = k
    BY <2>1, <2>3, PoShuffled
  <2>5. PoDistinct(q)
    BY <1>1, <1>2, <2>1, <2>2 DEF PoDistinct
  <2>6. \A x : PoAmong(q, x) => PoAmong(poQ[t], x)
    BY <1>2, <2>1, <2>2 DEF PoAmong
  <2>7. \A x : PoAmong(poQ[t], x) => PoAmong(q, x)
    <3> SUFFICES ASSUME NEW k \in 1..n PROVE PoAmong(q, poQ[t][k])
      BY DEF PoAmong
    <3>1. PICK i \in 1..n : f[i] = k
      BY <2>4
    <3> QED BY <2>1, <2>2, <3>1 DEF PoAmong
  <2> QED BY <2>2, <2>5, <2>6, <2>7
<1> DEFINE th == [poT[t] EXCEPT !.pc = "loop"]
<1>5. poT' = [poT EXCEPT ![t] = th] /\ poQ' = [poQ EXCEPT ![t] = q]
  BY <1>2, <1>3 DEF PoShuffle, PoGoes
<1>6. /\ th \in PoThread /\ th.b = poT[t].b /\ th.e = poT[t].e
      /\ th.n = poT[t].n /\ th.left = poT[t].left /\ th.pc = "loop"
  BY <1>0 DEF PoThread
<1> HIDE DEF th
<1>7. poT'[t] = th /\ \A u \in PoThreads : u # t => poT'[u] = poT[u]
  BY <1>0, <1>5 DEF PoTypes
<1>8. /\ UNCHANGED <<poSet, poPhase, poSeq, poCur, poAdding, poDropCount, poIn, poMQ,
                     poStop, poDrops, poLate>>
      /\ poLog' = poLog /\ poNext' = poNext
  BY DEF PoShuffle, poLife, poRing, poTasksVars, poCallbacks
<1>9. PoRoundOf(t)'
  BY <1>0, <1>6, <1>7, <1>8 DEF PoRoundOf
<1>10. PoNumbers'
  <2>1. \A u \in PoThreads, c \in PoConsumers :
          PoHandles(u, c)' => PoHandles(u, c) /\ poT'[u].seen = poT[u].seen
    BY <1>6, <1>7 DEF PoHandles, PoHeld
  <2>2. \A u \in PoThreads, c \in PoConsumers :
          PoGivesUp(u, c)' => PoGivesUp(u, c) \/ poNext[c] = PoSTOP
    BY <1>6, <1>7 DEF PoGivesUp, PoHeld
  <2> QED BY <1>0, <1>8, <2>1, <2>2, PoNumbersKept
<1>11. poNext' \in [PoConsumers -> Int] /\ poLog' \in [PoConsumers -> Seq(Int)]
  BY <1>0, <1>8 DEF PoTypes
<1>12. \A c \in PoConsumers : PoIGNORE <= poNext'[c] /\ poNext'[c] <= poSeq
  BY <1>0, <1>8 DEF PoLimits
<1>13. \A c \in PoConsumers : PoQueued(t, c) \/ PoHeld(t, c) <=>
                                PoAmong(q, c) \/ (th.pc \in PoHand /\ th.c = c)
  BY <1>0, <1>4, <1>6 DEF PoQueued, PoHeld
<1>14. /\ poT[t].pc # "off" /\ th.pc \notin PoEnding \cup {"invoke"} /\ th.pc \notin PoHand
       /\ Len(q) <= PoQueueCap
  BY <1>0, <1>1, <1>4, <1>6
<1>15. \A c \in PoConsumers : c \notin poIn => poLog'[c] = poLog[c] /\ poNext'[c] = poNext[c]
  BY <1>8
<1> HIDE DEF PoPoints, PoBusy, PoRound, PoHand, PoEnding
<1> QED BY <1>4, <1>5, <1>6, <1>8, <1>9, <1>10, <1>11, <1>12, <1>13, <1>14, <1>15, PoMoveKeeps

\* A consumer is put back at the end of the queue it was taken from (PoPutBack).
LEMMA PoPutBackWhat ==
  ASSUME PoInv, NEW t \in PoThreads, poT[t].pc \in PoHand, PoPutBack(t)
  PROVE  \E q \in Seq(PoConsumers) :
           /\ poQ' = [poQ EXCEPT ![t] = q] /\ q = Append(poQ[t], poT[t].c)
           /\ Len(q) <= PoQueueCap /\ PoDistinct(q) /\ poT[t].left <= Len(q)
           /\ \A c \in PoConsumers : PoQueued(t, c) \/ PoHeld(t, c) <=> PoAmong(q, c)
<1>0. PoTypes /\ PoLimits /\ PoRoundOf(t) /\ poT[t] \in PoThread /\ PoPlaces
  BY DEF PoInv, PoTypes, PoLimits
<1>1. t \in PoSlots /\ poQ[t] \in Seq(PoConsumers) /\ PoDistinct(poQ[t])
  BY <1>0, PoSetting DEF PoTypes, PoPlaces
<1>2. poT[t].c \in PoConsumers /\ ~PoAmong(poQ[t], poT[t].c)
  BY <1>0 DEF PoPlaces, PoPlaceOf, PoHeld, PoQueued
<1>3. PICK q : q = Append(poQ[t], poT[t].c)
  OBVIOUS
<1>4. /\ q \in Seq(PoConsumers) /\ Len(q) = Len(poQ[t]) + 1 /\ Len(poQ[t]) \in Nat
      /\ PoDistinct(q) /\ \A x : PoAmong(q, x) <=> PoAmong(poQ[t], x) \/ x = poT[t].c
  <2>1. PICK s \in Seq(PoConsumers) : s = poQ[t]
    BY <1>1
  <2>2. PICK c \in PoConsumers : c = poT[t].c
    BY <1>2
  <2>3. PoDistinct(s) /\ ~PoAmong(s, c) /\ q = Append(s, c)
    BY <1>1, <1>2, <1>3, <2>1, <2>2
  <2>4. /\ q \in Seq(PoConsumers) /\ Len(q) = Len(s) + 1 /\ Len(s) \in Nat
        /\ PoDistinct(q) /\ \A x : PoAmong(q, x) <=> PoAmong(s, x) \/ x = c
    BY <2>1, <2>2, <2>3, PoAppended
  <2> QED BY <2>1, <2>2, <2>4
<1>5. Len(q) <= PoQueueCap
  <2>1. Len(poQ[t]) + (poT[t].n - poT[t].left) < PoQueueCap
    BY DEF PoPutBack, PoRoom, PoHolds
  <2>2. poT[t].n \in Nat /\ poT[t].left \in Nat /\ poT[t].left <= poT[t].n
    BY <1>0, PoRecord DEF PoRoundOf
  <2>3. PoQueueCap \in Nat
    BY PoAssumption
  <2> QED BY <1>4, <2>1, <2>2, <2>3
<1>6. poT[t].left <= Len(q)
  <2>1. poT[t].left <= Len(poQ[t]) /\ poT[t].left \in Nat
    BY <1>0, PoRecord DEF PoRoundOf, PoRound
  <2> QED BY <1>4, <2>1
<1>7. \A c \in PoConsumers : PoQueued(t, c) \/ PoHeld(t, c) <=> PoAmong(q, c)
  BY <1>4 DEF PoQueued, PoHeld
<1> QED BY <1>3, <1>4, <1>5, <1>6, <1>7 DEF PoPutBack

\* A consumer goes back to its queue untouched (PoKeep).
LEMMA PoKeepKeeps == ASSUME PoInv, NEW t \in PoThreads, PoKeep(t) PROVE PoInv'
<1> USE DEF PoPoints, PoBusy, PoRound, PoHand, PoEnding
<1>0. /\ PoTypes /\ PoLimits /\ PoRoundOf(t) /\ poT[t] \in PoThread /\ PoPlaces /\ PoNumbers
      /\ poT[t].pc = "keep" /\ PoPutBack(t)
  BY DEF PoInv, PoTypes, PoLimits, PoKeep
<1>1. t \in PoSlots
  BY <1>0, PoSetting DEF PoTypes
<1>4. PICK q \in Seq(PoConsumers) :
        /\ poQ' = [poQ EXCEPT ![t] = q]
        /\ Len(q) <= PoQueueCap /\ PoDistinct(q) /\ poT[t].left <= Len(q)
        /\ \A c \in PoConsumers : PoQueued(t, c) \/ PoHeld(t, c) <=> PoAmong(q, c)
  BY <1>0, PoPutBackWhat
<1> DEFINE th == [poT[t] EXCEPT !.pc = "visit", !.c = "none", !.seen = PoNone, !.ok = TRUE]
<1>5. poT' = [poT EXCEPT ![t] = th]
  BY DEF PoKeep, PoNextVisit
<1>2. poT[t] \in PoThread
  BY <1>0
<1>6. /\ th \in PoThread /\ th.pc = "visit" /\ th.b = poT[t].b /\ th.e = poT[t].e
      /\ th.n = poT[t].n /\ th.left = poT[t].left
  BY <1>2, PoNextVisitWhat
<1> HIDE DEF th
<1>7. /\ poT'[t] = th /\ \A u \in PoThreads : u # t => poT'[u] = poT[u]
      /\ poQ'[t] = q
  BY <1>0, <1>1, <1>4, <1>5 DEF PoTypes
<1>8. /\ UNCHANGED <<poSet, poPhase, poSeq, poCur, poAdding, poDropCount, poIn, poMQ,
                     poStop, poDrops, poLate>>
      /\ poLog' = poLog /\ poNext' = poNext
  BY DEF PoKeep, poLife, poRing, poTasksVars, poCallbacks
<1>9. PoRoundOf(t)'
  BY <1>0, <1>4, <1>6, <1>7, <1>8 DEF PoRoundOf
<1>10. PoNumbers'
  <2>1. \A u \in PoThreads, c \in PoConsumers :
          PoHandles(u, c)' => PoHandles(u, c) /\ poT'[u].seen = poT[u].seen
    BY <1>6, <1>7 DEF PoHandles, PoHeld
  <2>2. \A u \in PoThreads, c \in PoConsumers :
          PoGivesUp(u, c)' => PoGivesUp(u, c) \/ poNext[c] = PoSTOP
    BY <1>6, <1>7 DEF PoGivesUp, PoHeld
  <2> QED BY <1>0, <1>8, <2>1, <2>2, PoNumbersKept
<1>11. poNext' \in [PoConsumers -> Int] /\ poLog' \in [PoConsumers -> Seq(Int)]
  BY <1>0, <1>8 DEF PoTypes
<1>12. \A c \in PoConsumers : PoIGNORE <= poNext'[c] /\ poNext'[c] <= poSeq
  BY <1>0, <1>8 DEF PoLimits
<1>14. /\ poT[t].pc # "off" /\ th.pc \notin PoEnding \cup {"invoke"} /\ th.pc \notin PoHand
  BY <1>0, <1>6
<1>15. \A c \in PoConsumers : c \notin poIn => poLog'[c] = poLog[c] /\ poNext'[c] = poNext[c]
  BY <1>8
<1> HIDE DEF PoPoints, PoBusy, PoRound, PoHand, PoEnding
<1> QED BY <1>4, <1>5, <1>6, <1>8, <1>9, <1>10, <1>11, <1>12, <1>14, <1>15, PoMoveKeeps

\* A thread takes the next consumer from its queue and reads its number (PoVisit).
LEMMA PoVisitKeeps == ASSUME PoInv, NEW t \in PoThreads, PoVisit(t) PROVE PoInv'
<1> USE DEF PoPoints, PoBusy, PoRound, PoHand, PoEnding
<1>0. /\ PoTypes /\ PoLimits /\ PoRoundOf(t) /\ poT[t] \in PoThread /\ PoPlaces /\ PoNumbers
      /\ poT[t].pc = "visit" /\ poT[t].left > 0
  BY DEF PoInv, PoTypes, PoLimits, PoVisit
<1>1. /\ t \in PoSlots /\ poQ[t] \in Seq(PoConsumers) /\ PoDistinct(poQ[t])
      /\ Len(poQ[t]) <= PoQueueCap
  BY <1>0, PoSetting DEF PoTypes, PoPlaces, PoLimits
<1>2. poT[t].left \in Nat /\ poT[t].left <= Len(poQ[t]) /\ poQ[t] # <<>>
  BY <1>0, <1>1, PoRecord DEF PoRoundOf
<1>3. PICK c \in PoConsumers : c = Head(poQ[t])
  BY <1>1, <1>2, PoTailed
<1>4. PICK q \in Seq(PoConsumers) : q = Tail(poQ[t])
  BY <1>1, <1>2, PoTailed
<1>5. /\ Len(q) = Len(poQ[t]) - 1 /\ Len(poQ[t]) \in Nat /\ PoDistinct(q) /\ ~PoAmong(q, c)
      /\ \A d : PoAmong(poQ[t], d) <=> PoAmong(q, d) \/ d = c
  BY <1>1, <1>2, <1>3, <1>4, PoTailed
<1>6. c \in poIn
  BY <1>0, <1>5 DEF PoPlaces, PoPlaceOf, PoHas, PoQueued
<1> DEFINE first == poNext[c] = PoNone
           s == IF first THEN poT[t].b ELSE poNext[c]
           th1 == [poT[t] EXCEPT !.c = c, !.ok = TRUE, !.left = @ - 1]
           th == IF first /\ ~poStarted[c] THEN [th1 EXCEPT !.pc = "starting"]
                 ELSE PoReads(t, th1, s)
<1>7. /\ poT[t].b \in Int /\ 0 <= poT[t].b /\ poT[t].b <= poT[t].e /\ poT[t].e \in Nat
      /\ poT[t].e <= poSeq /\ poT[t].n \in Nat /\ poT[t].left <= poT[t].n
      /\ poNext[c] \in Int /\ poSeq \in Nat
  BY <1>0, PoRecord, PoSeqNat DEF PoRoundOf, PoTypes
<1>8. s \in Int /\ poNext' = [poNext EXCEPT ![c] = s]
  <2>1. poNext' = IF first THEN [poNext EXCEPT ![c] = poT[t].b] ELSE poNext
    BY <1>3 DEF PoVisit
  <2>2. poNext = [poNext EXCEPT ![c] = poNext[c]]
    BY <1>0 DEF PoTypes
  <2> QED BY <1>7, <2>1, <2>2
<1>9. /\ poNext' \in [PoConsumers -> Int] /\ poNext'[c] = s
      /\ \A d \in PoConsumers : d # c => poNext'[d] = poNext[d]
  <2> HIDE DEF s
  <2> QED BY <1>0, <1>8, PoReplaced DEF PoTypes
<1>10. poT' = [poT EXCEPT ![t] = th] /\ poQ' = [poQ EXCEPT ![t] = q]
  BY <1>3, <1>4, <1>9 DEF PoVisit
<1>11. /\ th1 \in PoThread /\ th1.c = c /\ th1.ok = TRUE /\ th1.left = poT[t].left - 1
       /\ th1.b = poT[t].b /\ th1.e = poT[t].e /\ th1.n = poT[t].n
  <2>1. c \in PoAll \cup {"none"} /\ poT[t].left - 1 \in Nat /\ TRUE \in BOOLEAN
    BY <1>0, <1>2 DEF PoAll
  <2>2. poT[t] \in PoThread
    BY <1>0
  <2> QED BY <2>1, <2>2 DEF PoThread
<1> HIDE DEF th1
<1>12. /\ th \in PoThread /\ th.pc \in {"starting", "claim", "drop", "keep"} /\ th.b = poT[t].b
       /\ th.e = poT[t].e /\ th.n = poT[t].n /\ th.left = poT[t].left - 1 /\ th.c = c
       /\ th.ok = TRUE
       /\ th.pc = "claim" => th.seen = s /\ poT[t].b <= s /\ s <= poT[t].e
       /\ th.pc = "drop" => s = PoSTOP
  <2>1. CASE first /\ ~poStarted[c]
    <3>1. th = [th1 EXCEPT !.pc = "starting"]
      BY <2>1
    <3> HIDE DEF th
    <3> QED BY <1>11, <3>1 DEF PoThread
  <2>2. CASE ~(first /\ ~poStarted[c])
    <3>1. th = PoReads(t, th1, s)
      BY <2>2
    <3> HIDE DEF th, s
    <3>2. /\ th \in PoThread /\ th.pc \in {"claim", "drop", "keep"} /\ th.b = th1.b
          /\ th.e = th1.e /\ th.n = th1.n /\ th.left = th1.left /\ th.c = th1.c
          /\ th.ok = th1.ok
          /\ th.pc = "claim" => th.seen = s /\ th1.b <= s /\ s <= th1.e
          /\ th.pc = "drop" => s = PoSTOP \/ ~th1.ok
      BY <1>7, <1>8, <1>11, <3>1, PoReadsWhat
    <3> QED BY <1>11, <3>2
  <2> QED BY <2>1, <2>2
<1> HIDE DEF th
<1>13. /\ poT'[t] = th /\ \A u \in PoThreads : u # t => poT'[u] = poT[u]
       /\ poQ'[t] = q
  BY <1>0, <1>1, <1>10 DEF PoTypes
<1>14. /\ UNCHANGED <<poSet, poPhase, poSeq, poCur, poAdding, poDropCount, poIn, poMQ,
                      poStop, poDrops, poLate>>
       /\ poLog' = poLog
  BY DEF PoVisit, poLife, poRing, poTasksVars, poCallbacks
<1>15. PoRoundOf(t)'
  <2>1. poCur'[poSet'.slot[t]] >= 0
    BY <1>0, <1>14 DEF PoRoundOf
  <2>2. th.left <= Len(q) /\ th.left <= th.n
    BY <1>2, <1>5, <1>7, <1>12
  <2> HIDE DEF s
  <2> QED BY <1>7, <1>12, <1>13, <1>14, <2>1, <2>2 DEF PoRoundOf
<1>16. PoNumbers'
  <2>1. PoNumberOf(c) /\ \A u \in PoThreads : PoHandOf(u, c)
    BY <1>0 DEF PoNumbers
  <2>2. PoNumberOf(c)'
    <3>1. CASE first
      <4>1. poLog[c] = <<>> /\ s = poT[t].b /\ PoConsecutive(poLog[c])
        BY <2>1, <3>1 DEF PoNumberOf
      <4> QED BY <1>7, <1>9, <1>14, <4>1 DEF PoNumberOf
    <3>2. CASE ~first
      BY <1>9, <1>14, <2>1, <3>2 DEF PoNumberOf
    <3> QED BY <3>1, <3>2
  <2>3. \A u \in PoThreads : ~PoHandles(u, c)' \/ (u # t /\ PoHandles(u, c) /\ ~first)
    BY <1>12, <1>13, <2>1 DEF PoHandles, PoHeld, PoHandOf, PoNone, PoIGNORE
  <2>4. \A u \in PoThreads : PoHandOf(u, c)'
    <3> SUFFICES ASSUME NEW u \in PoThreads PROVE PoHandOf(u, c)'
      OBVIOUS
    <3>1. PoHandles(u, c)' => /\ poNext'[c] = PoIGNORE
                              /\ poLog'[c] # <<>> => Last(poLog'[c]) = poT'[u].seen - 1
      BY <1>9, <1>13, <1>14, <2>1, <2>3 DEF PoHandOf
    <3>2. CASE u = t
      <4>1. PoGivesUp(u, c)' => poNext'[c] = PoSTOP
        BY <1>9, <1>12, <1>13, <3>2 DEF PoGivesUp, PoHeld
      <4> QED BY <3>1, <4>1 DEF PoHandOf
    <3>3. CASE u # t
      <4>1. PoGivesUp(u, c)' => PoGivesUp(u, c)
        BY <1>13, <3>3 DEF PoGivesUp, PoHeld
      <4>2. PoGivesUp(u, c) => poNext[c] = PoSTOP /\ ~first
        BY <2>1 DEF PoHandOf, PoSTOP, PoNone
      <4> QED BY <1>9, <3>1, <4>1, <4>2 DEF PoHandOf
    <3> QED BY <3>2, <3>3
  <2>5. \A u, v \in PoThreads : PoHandles(u, c)' /\ PoHandles(v, c)' => u = v
    BY <1>0, <2>3 DEF PoNumbers
  <2>6. \A u \in PoThreads, d \in PoConsumers : d # c =>
          /\ PoHandles(u, d)' => PoHandles(u, d) /\ poT'[u].seen = poT[u].seen
          /\ PoGivesUp(u, d)' => PoGivesUp(u, d)
    BY <1>12, <1>13 DEF PoHandles, PoGivesUp, PoHeld
  <2>7. \A d \in PoConsumers : d # c => poNext'[d] = poNext[d] /\ poLog'[d] = poLog[d]
    BY <1>9, <1>14
  <2> QED BY <1>0, <2>2, <2>4, <2>5, <2>6, <2>7, PoNumberKept
<1>17. \A d \in PoConsumers : PoIGNORE <= poNext'[d] /\ poNext'[d] <= poSeq
  <2>1. PoIGNORE <= s /\ s <= poSeq
    BY <1>0, <1>7 DEF PoLimits, PoIGNORE
  <2> HIDE DEF s
  <2> QED BY <1>0, <1>9, <2>1 DEF PoLimits
<1>18. \A d \in PoConsumers : PoQueued(t, d) \/ PoHeld(t, d) <=>
                                PoAmong(q, d) \/ (th.pc \in PoHand /\ th.c = d)
  BY <1>0, <1>5, <1>12 DEF PoQueued, PoHeld
<1>19. /\ poT[t].pc # "off" /\ th.pc \notin PoEnding \cup {"invoke"} /\ th.c \in PoConsumers
       /\ Len(q) <= PoQueueCap /\ ~PoAmong(q, th.c)
  <2>1. PoQueueCap \in Nat
    BY PoAssumption
  <2> QED BY <1>0, <1>1, <1>5, <1>12, <2>1
<1>20. \A d \in PoConsumers : d \notin poIn => poLog'[d] = poLog[d] /\ poNext'[d] = poNext[d]
  BY <1>6, <1>9, <1>14
<1>21. poLog' \in [PoConsumers -> Seq(Int)]
  BY <1>0, <1>14 DEF PoTypes
<1> HIDE DEF PoPoints, PoBusy, PoRound, PoHand, PoEnding, s
<1> QED BY <1>5, <1>9, <1>10, <1>12, <1>14, <1>15, <1>16, <1>17, <1>18, <1>19, <1>20, <1>21,
           PoMoveKeeps

\* A thread delivers its range and moves nextSeq_ to the end of it (PoHandle).
LEMMA PoHandleKeeps == ASSUME PoInv, NEW t \in PoThreads, PoHandle(t) PROVE PoInv'
<1> USE DEF PoPoints, PoBusy, PoRound, PoHand, PoEnding
<1>0. /\ PoTypes /\ PoLimits /\ PoRoundOf(t) /\ poT[t] \in PoThread /\ PoPlaces /\ PoNumbers
      /\ poT[t].pc = "handle" /\ PoPutBack(t)
  BY DEF PoInv, PoTypes, PoLimits, PoHandle
<1>1. t \in PoSlots
  BY <1>0, PoSetting DEF PoTypes
<1>2. PICK c \in PoConsumers : c = poT[t].c /\ c \in poIn /\ PoHandles(t, c)
  BY <1>0 DEF PoPlaces, PoPlaceOf, PoHas, PoHandles, PoHeld
<1>3. PICK q \in Seq(PoConsumers) :
        /\ poQ' = [poQ EXCEPT ![t] = q]
        /\ Len(q) <= PoQueueCap /\ PoDistinct(q) /\ poT[t].left <= Len(q)
        /\ \A d \in PoConsumers : PoQueued(t, d) \/ PoHeld(t, d) <=> PoAmong(q, d)
  BY <1>0, PoPutBackWhat
<1> DEFINE th == [poT[t] EXCEPT !.pc = "visit", !.c = "none", !.seen = PoNone, !.ok = TRUE]
<1>4. poT' = [poT EXCEPT ![t] = th]
  BY DEF PoHandle, PoNextVisit
<1>5. poT[t] \in PoThread
  BY <1>0
<1>6. /\ th \in PoThread /\ th.pc = "visit" /\ th.b = poT[t].b /\ th.e = poT[t].e
      /\ th.n = poT[t].n /\ th.left = poT[t].left
  BY <1>5, PoNextVisitWhat
<1> HIDE DEF th
<1>7. /\ poT'[t] = th /\ \A u \in PoThreads : u # t => poT'[u] = poT[u]
      /\ poQ'[t] = q
  BY <1>0, <1>1, <1>3, <1>4 DEF PoTypes
<1>8. UNCHANGED <<poSet, poPhase, poSeq, poCur, poAdding, poDropCount, poIn, poMQ,
                  poStop, poDrops, poLate>>
  BY DEF PoHandle, poLife, poRing, poTasksVars
<1>9. PoRoundOf(t)'
  BY <1>0, <1>3, <1>6, <1>7, <1>8 DEF PoRoundOf
<1>10. /\ poT[t].seen \in Int /\ poT[t].e \in Nat /\ poT[t].seen <= poT[t].e /\ poT[t].e <= poSeq
       /\ poLog[c] \in Seq(Int) /\ poSeq \in Nat
  BY <1>0, <1>2, PoRecord, PoSeqNat DEF PoTypes, PoRoundOf
<1>11. PICK k \in Nat : k = poT[t].e - poT[t].seen
  BY <1>10
<1>12. PICK run : run = [i \in 1..k |-> poT[t].seen + i - 1]
  OBVIOUS
<1>13. PICK new : new = poLog[c] \o run
  OBVIOUS
<1>14. PoHandOf(t, c) /\ PoNumberOf(c)
  BY <1>0, <1>2 DEF PoNumbers
<1>15. (poLog[c] # <<>> => Last(poLog[c]) = poT[t].seen - 1) /\ PoConsecutive(poLog[c])
  BY <1>2, <1>14 DEF PoHandOf, PoNumberOf
<1>16. new \in Seq(Int) /\ PoConsecutive(new) /\ (new # <<>> => Last(new) = poT[t].e - 1)
  <2>1. /\ new \in Seq(Int) /\ PoConsecutive(new)
        /\ new # <<>> => Last(new) = poT[t].seen + k - 1
    <3>1. PICK log \in Seq(Int) : log = poLog[c]
      BY <1>10
    <3>2. PICK a \in Int : a = poT[t].seen
      BY <1>10
    <3>3. (log # <<>> => Last(log) = a - 1) /\ PoConsecutive(log)
      BY <1>15, <3>1, <3>2
    <3>4. run = [i \in 1..k |-> a + i - 1] /\ new = log \o run
      BY <1>12, <1>13, <3>1, <3>2
    <3>5. new \in Seq(Int) /\ PoConsecutive(new) /\ (new # <<>> => Last(new) = a + k - 1)
      BY <3>3, <3>4, PoRun
    <3> QED BY <3>2, <3>5
  <2>2. poT[t].seen + k - 1 = poT[t].e - 1
    BY <1>10, <1>11
  <2> QED BY <2>1, <2>2
<1>17. poLog' = [poLog EXCEPT ![c] = new] /\ poNext' = [poNext EXCEPT ![c] = poT[t].e]
  BY <1>2, <1>11, <1>12, <1>13 DEF PoHandle, PoNumberAfter
<1>18. /\ poLog' \in [PoConsumers -> Seq(Int)] /\ poLog'[c] = new
       /\ \A d \in PoConsumers : d # c => poLog'[d] = poLog[d]
  BY <1>0, <1>2, <1>16, <1>17, PoReplaced DEF PoTypes
<1>19. /\ poNext' \in [PoConsumers -> Int] /\ poNext'[c] = poT[t].e
       /\ \A d \in PoConsumers : d # c => poNext'[d] = poNext[d]
  BY <1>0, <1>2, <1>10, <1>17, PoReplaced DEF PoTypes
<1>20. \A u \in PoThreads : ~PoHandles(u, c)' /\ ~PoGivesUp(u, c)'
  <2>1. \A u \in PoThreads : PoHandles(u, c) => u = t
    BY <1>0, <1>2 DEF PoNumbers
  <2>2. \A u \in PoThreads : ~PoGivesUp(u, c)
    <3>1. poNext[c] # PoSTOP
      BY <1>2, <1>14 DEF PoHandOf, PoSTOP, PoIGNORE
    <3> QED BY <1>0, <3>1 DEF PoNumbers, PoHandOf
  <2> QED BY <1>2, <1>6, <1>7, <2>1, <2>2 DEF PoHandles, PoGivesUp, PoHeld
<1>21. PoNumbers'
  <2>1. PoNumberOf(c)'
    <3>1. poNext'[c] # PoNone
      BY <1>10, <1>19 DEF PoNone
    <3> QED BY <1>16, <1>18, <1>19, <3>1 DEF PoNumberOf
  <2>2. \A u \in PoThreads : PoHandOf(u, c)'
    BY <1>20 DEF PoHandOf
  <2>3. \A u \in PoThreads, d \in PoConsumers : d # c =>
          /\ PoHandles(u, d)' => PoHandles(u, d) /\ poT'[u].seen = poT[u].seen
          /\ PoGivesUp(u, d)' => PoGivesUp(u, d)
    BY <1>6, <1>7 DEF PoHandles, PoGivesUp, PoHeld
  <2>4. \A d \in PoConsumers : d # c => poNext'[d] = poNext[d] /\ poLog'[d] = poLog[d]
    BY <1>18, <1>19
  <2> QED BY <1>0, <1>20, <2>1, <2>2, <2>3, <2>4, PoNumberKept
<1>22. \A d \in PoConsumers : PoIGNORE <= poNext'[d] /\ poNext'[d] <= poSeq
  <2>1. PoIGNORE <= poT[t].e
    BY <1>10 DEF PoIGNORE
  <2> QED BY <1>0, <1>10, <1>19, <2>1 DEF PoLimits
<1>23. /\ poT[t].pc # "off" /\ th.pc \notin PoEnding \cup {"invoke"} /\ th.pc \notin PoHand
  BY <1>0, <1>6
<1>24. \A d \in PoConsumers : d \notin poIn => poLog'[d] = poLog[d] /\ poNext'[d] = poNext[d]
  BY <1>2, <1>18, <1>19
<1> HIDE DEF PoPoints, PoBusy, PoRound, PoHand, PoEnding
<1> QED BY <1>3, <1>4, <1>6, <1>8, <1>9, <1>18, <1>19, <1>21, <1>22, <1>23, <1>24, PoMoveKeeps

\* Steps that leave every consumer where it is, with its number and its log.
LEMMA PoNobodyMoves ==
  ASSUME PoInv, UNCHANGED <<poSet, poQ, poAdding, poNext, poDropCount, poLog>>,
         poStop => poStop', poIn' \cap PoConsumers = poIn \cap PoConsumers,
         \A c \in PoConsumers : poDrops'[c] = poDrops[c],
         \A t \in PoThreads : poT[t].pc \in PoHand => poT'[t] = poT[t],
         \A t \in PoThreads : poT'[t].pc \in PoHand => poT[t].pc \in PoHand,
         PoTypes', PoLimits', PoTasksOnce', PoEnds'
  PROVE  PoInv'
<1>0. PoPlaces /\ PoCounts /\ PoNumbers
  BY DEF PoInv
<1>1. PoPlaces' /\ \A t \in PoThreads, c \in PoConsumers : PoHas(t, c)' <=> PoHas(t, c)
  BY <1>0, PoPlacesKept
<1>2. PoCounts'
  BY <1>0, <1>1, PoCountsKept
<1>3. \A t \in PoThreads, c \in PoConsumers :
        PoHandles(t, c)' => PoHandles(t, c) /\ poT'[t].seen = poT[t].seen
  BY DEF PoHandles, PoHeld
<1>4. \A t \in PoThreads, c \in PoConsumers : PoGivesUp(t, c)' => PoGivesUp(t, c)
  BY DEF PoGivesUp, PoHeld
<1>5. PoNumbers'
  BY <1>0, <1>3, <1>4, PoNumbersKept
<1> QED BY <1>1, <1>2, <1>5 DEF PoInv

\* A message is published (PoPut).
LEMMA PoPutKeeps == ASSUME PoInv, PoPut PROVE PoInv'
<1>0. PoTypes /\ PoLimits /\ PoTasksOnce /\ PoEnds
  BY DEF PoInv
<1>1. UNCHANGED <<poSet, poPhase, poCur, poT, poQ, poAdding, poNext, poDropCount, poIn, poMQ,
                  poStop, poLog, poDrops, poLate>>
  BY DEF PoPut, poLife, poTasksVars, poCallbacks
<1>2. poSeq' \in 0..poSet.maxSeq /\ poSeq <= poSeq' /\ poSeq \in Nat /\ poSeq' \in Nat
  BY <1>0, PoSeqNat, PoSetting DEF PoPut, PoTypes
<1>3. PoTypes'
  BY <1>0, <1>1, <1>2 DEF PoTypes
<1>4. PoLimits'
  <2>1. \A s \in PoSlots : PoDead <= poCur'[s] /\ poCur'[s] <= poSeq' /\ Len(poQ'[s]) <= PoQueueCap
    <3>1. \A s \in PoSlots : poCur[s] \in Int
      BY <1>0 DEF PoTypes
    <3> QED BY <1>0, <1>1, <1>2, <3>1 DEF PoLimits
  <2>2. \A c \in PoConsumers : PoIGNORE <= poNext'[c] /\ poNext'[c] <= poSeq'
    <3>1. \A c \in PoConsumers : poNext[c] \in Int
      BY <1>0 DEF PoTypes
    <3> QED BY <1>0, <1>1, <1>2, <3>1 DEF PoLimits
  <2>3. ASSUME NEW t \in PoThreads PROVE PoRoundOf(t)'
    <3>1. poT[t].e \in Nat /\ PoRoundOf(t)
      BY <1>0, PoRecord DEF PoTypes, PoLimits
    <3> QED BY <1>1, <1>2, <3>1 DEF PoRoundOf
  <2> QED BY <1>0, <1>1, <2>1, <2>2, <2>3 DEF PoLimits
<1>5. PoTasksOnce'
  BY <1>0, <1>1, PoTasksKept DEF PoTypes
<1>6. PoEnds'
  BY <1>0, <1>1, PoEndsKept DEF PoLeftIn
<1> QED BY <1>1, <1>3, <1>4, <1>5, <1>6, PoNobodyMoves

\* start() or the first half of startAt() (PoStart).
LEMMA PoStartKeeps == ASSUME PoInv, PoStart PROVE PoInv'
<1> USE DEF PoPoints, PoBusy, PoRound, PoHand, PoEnding
<1>0. PoTypes /\ PoLimits /\ PoTasksOnce /\ PoEnds /\ poPhase = "created"
  BY DEF PoInv, PoStart
<1>1. UNCHANGED <<poSet, poSeq, poQ, poAdding, poNext, poDropCount, poIn, poMQ,
                  poStop, poLog, poDrops, poLate>>
  BY DEF PoStart, poTasksVars, poCallbacks
<1>2. \A t \in PoThreads : poT[t].pc = "off" /\ PoRoundOf(t) /\ poT[t] \in PoThread
  BY <1>0 DEF PoLimits, PoTypes
<1>3. ~poStop
  BY <1>0 DEF PoLimits
<1>4. CASE poSet.recycled
  <2>1. poPhase' = "resetting" /\ poCur' = poCur /\ poT' = poT
    BY <1>4 DEF PoStart
  <2>2. PoTypes'
    BY <1>0, <1>1, <2>1 DEF PoTypes
  <2>3. PoLimits'
    <3>1. \A t \in PoThreads : PoRoundOf(t)'
      BY <1>1, <1>2, <2>1 DEF PoRoundOf
    <3> QED BY <1>0, <1>1, <1>2, <1>3, <2>1, <3>1 DEF PoLimits
  <2>4. PoTasksOnce'
    BY <1>0, <1>1, <2>1, PoTasksKept DEF PoTypes
  <2>5. PoEnds'
    BY <1>0, <1>1, <2>1, PoEndsKept DEF PoLeftIn
  <2> QED BY <1>1, <2>1, <2>2, <2>3, <2>4, <2>5, PoNobodyMoves
<1>5. CASE ~poSet.recycled
  <2>1. /\ poPhase' = "running"
        /\ poCur' = [s \in PoSlots |-> IF s \in PoThreads THEN poCur[s] ELSE PoDead]
        /\ poT' = [t \in PoThreads |-> [poT[t] EXCEPT !.pc = "shuffle"]]
    BY <1>5 DEF PoStart
  <2>2. \A t \in PoThreads :
          /\ poT'[t] = [poT[t] EXCEPT !.pc = "shuffle"] /\ poT'[t] \in PoThread
          /\ poT'[t].pc = "shuffle" /\ poT'[t].b = poT[t].b /\ poT'[t].e = poT[t].e
          /\ poT'[t].n = poT[t].n /\ poT'[t].left = poT[t].left
    BY <1>2, <2>1 DEF PoThread
  <2>3. PoDead \in Int /\ PoDead <= poSeq
    BY <1>0, PoSeqNat DEF PoDead
  <2>4. PoTypes'
    <3>1. poCur' \in [PoSlots -> Int]
      BY <1>0, <2>1, <2>3 DEF PoTypes
    <3>2. poT' \in [PoThreads -> PoThread]
      BY <2>1, <2>2
    <3> QED BY <1>0, <1>1, <2>1, <3>1, <3>2 DEF PoTypes
  <2>5. \A s \in PoSlots : PoDead <= poCur'[s] /\ poCur'[s] <= poSeq
    BY <1>0, <2>1, <2>3 DEF PoLimits
  <2>6. ASSUME NEW t \in PoThreads PROVE PoRoundOf(t)'
    <3>1. poSet.slot[t] = t /\ t \in PoSlots
      BY <1>0, <1>5, PoSetting DEF PoTypes
    <3>2. poCur'[poSet.slot[t]] >= 0
      BY <1>0, <1>5, <2>1, <3>1 DEF PoLimits
    <3> QED BY <1>1, <1>2, <2>2, <3>2 DEF PoRoundOf
  <2>7. PoLimits'
    BY <1>0, <1>1, <2>1, <2>5, <2>6 DEF PoLimits
  <2>8. PoTasksOnce'
    BY <1>0, <1>1, <2>2, PoTasksKept DEF PoTypes
  <2>9. PoEnds'
    BY <1>0, <1>1, <2>2, PoEndsKept
  <2> QED BY <1>1, <1>2, <2>2, <2>4, <2>7, <2>8, <2>9, PoNobodyMoves
<1> QED BY <1>4, <1>5

\* startAt() revives a slot (PoResetSlot).
LEMMA PoResetSlotKeeps == ASSUME PoInv, PoResetSlot PROVE PoInv'
<1>0. PoTypes /\ PoLimits /\ PoTasksOnce /\ PoEnds /\ poPhase = "resetting"
  BY DEF PoInv, PoResetSlot
<1>1. UNCHANGED <<poSet, poPhase, poSeq, poT, poQ, poAdding, poNext, poDropCount, poIn, poMQ,
                  poStop, poLog, poDrops, poLate>>
  BY DEF PoResetSlot, poLife, poTasksVars, poCallbacks
<1>2. PICK s \in PoSlots : poCur' = [poCur EXCEPT ![s] = poSeq]
  BY <1>0, PoSetting DEF PoResetSlot, PoTypes
<1>3. poSeq \in Nat /\ PoDead <= poSeq
  BY <1>0, PoSeqNat DEF PoDead
<1>4. /\ poCur' \in [PoSlots -> Int] /\ poCur'[s] = poSeq
      /\ \A r \in PoSlots : r # s => poCur'[r] = poCur[r]
  BY <1>0, <1>2, <1>3, PoReplaced DEF PoTypes
<1>5. PoTypes'
  BY <1>0, <1>1, <1>4 DEF PoTypes
<1>6. PoLimits'
  <2>1. \A r \in PoSlots : PoDead <= poCur'[r] /\ poCur'[r] <= poSeq
    BY <1>0, <1>3, <1>4 DEF PoLimits
  <2>2. ASSUME NEW t \in PoThreads PROVE PoRoundOf(t)'
    <3>1. PoRoundOf(t) /\ poT[t].pc = "off"
      BY <1>0 DEF PoLimits
    <3> QED BY <1>1, <3>1 DEF PoRoundOf, PoBusy, PoRound, PoHand
  <2> QED BY <1>0, <1>1, <2>1, <2>2 DEF PoLimits
<1>7. PoTasksOnce'
  BY <1>0, <1>1, PoTasksKept DEF PoTypes
<1>8. PoEnds'
  BY <1>0, <1>1, PoEndsKept DEF PoLeftIn
<1> QED BY <1>1, <1>5, <1>6, <1>7, <1>8, PoNobodyMoves

\* startAt() starts the threads (PoLaunch).
LEMMA PoLaunchKeeps == ASSUME PoInv, PoLaunch PROVE PoInv'
<1> USE DEF PoPoints, PoBusy, PoRound, PoHand, PoEnding
<1>0. PoTypes /\ PoLimits /\ PoTasksOnce /\ PoEnds /\ poPhase = "resetting"
  BY DEF PoInv, PoLaunch
<1>1. UNCHANGED <<poSet, poSeq, poCur, poQ, poAdding, poNext, poDropCount, poIn, poMQ,
                  poStop, poLog, poDrops, poLate>>
  BY DEF PoLaunch, poRing, poTasksVars, poCallbacks
<1>2. \A t \in PoThreads : poT[t].pc = "off" /\ PoRoundOf(t) /\ poT[t] \in PoThread
  BY <1>0 DEF PoLimits, PoTypes
<1>3. /\ poPhase' = "running"
      /\ poT' = [t \in PoThreads |-> [poT[t] EXCEPT !.pc = "shuffle"]]
  BY DEF PoLaunch
<1>4. \A t \in PoThreads :
        /\ poT'[t] = [poT[t] EXCEPT !.pc = "shuffle"] /\ poT'[t] \in PoThread
        /\ poT'[t].pc = "shuffle" /\ poT'[t].b = poT[t].b /\ poT'[t].e = poT[t].e
        /\ poT'[t].n = poT[t].n /\ poT'[t].left = poT[t].left
  BY <1>2, <1>3 DEF PoThread
<1>5. PoTypes'
  <2>1. poT' \in [PoThreads -> PoThread]
    BY <1>3, <1>4
  <2> QED BY <1>0, <1>1, <1>3, <2>1 DEF PoTypes
<1>6. ASSUME NEW t \in PoThreads PROVE PoRoundOf(t)'
  <2>1. poSet.slot[t] \in PoSlots
    BY <1>0, PoSetting DEF PoTypes
  <2>2. /\ poCur[poSet.slot[t]] \in Int /\ PoDead <= poCur[poSet.slot[t]]
        /\ poCur[poSet.slot[t]] # PoDead
    BY <1>0, <2>1 DEF PoLimits, PoTypes, PoLaunch
  <2>3. poCur[poSet.slot[t]] >= 0
    BY <2>2 DEF PoDead
  <2> QED BY <1>1, <1>2, <1>4, <2>3 DEF PoRoundOf
<1>7. PoLimits'
  BY <1>0, <1>1, <1>3, <1>6 DEF PoLimits
<1>8. PoTasksOnce'
  BY <1>0, <1>1, <1>4, PoTasksKept DEF PoTypes
<1>9. PoEnds'
  BY <1>0, <1>1, <1>4, PoEndsKept
<1> QED BY <1>1, <1>2, <1>4, <1>5, <1>7, <1>8, <1>9, PoNobodyMoves

\* The pool is told to stop (PoStopAll).
LEMMA PoStopAllKeeps == ASSUME PoInv, PoStopAll PROVE PoInv'
<1>0. PoTypes /\ PoLimits /\ PoTasksOnce /\ PoEnds /\ poPhase = "running" /\ ~poStop
  BY DEF PoInv, PoStopAll
<1>1. /\ UNCHANGED <<poSet, poPhase, poSeq, poCur, poT, poQ, poAdding, poNext, poDropCount, poIn,
                     poMQ, poLog, poDrops>>
      /\ poStop' = TRUE /\ poLate' = poLate \cup {c \in PoConsumers : poAdding[c] # {}}
  BY DEF PoStopAll, poLife, poRing, poTasksVars
<1>2. PoTypes'
  BY <1>0, <1>1 DEF PoTypes
<1>3. PoLimits'
  BY <1>0, <1>1 DEF PoLimits, PoRoundOf
<1>4. PoTasksOnce'
  BY <1>0, <1>1, PoTasksKept DEF PoTypes
<1>5. PoEnds'
  BY <1>0, <1>1 DEF PoEnds, PoEnding
<1> QED BY <1>1, <1>2, <1>3, <1>4, <1>5, PoNobodyMoves

\* A step of a thread that has no consumer in its hands and leaves all queues of consumers alone:
\* it changes its record, its cursor, or the tasks.
LEMMA PoSideKeeps ==
  ASSUME PoInv, NEW t \in PoThreads, NEW th \in PoThread, poT' = [poT EXCEPT ![t] = th],
         NEW v \in Int, poCur' = [poCur EXCEPT ![poSet.slot[t]] = v], PoDead <= v, v <= poSeq,
         UNCHANGED <<poSet, poPhase, poSeq, poQ, poAdding, poNext, poDropCount, poStop, poLog,
                     poLate>>,
         poMQ' \in Seq(PoTasks), poIn' \subseteq PoAll, poDrops' \in [PoAll -> Nat],
         poIn' \cap PoConsumers = poIn \cap PoConsumers,
         \A c \in PoConsumers : poDrops'[c] = poDrops[c],
         poT[t].pc \notin PoHand \cup {"off"}, th.pc \notin PoHand, PoRoundOf(t)',
         PoTasksOnce', PoEnds'
  PROVE  PoInv'
<1>0. PoTypes /\ PoLimits /\ PoTasksOnce /\ PoEnds
  BY DEF PoInv
<1>1. /\ poT' \in [PoThreads -> PoThread] /\ poT'[t] = th
      /\ \A u \in PoThreads : u # t => poT'[u] = poT[u]
  BY <1>0, PoReplaced DEF PoTypes
<1>2. /\ poSet.slot \in [PoThreads -> PoSlots]
      /\ \A u \in PoThreads : poSet.slot[u] = poSet.slot[t] => u = t
  BY <1>0, PoSetting DEF PoTypes
<1>3. /\ poCur' \in [PoSlots -> Int]
      /\ \A s \in PoSlots : s # poSet.slot[t] => poCur'[s] = poCur[s]
      /\ \A s \in PoSlots : poCur'[s] = poCur[s] \/ poCur'[s] = v
  BY <1>0, <1>2 DEF PoTypes
<1>4. PoTypes'
  BY <1>0, <1>1, <1>3 DEF PoTypes
<1>5. poPhase = "running"
  BY <1>0 DEF PoLimits
<1>6. ASSUME NEW u \in PoThreads, u # t PROVE PoRoundOf(u)'
  <2>1. poSet.slot[u] \in PoSlots /\ poSet.slot[u] # poSet.slot[t]
    BY <1>2, <1>6
  <2> QED BY <1>0, <1>1, <1>3, <1>6, <2>1 DEF PoLimits, PoRoundOf
<1>7. PoLimits'
  <2>1. \A s \in PoSlots : PoDead <= poCur'[s] /\ poCur'[s] <= poSeq /\ Len(poQ'[s]) <= PoQueueCap
    BY <1>0, <1>3 DEF PoLimits
  <2>2. \A u \in PoThreads : PoRoundOf(u)'
    BY <1>6
  <2> QED BY <1>0, <1>5, <2>1, <2>2 DEF PoLimits
<1>8. /\ \A u \in PoThreads : poT[u].pc \in PoHand => poT'[u] = poT[u]
      /\ \A u \in PoThreads : poT'[u].pc \in PoHand => poT[u].pc \in PoHand
  BY <1>1
<1> QED BY <1>4, <1>7, <1>8, PoNobodyMoves

\* The cursor a step leaves alone.
LEMMA PoSameCursor ==
  ASSUME PoTypes, PoLimits, NEW t \in PoThreads, poCur' = poCur
  PROVE  \E v \in Int : /\ poCur' = [poCur EXCEPT ![poSet.slot[t]] = v]
                        /\ PoDead <= v /\ v <= poSeq /\ v = poCur[poSet.slot[t]]
<1>1. poSet.slot[t] \in PoSlots
  BY PoSetting DEF PoTypes
<1>2. PICK v : v = poCur[poSet.slot[t]]
  OBVIOUS
<1>3. v \in Int /\ PoDead <= v /\ v <= poSeq
  BY <1>1, <1>2 DEF PoTypes, PoLimits
<1>4. poCur' = [poCur EXCEPT ![poSet.slot[t]] = v]
  BY <1>2 DEF PoTypes
<1> QED BY <1>2, <1>3, <1>4

\* PoIdleThread at a point.
LEMMA PoIdleWhat ==
  ASSUME NEW pc \in PoPoints
  PROVE  LET r == [PoIdleThread EXCEPT !.pc = pc]
         IN  r \in PoThread /\ r.pc = pc /\ r.b = 0 /\ r.e = 0 /\ r.n = 0 /\ r.left = 0
<1>1. PoIdleThread \in PoThread /\ PoIdleThread.b = 0 /\ PoIdleThread.e = 0
      /\ PoIdleThread.n = 0 /\ PoIdleThread.left = 0
  BY DEF PoIdleThread, PoThread, PoPoints, PoNone
<1> QED BY <1>1 DEF PoThread

\* A round ends and the cursor moves (PoWaste).
LEMMA PoWasteKeeps == ASSUME PoInv, NEW t \in PoThreads, PoWaste(t) PROVE PoInv'
<1> USE DEF PoPoints, PoBusy, PoRound, PoHand, PoEnding
<1>0. /\ PoTypes /\ PoLimits /\ PoRoundOf(t) /\ poT[t] \in PoThread /\ PoTasksOnce /\ PoEnds
      /\ poT[t].pc = "visit"
  BY DEF PoInv, PoTypes, PoLimits, PoWaste
<1>1. UNCHANGED <<poSet, poPhase, poSeq, poQ, poAdding, poNext, poDropCount, poIn, poMQ, poStop,
                  poLog, poDrops, poLate>>
  BY DEF PoWaste, poLife, poTasksVars, poCallbacks
<1>2. PICK v \in Int : v = poT[t].e
  BY <1>0, PoRecord
<1>3. poCur' = [poCur EXCEPT ![poSet.slot[t]] = v] /\ PoDead <= v /\ v <= poSeq /\ 0 <= v
  <2>1. poT[t].b \in Int /\ 0 <= poT[t].b /\ poT[t].b <= v /\ v <= poSeq
    BY <1>0, <1>2, PoRecord DEF PoRoundOf
  <2> QED BY <1>2, <2>1 DEF PoWaste, PoWastedTo, PoDead
<1>4. PICK pc \in {"loop", "task"} : poT' = [poT EXCEPT ![t] = [PoIdleThread EXCEPT !.pc = pc]]
  BY DEF PoWaste
<1> DEFINE th == [PoIdleThread EXCEPT !.pc = pc]
<1>5. th \in PoThread /\ th.pc = pc /\ th.b = 0 /\ th.e = 0 /\ th.n = 0 /\ th.left = 0
  BY <1>4, PoIdleWhat
<1>6. poT' = [poT EXCEPT ![t] = th]
  BY <1>4
<1> HIDE DEF th
<1>7. poT'[t] = th /\ \A u \in PoThreads : u # t => poT'[u] = poT[u]
  BY <1>0, <1>6 DEF PoTypes
<1>8. PoRoundOf(t)'
  <2>1. poCur'[poSet.slot[t]] = v
    <3>1. poSet.slot[t] \in PoSlots
      BY <1>0, PoSetting DEF PoTypes
    <3> QED BY <1>0, <1>3, <3>1 DEF PoTypes
  <2>2. poSeq \in Nat
    BY <1>0, PoSeqNat
  <2> QED BY <1>1, <1>3, <1>5, <1>7, <2>1, <2>2 DEF PoRoundOf
<1>9. PoTasksOnce'
  <2>1. \A u \in PoThreads :
          poT'[u].pc = "invoke" => poT[u].pc = "invoke" /\ poT'[u].c = poT[u].c
    BY <1>5, <1>7
  <2> QED BY <1>0, <1>1, <2>1, PoTasksKept DEF PoTypes
<1>10. PoEnds'
  <2>1. \A u \in PoThreads : poT'[u].pc \in PoEnding =>
          poT[u].pc \in PoEnding /\ poQ'[u] = poQ[u] /\ PoLeftIn(u)' = PoLeftIn(u)
            /\ (poT'[u].pc = "done" => poT[u].pc = "done")
    BY <1>1, <1>5, <1>7 DEF PoLeftIn
  <2> QED BY <1>0, <1>1, <2>1, PoEndsKept
<1>11. poMQ' \in Seq(PoTasks) /\ poIn' \subseteq PoAll /\ poDrops' \in [PoAll -> Nat]
  BY <1>0, <1>1 DEF PoTypes
<1> QED BY <1>0, <1>1, <1>3, <1>5, <1>6, <1>8, <1>9, <1>10, <1>11, PoSideKeeps

\* A thread sees the stop flag and begins to give up its queue (PoLeave).
LEMMA PoLeaveKeeps == ASSUME PoInv, NEW t \in PoThreads, PoLeave(t) PROVE PoInv'
<1> USE DEF PoPoints, PoBusy, PoRound, PoHand, PoEnding
<1>0. /\ PoTypes /\ PoLimits /\ PoRoundOf(t) /\ poT[t] \in PoThread /\ PoTasksOnce /\ PoEnds
      /\ poT[t].pc = "loop" /\ poStop
  BY DEF PoInv, PoTypes, PoLimits, PoLeave
<1>1. UNCHANGED <<poSet, poPhase, poSeq, poCur, poQ, poAdding, poNext, poDropCount, poIn, poMQ,
                  poStop, poLog, poDrops, poLate>>
  BY DEF PoLeave, poLife, poRing, poTasksVars, poCallbacks
<1>2. PICK v \in Int : /\ poCur' = [poCur EXCEPT ![poSet.slot[t]] = v] /\ PoDead <= v /\ v <= poSeq
                       /\ v = poCur[poSet.slot[t]]
  BY <1>0, <1>1, PoSameCursor
<1>3. PICK k \in Nat : k = Len(poQ[t])
  <2>1. t \in PoSlots /\ poQ[t] \in Seq(PoConsumers)
    BY <1>0, PoSetting DEF PoTypes
  <2> QED BY <2>1, LenProperties
<1> DEFINE th == [PoIdleThread EXCEPT !.pc = "leaving", !.n = k, !.left = k]
<1>5. th \in PoThread /\ th.pc = "leaving" /\ th.b = 0 /\ th.e = 0 /\ th.n = k /\ th.left = k
  <2>1. PoIdleThread \in PoThread /\ PoIdleThread.b = 0 /\ PoIdleThread.e = 0
    BY DEF PoIdleThread, PoThread, PoNone
  <2> QED BY <2>1 DEF PoThread
<1>6. poT' = [poT EXCEPT ![t] = th]
  BY <1>3 DEF PoLeave
<1> HIDE DEF th
<1>7. poT'[t] = th /\ \A u \in PoThreads : u # t => poT'[u] = poT[u]
  BY <1>0, <1>6 DEF PoTypes
<1>8. PoRoundOf(t)'
  <2>2. poSeq \in Nat
    BY <1>0, PoSeqNat
  <2> QED BY <1>0, <1>1, <1>3, <1>5, <1>7, <2>2 DEF PoRoundOf
<1>9. PoTasksOnce'
  <2>1. \A u \in PoThreads :
          poT'[u].pc = "invoke" => poT[u].pc = "invoke" /\ poT'[u].c = poT[u].c
    BY <1>5, <1>7
  <2> QED BY <1>0, <1>1, <2>1, PoTasksKept DEF PoTypes
<1>10. PoEnds'
  <2>1. ASSUME NEW u \in PoThreads, poT'[u].pc \in PoEnding, NEW i \in 1..Len(poQ'[u]),
               PoLeftIn(u)' < i
        PROVE  poQ'[u][i] \in poLate'
    <3>1. CASE u = t
      BY <1>1, <1>3, <1>5, <1>7, <2>1, <3>1 DEF PoLeftIn
    <3>2. CASE u # t
      BY <1>0, <1>1, <1>7, <2>1, <3>2 DEF PoLeftIn, PoEnds
    <3> QED BY <3>1, <3>2
  <2>2. \A u \in PoThreads : poT'[u].pc = "done" => poIn' \cap PoTasks = {}
    BY <1>0, <1>1, <1>5, <1>7 DEF PoEnds
  <2> QED BY <1>0, <1>1, <2>1, <2>2 DEF PoEnds
<1>11. poMQ' \in Seq(PoTasks) /\ poIn' \subseteq PoAll /\ poDrops' \in [PoAll -> Nat]
  BY <1>0, <1>1 DEF PoTypes
<1> QED BY <1>0, <1>1, <1>2, <1>5, <1>6, <1>8, <1>9, <1>10, <1>11, PoSideKeeps

\* A thread that leaves marks its cursor dead (PoMarkDead).
LEMMA PoMarkDeadKeeps == ASSUME PoInv, NEW t \in PoThreads, PoMarkDead(t) PROVE PoInv'
<1> USE DEF PoPoints, PoBusy, PoRound, PoHand, PoEnding
<1>0. /\ PoTypes /\ PoLimits /\ PoRoundOf(t) /\ poT[t] \in PoThread /\ PoTasksOnce /\ PoEnds
      /\ poT[t].pc = "leaving" /\ poT[t].left = 0
  BY DEF PoInv, PoTypes, PoLimits, PoMarkDead
<1>1. UNCHANGED <<poSet, poPhase, poSeq, poQ, poAdding, poNext, poDropCount, poIn, poMQ,
                  poStop, poLog, poDrops, poLate>>
  BY DEF PoMarkDead, poLife, poTasksVars, poCallbacks
<1>2. /\ poCur' = [poCur EXCEPT ![poSet.slot[t]] = PoDead] /\ PoDead \in Int /\ PoDead <= PoDead
      /\ PoDead <= poSeq
  BY <1>0, PoSeqNat DEF PoMarkDead, PoDead
<1> DEFINE th == [poT[t] EXCEPT !.pc = "cleanup"]
<1>5. /\ th \in PoThread /\ th.pc = "cleanup" /\ th.b = poT[t].b /\ th.e = poT[t].e
      /\ th.n = poT[t].n /\ th.left = poT[t].left
  BY <1>0 DEF PoThread
<1>6. poT' = [poT EXCEPT ![t] = th]
  BY DEF PoMarkDead, PoGoes
<1> HIDE DEF th
<1>7. poT'[t] = th /\ \A u \in PoThreads : u # t => poT'[u] = poT[u]
  BY <1>0, <1>6 DEF PoTypes
<1>8. PoRoundOf(t)'
  BY <1>0, <1>1, <1>5, <1>7 DEF PoRoundOf
<1>9. PoTasksOnce'
  <2>1. \A u \in PoThreads :
          poT'[u].pc = "invoke" => poT[u].pc = "invoke" /\ poT'[u].c = poT[u].c
    BY <1>5, <1>7
  <2> QED BY <1>0, <1>1, <2>1, PoTasksKept DEF PoTypes
<1>10. PoEnds'
  <2>1. \A u \in PoThreads : poT'[u].pc \in PoEnding =>
          poT[u].pc \in PoEnding /\ poQ'[u] = poQ[u] /\ PoLeftIn(u)' = PoLeftIn(u)
            /\ (poT'[u].pc = "done" => poT[u].pc = "done")
    BY <1>0, <1>1, <1>5, <1>7 DEF PoLeftIn
  <2> QED BY <1>0, <1>1, <2>1, PoEndsKept
<1>11. poMQ' \in Seq(PoTasks) /\ poIn' \subseteq PoAll /\ poDrops' \in [PoAll -> Nat]
  BY <1>0, <1>1 DEF PoTypes
<1> QED BY <1>0, <1>1, <1>2, <1>5, <1>6, <1>8, <1>9, <1>10, <1>11, PoSideKeeps

\* The tasks when no thread gets a task into its hands.
LEMMA PoTasksMoved ==
  ASSUME PoTasksOnce, PoDistinct(poMQ'), \A m : PoAmong(poMQ', m) => m \in poIn',
         \A t \in PoThreads : poT'[t].pc = "invoke" =>
           /\ poT[t].pc = "invoke" /\ poT'[t].c = poT[t].c
           /\ poT[t].c \in poIn' /\ ~PoAmong(poMQ', poT[t].c)
  PROVE  PoTasksOnce'
<1>1. ASSUME NEW t \in PoThreads, poT'[t].pc = "invoke"
      PROVE  /\ poT'[t].c \in PoTasks /\ poT'[t].c \in poIn' /\ ~PoAmong(poMQ', poT'[t].c)
             /\ \A u \in PoThreads : PoInvokes(u, poT[t].c)' => u = t
  <2>1. poT[t].pc = "invoke" /\ poT'[t].c = poT[t].c
    BY <1>1
  <2>2. poT[t].c \in PoTasks /\ \A u \in PoThreads : PoInvokes(u, poT[t].c) => u = t
    BY <2>1 DEF PoTasksOnce
  <2>3. \A u \in PoThreads : PoInvokes(u, poT[t].c)' => PoInvokes(u, poT[t].c)
    BY <2>1 DEF PoInvokes
  <2> QED BY <1>1, <2>1, <2>2, <2>3
<1>2. ASSUME NEW t \in PoThreads, poT'[t].pc = "invoke"
      PROVE  /\ poT'[t].c \in PoTasks /\ poT'[t].c \in poIn' /\ ~PoAmong(poMQ', poT'[t].c)
             /\ \A u \in PoThreads : poT'[u].pc = "invoke" /\ poT'[u].c = poT'[t].c => u = t
  BY <1>1, <1>2 DEF PoInvokes
<1> QED BY <1>2 DEF PoTasksOnce, PoInvokes

\* A queue whose head went to its end.
LEMMA PoRotated ==
  ASSUME NEW S, NEW q \in Seq(S), q # <<>>, PoDistinct(q)
  PROVE  /\ Append(Tail(q), Head(q)) \in Seq(S) /\ PoDistinct(Append(Tail(q), Head(q)))
         /\ \A x : PoAmong(Append(Tail(q), Head(q)), x) <=> PoAmong(q, x)
<1>1. PICK r \in Seq(S) : r = Tail(q) /\ PoDistinct(r)
  BY PoTailed
<1>2. PICK e \in S : e = Head(q) /\ ~PoAmong(r, e)
  BY <1>1, PoTailed
<1>3. \A x : PoAmong(q, x) <=> PoAmong(r, x) \/ x = e
  BY <1>1, <1>2, PoTailed
<1>4. /\ Append(r, e) \in Seq(S) /\ PoDistinct(Append(r, e))
      /\ \A x : PoAmong(Append(r, e), x) <=> PoAmong(r, x) \/ x = e
  BY <1>1, <1>2, PoAppended
<1> QED BY <1>1, <1>2, <1>3, <1>4

\* A step of a thread on the tasks: its record changes to one at "loop", "invoke" or "done".
LEMMA PoTaskStepKeeps ==
  ASSUME PoInv, NEW t \in PoThreads, NEW th \in PoThread, poT' = [poT EXCEPT ![t] = th],
         UNCHANGED <<poSet, poPhase, poSeq, poCur, poQ, poAdding, poNext, poDropCount, poStop,
                     poLog, poLate>>,
         poMQ' \in Seq(PoTasks), poDrops' \in [PoAll -> Nat],
         poIn' \subseteq poIn, poIn' \cap PoConsumers = poIn \cap PoConsumers,
         \A c \in PoConsumers : poDrops'[c] = poDrops[c],
         poT[t].pc \in {"task", "invoke", "cleanup"}, th.pc \in {"loop", "invoke", "cleanup", "done"},
         th.pc \in {"cleanup", "done"} => poT[t].pc = "cleanup",
         th.pc \in {"loop", "invoke"} => poT[t].pc \in {"task", "invoke"},
         th.pc = "done" => poIn \cap PoTasks = {},
         th.b <= th.e, th.e <= poSeq, th.left <= th.n, PoTasksOnce'
  PROVE  PoInv'
<1> USE DEF PoPoints, PoBusy, PoRound, PoHand, PoEnding
<1>0. PoTypes /\ PoLimits /\ PoRoundOf(t) /\ PoEnds
  BY DEF PoInv, PoLimits
<1>2. PICK v \in Int : /\ poCur' = [poCur EXCEPT ![poSet.slot[t]] = v] /\ PoDead <= v /\ v <= poSeq
                       /\ v = poCur[poSet.slot[t]]
  BY <1>0, PoSameCursor
<1>3. poT'[t] = th /\ \A u \in PoThreads : u # t => poT'[u] = poT[u]
  BY <1>0 DEF PoTypes
<1>4. PoRoundOf(t)'
  BY <1>0, <1>3 DEF PoRoundOf
<1>5. PoEnds'
  <2>1. ASSUME NEW u \in PoThreads, poT'[u].pc \in PoEnding
        PROVE  poT[u].pc \in PoEnding /\ PoLeftIn(u)' = PoLeftIn(u)
    <3>1. CASE u = t
      BY <1>3, <2>1, <3>1 DEF PoLeftIn
    <3>2. CASE u # t
      BY <1>3, <2>1, <3>2 DEF PoLeftIn
    <3> QED BY <3>1, <3>2
  <2>2. \A u \in PoThreads : poT'[u].pc \in PoEnding =>
          poStop' /\ \A i \in 1..Len(poQ'[u]) : PoLeftIn(u)' < i => poQ'[u][i] \in poLate'
    <3> HIDE DEF PoEnding
    <3> QED BY <1>0, <2>1 DEF PoEnds
  <2>3. \A u \in PoThreads : poT'[u].pc = "done" => poIn' \cap PoTasks = {}
    BY <1>0, <1>3 DEF PoEnds
  <2> QED BY <1>0, <2>2, <2>3 DEF PoEnds
<1>6. /\ poT[t].pc \notin PoHand \cup {"off"} /\ th.pc \notin PoHand /\ poIn' \subseteq PoAll
  BY <1>0 DEF PoTypes
<1> QED BY <1>2, <1>4, <1>5, <1>6, PoSideKeeps

\* A thread takes a task, or turns the queue of the tasks (PoTake).
LEMMA PoTakeKeeps == ASSUME PoInv, NEW t \in PoThreads, PoTake(t) PROVE PoInv'
<1>0. /\ PoTypes /\ PoRoundOf(t) /\ poT[t] \in PoThread /\ PoTasksOnce /\ poT[t].pc = "task"
      /\ poMQ \in Seq(PoTasks) /\ PoDistinct(poMQ)
  BY DEF PoInv, PoTypes, PoLimits, PoTake, PoTasksOnce
<1>1. UNCHANGED <<poSet, poPhase, poSeq, poCur, poQ, poAdding, poNext, poDropCount, poIn, poStop,
                  poLog, poDrops, poLate>>
  BY DEF PoTake, poLife, poRing, poCallbacks
<1>2. poDrops' \in [PoAll -> Nat] /\ poT[t].b <= poT[t].e /\ poT[t].e <= poSeq /\ poT[t].left <= poT[t].n
  BY <1>0, <1>1 DEF PoTypes, PoRoundOf
<1>3. ASSUME poT' = [poT EXCEPT ![t].pc = "loop"],
             poMQ' \in Seq(PoTasks), PoDistinct(poMQ'), \A m : PoAmong(poMQ', m) <=> PoAmong(poMQ, m)
      PROVE  PoInv'
  <2> DEFINE th == [poT[t] EXCEPT !.pc = "loop"]
  <2>1. /\ th \in PoThread /\ th.pc = "loop" /\ th.b = poT[t].b /\ th.e = poT[t].e
        /\ th.n = poT[t].n /\ th.left = poT[t].left
    BY <1>0 DEF PoThread, PoPoints, PoBusy
  <2>2. poT' = [poT EXCEPT ![t] = th]
    BY <1>3
  <2> HIDE DEF th
  <2>3. poT'[t] = th /\ \A u \in PoThreads : u # t => poT'[u] = poT[u]
    BY <1>0, <2>2 DEF PoTypes
  <2>4. PoTasksOnce'
    <3>1. \A u \in PoThreads : poT'[u].pc = "invoke" =>
           /\ poT[u].pc = "invoke" /\ poT'[u].c = poT[u].c
           /\ poT[u].c \in poIn' /\ ~PoAmong(poMQ', poT[u].c)
      BY <1>0, <1>1, <1>3, <2>1, <2>3 DEF PoTasksOnce
    <3>2. \A m : PoAmong(poMQ', m) => m \in poIn'
      BY <1>0, <1>1, <1>3 DEF PoTasksOnce
    <3> QED BY <1>0, <1>3, <3>1, <3>2, PoTasksMoved
  <2> QED BY <1>0, <1>1, <1>2, <1>3, <2>1, <2>2, <2>4, PoTaskStepKeeps
<1>4. CASE poStop \/ poMQ = <<>>
  <2>1. poT' = [poT EXCEPT ![t].pc = "loop"] /\ poMQ' = poMQ
    BY <1>4 DEF PoTake, PoGoes
  <2> QED BY <1>0, <1>3, <2>1
<1>5. CASE ~(poStop \/ poMQ = <<>>) /\ t \notin PoAffinity(Head(poMQ))
  <2>1. poT' = [poT EXCEPT ![t].pc = "loop"] /\ poMQ' = Append(Tail(poMQ), Head(poMQ))
    BY <1>5 DEF PoTake, PoGoes
  <2> QED BY <1>0, <1>3, <1>5, <2>1, PoRotated
<1>6. CASE ~(poStop \/ poMQ = <<>>) /\ t \in PoAffinity(Head(poMQ))
  <2>1. PICK m \in PoTasks : m = Head(poMQ)
    BY <1>0, <1>6, PoTailed
  <2>2. poT' = [poT EXCEPT ![t].pc = "invoke", ![t].c = m] /\ poMQ' = Tail(poMQ)
    BY <1>6, <2>1 DEF PoTake
  <2> DEFINE th == [poT[t] EXCEPT !.pc = "invoke", !.c = m]
  <2>3. /\ th \in PoThread /\ th.pc = "invoke" /\ th.b = poT[t].b /\ th.e = poT[t].e
        /\ th.n = poT[t].n /\ th.left = poT[t].left /\ th.c = m
    BY <1>0 DEF PoThread, PoPoints, PoBusy, PoAll
  <2>4. poT' = [poT EXCEPT ![t] = th]
    BY <1>0, <2>2 DEF PoTypes
  <2> HIDE DEF th
  <2>5. poT'[t] = th /\ \A u \in PoThreads : u # t => poT'[u] = poT[u]
    BY <1>0, <2>4 DEF PoTypes
  <2>6. /\ poMQ' \in Seq(PoTasks) /\ PoDistinct(poMQ') /\ ~PoAmong(poMQ', m)
        /\ \A x : PoAmong(poMQ, x) <=> PoAmong(poMQ', x) \/ x = m
    BY <1>0, <1>6, <2>1, <2>2, PoTailed
  <2>7. PoTasksOnce'
    <3>1. \A x : PoAmong(poMQ', x) => x \in poIn'
      BY <1>0, <1>1, <2>6 DEF PoTasksOnce
    <3>2. m \in poIn
      BY <1>0, <2>6 DEF PoTasksOnce
    <3>3. ASSUME NEW u \in PoThreads, poT'[u].pc = "invoke"
          PROVE  /\ poT'[u].c \in PoTasks /\ poT'[u].c \in poIn' /\ ~PoAmong(poMQ', poT'[u].c)
                 /\ \A v \in PoThreads : poT'[v].pc = "invoke" /\ poT'[v].c = poT'[u].c => v = u
      <4>1. \A v \in PoThreads : v # t /\ poT'[v].pc = "invoke" =>
              /\ poT'[v].c # m /\ poT'[v].c \in PoTasks /\ poT'[v].c \in poIn'
              /\ ~PoAmong(poMQ', poT'[v].c)
        BY <1>0, <1>1, <2>5, <2>6 DEF PoTasksOnce
      <4>2. CASE u = t
        BY <1>1, <2>3, <2>5, <2>6, <3>2, <4>1, <4>2
      <4>3. CASE u # t
        BY <1>0, <2>3, <2>5, <3>3, <4>1, <4>3 DEF PoTasksOnce, PoInvokes
      <4> QED BY <4>2, <4>3
    <3> QED BY <2>6, <3>1, <3>3 DEF PoTasksOnce, PoInvokes
  <2> QED BY <1>0, <1>1, <1>2, <2>3, <2>4, <2>6, <2>7, PoTaskStepKeeps
<1> QED BY <1>4, <1>5, <1>6

\* PoIdleThread at "loop", after an invocation.
LEMMA PoLoopWhat ==
  LET r == [PoIdleThread EXCEPT !.pc = "loop"]
  IN  r \in PoThread /\ r.pc = "loop" /\ r.b = 0 /\ r.e = 0 /\ r.n = 0 /\ r.left = 0
<1>1. "loop" \in PoPoints
  BY DEF PoPoints, PoBusy
<1> QED BY <1>1, PoIdleWhat

\* A task runs and goes back to the queue (PoInvoke).
LEMMA PoInvokeKeeps == ASSUME PoInv, NEW t \in PoThreads, PoInvoke(t) PROVE PoInv'
<1>0. /\ PoTypes /\ PoRoundOf(t) /\ poT[t] \in PoThread /\ PoTasksOnce /\ poT[t].pc = "invoke"
      /\ poMQ \in Seq(PoTasks) /\ PoDistinct(poMQ) /\ PoLimits /\ PoEnds
  BY DEF PoInv, PoTypes, PoLimits, PoInvoke, PoTasksOnce
<1>1. UNCHANGED <<poSet, poPhase, poSeq, poCur, poQ, poAdding, poNext, poDropCount, poIn, poStop,
                  poLog, poDrops, poLate>>
  BY DEF PoInvoke, poLife, poRing, poCallbacks
<1>2. PICK m \in PoTasks : m = poT[t].c /\ m \in poIn /\ ~PoAmong(poMQ, m)
  BY <1>0 DEF PoTasksOnce
<1>3. poDrops' \in [PoAll -> Nat] /\ poSeq \in Nat
  BY <1>0, <1>1, PoSeqNat DEF PoTypes
<1>4. CASE PoHogs(t)
  <2>1. UNCHANGED <<poT, poMQ>>
    BY <1>4 DEF PoInvoke
  <2>2. PoTypes' /\ PoLimits' /\ PoTasksOnce' /\ PoEnds'
    <3>1. PoTypes'
      BY <1>0, <1>1, <2>1 DEF PoTypes
    <3>2. PoLimits'
      BY <1>0, <1>1, <2>1 DEF PoLimits, PoRoundOf
    <3>3. PoTasksOnce'
      BY <1>0, <1>1, <2>1, PoTasksKept
    <3>4. PoEnds'
      BY <1>0, <1>1, <2>1, PoEndsKept DEF PoLeftIn
    <3> QED BY <3>1, <3>2, <3>3, <3>4
  <2> QED BY <1>1, <2>1, <2>2, PoNobodyMoves
<1>5. CASE ~PoHogs(t)
  <2> DEFINE th == [PoIdleThread EXCEPT !.pc = "loop"]
  <2>1. poT' = [poT EXCEPT ![t] = th] /\ poMQ' = Append(poMQ, m)
    BY <1>2, <1>5 DEF PoInvoke
  <2>2. th \in PoThread /\ th.pc = "loop" /\ th.b = 0 /\ th.e = 0 /\ th.n = 0 /\ th.left = 0
    BY PoLoopWhat
  <2> HIDE DEF th
  <2>3. poT'[t] = th /\ \A u \in PoThreads : u # t => poT'[u] = poT[u]
    BY <1>0, <2>1 DEF PoTypes
  <2>4. /\ poMQ' \in Seq(PoTasks) /\ PoDistinct(poMQ')
        /\ \A x : PoAmong(poMQ', x) <=> PoAmong(poMQ, x) \/ x = m
    BY <1>0, <1>2, <2>1, PoAppended
  <2>5. PoTasksOnce'
    <3>1. ASSUME NEW u \in PoThreads, poT'[u].pc = "invoke"
          PROVE  /\ poT[u].pc = "invoke" /\ poT'[u].c = poT[u].c
                 /\ poT[u].c \in poIn' /\ ~PoAmong(poMQ', poT[u].c)
      <4>1. u # t /\ poT'[u] = poT[u]
        BY <2>2, <2>3, <3>1
      <4>2. poT[u].c # m
        BY <1>0, <1>2, <3>1, <4>1 DEF PoTasksOnce, PoInvokes
      <4> QED BY <1>0, <1>1, <2>4, <3>1, <4>1, <4>2 DEF PoTasksOnce
    <3>2. \A x : PoAmong(poMQ', x) => x \in poIn'
      BY <1>0, <1>1, <1>2, <2>4 DEF PoTasksOnce
    <3> QED BY <1>0, <2>4, <3>1, <3>2, PoTasksMoved
  <2>9. /\ poT[t].pc \in {"task", "invoke", "cleanup"}
        /\ th.pc \in {"loop", "invoke", "cleanup", "done"}
        /\ th.pc \in {"cleanup", "done"} => poT[t].pc = "cleanup"
        /\ th.pc \in {"loop", "invoke"} => poT[t].pc \in {"task", "invoke"}
        /\ th.pc = "done" => poIn \cap PoTasks = {}
        /\ th.b <= th.e /\ th.e <= poSeq /\ th.left <= th.n
    BY <1>0, <1>3, <2>2
  <2> QED BY <1>1, <1>3, <2>1, <2>2, <2>4, <2>5, <2>9, PoTaskStepKeeps
<1> QED BY <1>4, <1>5

\* A task throws and is dropped, or put back (PoInvokeThrows).
LEMMA PoInvokeThrowsKeeps == ASSUME PoInv, NEW t \in PoThreads, PoInvokeThrows(t) PROVE PoInv'
<1>0. /\ PoTypes /\ PoRoundOf(t) /\ poT[t] \in PoThread /\ PoTasksOnce /\ poT[t].pc = "invoke"
      /\ poMQ \in Seq(PoTasks) /\ PoDistinct(poMQ)
  BY DEF PoInv, PoTypes, PoLimits, PoInvokeThrows, PoTasksOnce
<1>1. UNCHANGED <<poSet, poPhase, poSeq, poCur, poQ, poAdding, poNext, poDropCount, poStop,
                  poLog, poLate>>
  BY DEF PoInvokeThrows, poLife, poRing
<1>2. PICK m \in PoTasks : m = poT[t].c /\ m \in poIn /\ ~PoAmong(poMQ, m)
  BY <1>0 DEF PoTasksOnce
<1>3. m \in PoAll /\ m \notin PoConsumers /\ poSeq \in Nat
  BY <1>0, <1>2, PoSetting, PoSeqNat DEF PoTypes, PoAll
<1> DEFINE th == [PoIdleThread EXCEPT !.pc = "loop"]
<1>4. poT' = [poT EXCEPT ![t] = th]
  BY DEF PoInvokeThrows
<1>5. th \in PoThread /\ th.pc = "loop" /\ th.b = 0 /\ th.e = 0 /\ th.n = 0 /\ th.left = 0
  BY PoLoopWhat
<1> HIDE DEF th
<1>6. poT'[t] = th /\ \A u \in PoThreads : u # t => poT'[u] = poT[u]
  BY <1>0, <1>4 DEF PoTypes
<1>7. ASSUME NEW u \in PoThreads, poT'[u].pc = "invoke"
      PROVE  /\ u # t /\ poT'[u] = poT[u] /\ poT[u].pc = "invoke" /\ poT[u].c # m
             /\ poT[u].c \in poIn /\ ~PoAmong(poMQ, poT[u].c)
  <2>1. u # t /\ poT'[u] = poT[u]
    BY <1>5, <1>6, <1>7
  <2> QED BY <1>0, <1>2, <1>7, <2>1 DEF PoTasksOnce, PoInvokes
<1>8. CASE poIn' = poIn \ {m} /\ PoCalled(m) /\ poMQ' = poMQ
  <2>1. poDrops' \in [PoAll -> Nat] /\ \A c \in PoConsumers : poDrops'[c] = poDrops[c]
    <3>1. poDrops[m] + 1 \in Nat
      BY <1>0, <1>3 DEF PoTypes
    <3>2. poDrops' = [poDrops EXCEPT ![m] = poDrops[m] + 1]
      BY <1>8 DEF PoCalled
    <3> QED BY <1>0, <1>3, <3>1, <3>2 DEF PoTypes, PoAll
  <2>2. poIn' \subseteq poIn /\ poIn' \cap PoConsumers = poIn \cap PoConsumers
    BY <1>3, <1>8
  <2>3. PoTasksOnce'
    <3>1. \A u \in PoThreads : poT'[u].pc = "invoke" =>
            /\ poT[u].pc = "invoke" /\ poT'[u].c = poT[u].c
            /\ poT[u].c \in poIn' /\ ~PoAmong(poMQ', poT[u].c)
      BY <1>7, <1>8
    <3>2. \A x : PoAmong(poMQ', x) => x \in poIn'
      BY <1>0, <1>2, <1>8 DEF PoTasksOnce
    <3> QED BY <1>0, <1>8, <3>1, <3>2, PoTasksMoved
  <2>9. /\ poT[t].pc \in {"task", "invoke", "cleanup"}
        /\ th.pc \in {"loop", "invoke", "cleanup", "done"}
        /\ th.pc \in {"cleanup", "done"} => poT[t].pc = "cleanup"
        /\ th.pc \in {"loop", "invoke"} => poT[t].pc \in {"task", "invoke"}
        /\ th.pc = "done" => poIn \cap PoTasks = {}
        /\ th.b <= th.e /\ th.e <= poSeq /\ th.left <= th.n
    BY <1>0, <1>3, <1>5
  <2>10. poMQ' \in Seq(PoTasks)
    BY <1>0, <1>8
  <2> QED BY <1>1, <1>4, <1>5, <2>1, <2>2, <2>3, <2>9, <2>10, PoTaskStepKeeps
<1>9. CASE poMQ' = Append(poMQ, m) /\ UNCHANGED <<poIn, poDrops>>
  <2>1. /\ poMQ' \in Seq(PoTasks) /\ PoDistinct(poMQ')
        /\ \A x : PoAmong(poMQ', x) <=> PoAmong(poMQ, x) \/ x = m
    BY <1>0, <1>2, <1>9, PoAppended
  <2>2. PoTasksOnce'
    <3>1. \A u \in PoThreads : poT'[u].pc = "invoke" =>
            /\ poT[u].pc = "invoke" /\ poT'[u].c = poT[u].c
            /\ poT[u].c \in poIn' /\ ~PoAmong(poMQ', poT[u].c)
      BY <1>7, <1>9, <2>1
    <3>2. \A x : PoAmong(poMQ', x) => x \in poIn'
      BY <1>0, <1>2, <1>9, <2>1 DEF PoTasksOnce
    <3> QED BY <1>0, <2>1, <3>1, <3>2, PoTasksMoved
  <2>3. poDrops' \in [PoAll -> Nat]
    BY <1>0, <1>9 DEF PoTypes
  <2>9. /\ poT[t].pc \in {"task", "invoke", "cleanup"}
        /\ th.pc \in {"loop", "invoke", "cleanup", "done"}
        /\ th.pc \in {"cleanup", "done"} => poT[t].pc = "cleanup"
        /\ th.pc \in {"loop", "invoke"} => poT[t].pc \in {"task", "invoke"}
        /\ th.pc = "done" => poIn \cap PoTasks = {}
        /\ th.b <= th.e /\ th.e <= poSeq /\ th.left <= th.n
    BY <1>0, <1>3, <1>5
  <2> QED BY <1>1, <1>3, <1>4, <1>5, <1>9, <2>1, <2>2, <2>3, <2>9, PoTaskStepKeeps
<1> QED BY <1>2, <1>8, <1>9 DEF PoInvokeThrows

\* A thread that ends drops the tasks that are left (PoCleanup).
LEMMA PoCleanupKeeps == ASSUME PoInv, NEW t \in PoThreads, PoCleanup(t) PROVE PoInv'
<1>0. /\ PoTypes /\ PoRoundOf(t) /\ poT[t] \in PoThread /\ PoTasksOnce /\ poT[t].pc = "cleanup"
      /\ poMQ \in Seq(PoTasks) /\ PoDistinct(poMQ)
  BY DEF PoInv, PoTypes, PoLimits, PoCleanup, PoTasksOnce
<1>1. UNCHANGED <<poSet, poPhase, poSeq, poCur, poQ, poAdding, poNext, poDropCount, poStop,
                  poLog, poLate>>
  BY DEF PoCleanup, poLife, poRing
<1>2. poT[t].b <= poT[t].e /\ poT[t].e <= poSeq /\ poT[t].left <= poT[t].n
  BY <1>0 DEF PoRoundOf
<1>3. CASE poIn \cap PoTasks = {}
  <2> DEFINE th == [poT[t] EXCEPT !.pc = "done"]
  <2>1. poT' = [poT EXCEPT ![t] = th] /\ UNCHANGED <<poMQ, poIn, poDrops>>
    BY <1>3 DEF PoCleanup, PoGoes
  <2>2. /\ th \in PoThread /\ th.pc = "done" /\ th.b = poT[t].b /\ th.e = poT[t].e
        /\ th.n = poT[t].n /\ th.left = poT[t].left
    BY <1>0 DEF PoThread, PoPoints, PoEnding
  <2> HIDE DEF th
  <2>3. poT'[t] = th /\ \A u \in PoThreads : u # t => poT'[u] = poT[u]
    BY <1>0, <2>1 DEF PoTypes
  <2>4. PoTasksOnce'
    <3>1. \A u \in PoThreads :
            poT'[u].pc = "invoke" => poT[u].pc = "invoke" /\ poT'[u].c = poT[u].c
      BY <2>2, <2>3
    <3> QED BY <1>0, <2>1, <3>1, PoTasksKept
  <2>5. poMQ' \in Seq(PoTasks) /\ poDrops' \in [PoAll -> Nat]
    BY <1>0, <2>1 DEF PoTypes
  <2> QED BY <1>0, <1>1, <1>2, <1>3, <2>1, <2>2, <2>4, <2>5, PoTaskStepKeeps
<1>4. ASSUME poIn \cap PoTasks # {},
             poIn' \subseteq poIn, poIn' \cap PoConsumers = poIn \cap PoConsumers,
             poMQ' \in Seq(PoTasks), poDrops' \in [PoAll -> Nat],
             \A c \in PoConsumers : poDrops'[c] = poDrops[c], PoDistinct(poMQ'),
             \A x : PoAmong(poMQ', x) => x \in poIn' /\ PoAmong(poMQ, x),
             \A u \in PoThreads : poT[u].pc = "invoke" => poT[u].c \in poIn'
      PROVE  PoInv'
  <2>1. PICK th \in PoThread : th = poT[t]
    BY <1>0
  <2>2. poT' = poT /\ poT' = [poT EXCEPT ![t] = th]
    BY <1>0, <1>4, <2>1 DEF PoCleanup, PoTypes
  <2>3. PoTasksOnce'
    <3>1. \A u \in PoThreads : poT'[u].pc = "invoke" =>
            /\ poT[u].pc = "invoke" /\ poT'[u].c = poT[u].c
            /\ poT[u].c \in poIn' /\ ~PoAmong(poMQ', poT[u].c)
      BY <1>0, <1>4, <2>2 DEF PoTasksOnce
    <3> QED BY <1>0, <1>4, <3>1, PoTasksMoved
  <2> QED BY <1>0, <1>1, <1>2, <1>4, <2>1, <2>2, <2>3, PoTaskStepKeeps
<1>5. CASE poIn \cap PoTasks # {} /\ PoCleanupKey(t) \in PoAffinity(Head(poMQ))
  <2>1. poMQ # <<>> /\ poMQ' = Tail(poMQ) /\ poIn' = poIn \ {Head(poMQ)} /\ PoCalled(Head(poMQ))
    BY <1>5 DEF PoCleanup
  <2>2. PICK m \in PoTasks : m = Head(poMQ)
    BY <1>0, <2>1, PoTailed
  <2>3. /\ poMQ' \in Seq(PoTasks) /\ PoDistinct(poMQ') /\ ~PoAmong(poMQ', m)
        /\ \A x : PoAmong(poMQ, x) <=> PoAmong(poMQ', x) \/ x = m
    BY <1>0, <2>1, <2>2, PoTailed
  <2>4. m \in PoAll /\ m \notin PoConsumers
    BY <1>0, <2>2, PoSetting DEF PoTypes, PoAll
  <2>5. poDrops' \in [PoAll -> Nat] /\ \A c \in PoConsumers : poDrops'[c] = poDrops[c]
    <3>1. poDrops[m] + 1 \in Nat
      BY <1>0, <2>4 DEF PoTypes
    <3>2. poDrops' = [poDrops EXCEPT ![m] = poDrops[m] + 1]
      BY <2>1, <2>2 DEF PoCalled
    <3> QED BY <1>0, <2>4, <3>1, <3>2 DEF PoTypes, PoAll
  <2>6. \A u \in PoThreads : poT[u].pc = "invoke" => poT[u].c \in poIn'
    BY <1>0, <2>1, <2>2, <2>3 DEF PoTasksOnce
  <2>7. \A x : PoAmong(poMQ', x) => x \in poIn' /\ PoAmong(poMQ, x)
    BY <1>0, <2>1, <2>2, <2>3 DEF PoTasksOnce
  <2>8. poIn' \subseteq poIn /\ poIn' \cap PoConsumers = poIn \cap PoConsumers
    BY <2>1, <2>2, <2>4
  <2> QED BY <1>4, <1>5, <2>3, <2>5, <2>6, <2>7, <2>8
<1>6. CASE poIn \cap PoTasks # {} /\ PoCleanupKey(t) \notin PoAffinity(Head(poMQ))
  <2>1. poMQ # <<>> /\ poMQ' = Append(Tail(poMQ), Head(poMQ)) /\ UNCHANGED <<poIn, poDrops>>
    BY <1>6 DEF PoCleanup
  <2>2. /\ poMQ' \in Seq(PoTasks) /\ PoDistinct(poMQ')
        /\ \A x : PoAmong(poMQ', x) <=> PoAmong(poMQ, x)
    BY <1>0, <2>1, PoRotated
  <2>3. /\ \A x : PoAmong(poMQ', x) => x \in poIn' /\ PoAmong(poMQ, x)
        /\ \A u \in PoThreads : poT[u].pc = "invoke" => poT[u].c \in poIn'
    BY <1>0, <2>1, <2>2 DEF PoTasksOnce
  <2>4. poDrops' \in [PoAll -> Nat]
    BY <1>0, <2>1 DEF PoTypes
  <2> QED BY <1>4, <1>6, <2>1, <2>2, <2>3, <2>4
<1> QED BY <1>3, <1>5, <1>6

\* A task is added (PoAddTask).
LEMMA PoAddTaskKeeps == ASSUME PoInv, NEW m \in PoTasks, PoAddTask(m) PROVE PoInv'
<1>0. /\ PoTypes /\ PoLimits /\ PoTasksOnce /\ PoEnds /\ ~poStop /\ m \notin poIn
      /\ poMQ \in Seq(PoTasks) /\ PoDistinct(poMQ)
  BY DEF PoInv, PoTypes, PoTasksOnce, PoAddTask
<1>1. /\ UNCHANGED <<poSet, poPhase, poSeq, poCur, poT, poQ, poAdding, poNext, poDropCount, poStop,
                     poLog, poDrops, poLate>>
      /\ poIn' = poIn \cup {m} /\ poMQ' = Append(poMQ, m)
  BY DEF PoAddTask, poLife, poRing, poCallbacks
<1>2. m \notin PoConsumers /\ m \in PoAll /\ ~PoAmong(poMQ, m)
  BY <1>0, PoSetting DEF PoTypes, PoAll, PoTasksOnce
<1>3. /\ poMQ' \in Seq(PoTasks) /\ PoDistinct(poMQ')
      /\ \A x : PoAmong(poMQ', x) <=> PoAmong(poMQ, x) \/ x = m
  BY <1>0, <1>1, <1>2, PoAppended
<1>4. PoTypes'
  BY <1>0, <1>1, <1>2, <1>3 DEF PoTypes
<1>5. PoLimits'
  BY <1>0, <1>1 DEF PoLimits, PoRoundOf
<1>6. PoTasksOnce'
  <2>1. \A u \in PoThreads : poT'[u].pc = "invoke" =>
          /\ poT[u].pc = "invoke" /\ poT'[u].c = poT[u].c
          /\ poT[u].c \in poIn' /\ ~PoAmong(poMQ', poT[u].c)
    BY <1>0, <1>1, <1>3 DEF PoTasksOnce
  <2>2. \A x : PoAmong(poMQ', x) => x \in poIn'
    BY <1>0, <1>1, <1>3 DEF PoTasksOnce
  <2> QED BY <1>0, <1>3, <2>1, <2>2, PoTasksMoved
<1>7. PoEnds'
  BY <1>0, <1>1, PoEndsKept DEF PoLeftIn
<1>8. poIn' \cap PoConsumers = poIn \cap PoConsumers
  BY <1>1, <1>2
<1> QED BY <1>1, <1>4, <1>5, <1>6, <1>7, <1>8, PoNobodyMoves

\* Who gave a consumer up.
LEMMA PoAwayWhat ==
  ASSUME poSet \in PoSettings, NEW c \in PoConsumers
  PROVE  /\ IsFiniteSet(PoServers(c)) /\ IsFiniteSet(PoAway(c)) /\ PoAway(c) \subseteq PoServers(c)
         /\ Cardinality(PoServers(c)) \in Nat /\ Cardinality(PoAway(c)) \in Nat
         /\ PoServers(c) # {} => Cardinality(PoServers(c)) > 0
<1>1. IsFiniteSet(PoThreads)
  BY PoSetting
<1>2. PoServers(c) \subseteq PoThreads /\ PoAway(c) \subseteq PoServers(c)
  BY DEF PoServers, PoAway
<1>3. IsFiniteSet(PoServers(c))
  BY <1>1, <1>2, FS_Subset
<1>4. IsFiniteSet(PoAway(c))
  BY <1>2, <1>3, FS_Subset
<1>5. Cardinality(PoServers(c)) \in Nat /\ Cardinality(PoAway(c)) \in Nat
  BY <1>3, <1>4, FS_CardinalityType
<1>6. PoServers(c) # {} => Cardinality(PoServers(c)) # 0
  BY <1>3, FS_EmptySet
<1> QED BY <1>2, <1>3, <1>4, <1>5, <1>6

\* A thread gives a consumer up; the last one drops it.
LEMMA PoGivenUp ==
  ASSUME PoTypes, PoPlaces, PoCounts, NEW t \in PoThreads, NEW c \in PoConsumers,
         PoHas(t, c), ~PoHas(t, c)',
         \A u \in PoThreads, d \in PoConsumers : u # t \/ d # c => (PoHas(u, d)' <=> PoHas(u, d)),
         UNCHANGED <<poSet, poNext, poLog, poStop>>, poNext[c] = PoSTOP \/ poStop,
         poDropCount' = [poDropCount EXCEPT ![c] = @ + 1],
         IF PoLastToDrop(c) THEN poIn' = poIn \ {c} /\ PoCalled(c) ELSE UNCHANGED <<poIn, poDrops>>
  PROVE  /\ PoCounts' /\ poIn' \subseteq PoAll /\ poIn' \cap PoTasks = poIn \cap PoTasks
         /\ poDropCount' \in [PoConsumers -> Nat] /\ poDrops' \in [PoAll -> Nat]
         /\ poIn' \subseteq poIn
         /\ \A u \in PoThreads, d \in PoConsumers : PoHas(u, d)' => d \in poIn'
<1>1. c \in poIn /\ t \in PoServers(c)
  BY DEF PoPlaces, PoPlaceOf, PoServers
<1>2. /\ poDrops[c] = 0 /\ poDropCount[c] = Cardinality(PoAway(c))
      /\ poDropCount[c] < Cardinality(PoServers(c)) /\ poDropCount[c] \in Nat
  BY <1>1 DEF PoCounts, PoCountOf, PoTypes
<1>3. PICK n \in Nat : n = poDropCount[c]
  BY <1>2
<1>4. poDropCount' = [poDropCount EXCEPT ![c] = n + 1]
  BY <1>3
<1>5. /\ poDropCount' \in [PoConsumers -> Nat] /\ poDropCount'[c] = n + 1
      /\ \A d \in PoConsumers : d # c => poDropCount'[d] = poDropCount[d]
  <2>1. n + 1 \in Nat
    OBVIOUS
  <2> QED BY <1>4, <2>1, PoReplaced DEF PoTypes
<1>6. \A d \in PoConsumers : PoServers(d)' = PoServers(d)
  BY DEF PoServers, PoAffinity
<1>7. PoAway(c)' = PoAway(c) \cup {t} /\ t \notin PoAway(c)
  <2>1. PoServers(c) \subseteq PoThreads /\ PoServers(c)' = PoServers(c)
    BY <1>6 DEF PoServers
  <2> QED BY <1>1, <2>1 DEF PoAway
<1>8. Cardinality(PoAway(c)') = n + 1
  <2>1. IsFiniteSet(PoAway(c))
    BY PoAwayWhat DEF PoTypes
  <2>2. Cardinality(PoAway(c) \cup {t}) = Cardinality(PoAway(c)) + 1
    BY <1>7, <2>1, FS_AddElement
  <2> QED BY <1>2, <1>3, <1>7, <2>2
<1>9. c \in PoAll /\ c \notin PoTasks
  BY PoSetting DEF PoAll, PoTypes
<1>10. Cardinality(PoServers(c)) \in Nat
  BY PoAwayWhat DEF PoTypes
<1>11. CASE ~PoLastToDrop(c)
  <2>1. UNCHANGED <<poIn, poDrops>> /\ n + 1 # Cardinality(PoServers(c))
    BY <1>3, <1>11 DEF PoLastToDrop
  <2>2. PoCountOf(c)'
    BY <1>1, <1>2, <1>3, <1>5, <1>6, <1>8, <1>10, <2>1 DEF PoCountOf
  <2>3. ASSUME NEW d \in PoConsumers, d # c PROVE PoCountOf(d)'
    <3>1. PoAway(d)' = PoAway(d)
      BY <1>6, <2>3 DEF PoAway, PoServers
    <3> QED BY <1>5, <1>6, <2>1, <2>3, <3>1 DEF PoCounts, PoCountOf
  <2>4. PoCounts'
    BY <2>2, <2>3 DEF PoCounts
  <2>5. \A u \in PoThreads, d \in PoConsumers : PoHas(u, d)' => d \in poIn'
    BY <2>1 DEF PoPlaces, PoPlaceOf
  <2> QED BY <1>5, <2>1, <2>4, <2>5 DEF PoTypes
<1>12. CASE PoLastToDrop(c)
  <2>1. poIn' = poIn \ {c} /\ poDrops' = [poDrops EXCEPT ![c] = 1] /\ n + 1 = Cardinality(PoServers(c))
    BY <1>2, <1>3, <1>12 DEF PoLastToDrop, PoCalled
  <2>2. /\ poDrops' \in [PoAll -> Nat] /\ poDrops'[c] = 1
        /\ \A d \in PoAll : d # c => poDrops'[d] = poDrops[d]
    BY <1>9, <2>1, PoReplaced DEF PoTypes
  <2>3. PoCountOf(c)'
    BY <2>1, <2>2 DEF PoCountOf
  <2>4. ASSUME NEW d \in PoConsumers, d # c PROVE PoCountOf(d)'
    <3>1. PoAway(d)' = PoAway(d)
      BY <1>6, <2>4 DEF PoAway, PoServers
    <3>2. poDrops'[d] = poDrops[d] /\ (d \in poIn' <=> d \in poIn)
      BY <2>1, <2>2, <2>4 DEF PoAll
    <3>3. PoCountOf(d)
      BY DEF PoCounts
    <3> QED BY <1>5, <1>6, <2>4, <3>1, <3>2, <3>3 DEF PoCountOf
  <2>5. PoCounts'
    BY <2>3, <2>4 DEF PoCounts
  <2>6. PoAway(c)' = PoServers(c)
    <3>1. IsFiniteSet(PoServers(c)) /\ PoAway(c) \subseteq PoServers(c)
      BY PoAwayWhat DEF PoTypes
    <3>2. PoAway(c)' \subseteq PoServers(c)
      BY <1>1, <1>7, <3>1
    <3> QED BY <1>8, <2>1, <3>1, <3>2, FS_Subset
  <2>7. ASSUME NEW u \in PoThreads PROVE ~PoHas(u, c)'
    <3>1. PoHas(u, c)' => PoHas(u, c)
      OBVIOUS
    <3>2. PoHas(u, c) => u \in PoServers(c)
      BY DEF PoPlaces, PoPlaceOf, PoServers
    <3> QED BY <2>6, <3>1, <3>2 DEF PoAway
  <2>8. ASSUME NEW u \in PoThreads, NEW d \in PoConsumers, PoHas(u, d)' PROVE d \in poIn'
    <3>1. d # c
      BY <2>7, <2>8
    <3> QED BY <2>1, <2>8, <3>1 DEF PoPlaces, PoPlaceOf
  <2> QED BY <1>5, <1>9, <2>1, <2>2, <2>5, <2>8 DEF PoTypes
<1> QED BY <1>11, <1>12

\* A step in which a thread gives up a consumer that was in its queue or its hands.
LEMMA PoGiveUpKeeps ==
  ASSUME PoInv, NEW t \in PoThreads, NEW c \in PoConsumers, PoQueued(t, c) \/ PoHeld(t, c),
         NEW th \in PoThread, poT' = [poT EXCEPT ![t] = th],
         NEW q \in Seq(PoConsumers), poQ' = [poQ EXCEPT ![t] = q], Len(q) <= PoQueueCap,
         PoDistinct(q), ~PoAmong(q, c), \A d : d # c => (PoAmong(q, d) <=> PoAmong(poQ[t], d)),
         UNCHANGED <<poSet, poPhase, poSeq, poCur, poAdding, poNext, poMQ, poStop, poLog, poLate>>,
         poNext[c] = PoSTOP \/ poStop, poDropCount' = [poDropCount EXCEPT ![c] = @ + 1],
         IF PoLastToDrop(c) THEN poIn' = poIn \ {c} /\ PoCalled(c) ELSE UNCHANGED <<poIn, poDrops>>,
         poT[t].pc # "off", poT[t].pc \in PoHand => poT[t].c = c,
         th.pc \notin PoHand \cup {"invoke"}, PoRoundOf(t)',
         th.pc \in PoEnding => poT[t].pc \in PoEnding /\ th.pc # "done",
         th.pc \in PoEnding => \A i \in 1..Len(q) : PoLeftIn(t)' < i => q[i] \in poLate
  PROVE  PoInv'
<1>0. PoTypes /\ PoLimits /\ PoPlaces /\ PoCounts /\ PoNumbers /\ PoTasksOnce /\ PoEnds
  BY DEF PoInv
<1>1. /\ poT' \in [PoThreads -> PoThread] /\ poT'[t] = th
      /\ \A u \in PoThreads : u # t => poT'[u] = poT[u]
  BY <1>0, PoReplaced DEF PoTypes
<1>2. PoThreads \subseteq PoSlots /\ t \in PoSlots
  BY <1>0, PoSetting DEF PoTypes
<1>3. /\ poQ' \in [PoSlots -> Seq(PoConsumers)] /\ poQ'[t] = q
      /\ \A s \in PoSlots : s # t => poQ'[s] = poQ[s]
  BY <1>0, <1>2, PoReplaced DEF PoTypes
<1>4. \A u \in PoThreads, d \in PoConsumers :
        u # t => (PoHeld(u, d)' <=> PoHeld(u, d)) /\ (PoQueued(u, d)' <=> PoQueued(u, d))
  BY <1>1, <1>2, <1>3 DEF PoHeld, PoQueued
<1>5. \A d \in PoConsumers : /\ PoQueued(t, d)' <=> (PoQueued(t, d) /\ d # c)
                             /\ ~PoHeld(t, d)' /\ (PoHeld(t, d) => d = c)
  BY <1>1, <1>3 DEF PoHeld, PoQueued
<1>6. t \notin poAdding[c]
  BY <1>0 DEF PoPlaces, PoPlaceOf
<1>7. PoHas(t, c) /\ ~PoHas(t, c)'
  BY <1>5, <1>6 DEF PoHas
<1>8. \A u \in PoThreads, d \in PoConsumers : u # t \/ d # c => (PoHas(u, d)' <=> PoHas(u, d))
  BY <1>4, <1>5 DEF PoHas
<1>9. /\ PoCounts' /\ poIn' \subseteq PoAll /\ poIn' \cap PoTasks = poIn \cap PoTasks
      /\ poDropCount' \in [PoConsumers -> Nat] /\ poDrops' \in [PoAll -> Nat]
      /\ poIn' \subseteq poIn
      /\ \A u \in PoThreads, d \in PoConsumers : PoHas(u, d)' => d \in poIn'
  BY <1>0, <1>7, <1>8, PoGivenUp
<1>10. PoTypes'
  BY <1>0, <1>1, <1>3, <1>9 DEF PoTypes
<1>11. PoPlaces'
  <2>1. \A u \in PoThreads : PoDistinct(poQ'[u])
    BY <1>0, <1>2, <1>3 DEF PoPlaces
  <2>2. \A u \in PoThreads : poT'[u].pc \in PoHand => poT'[u].c \in PoConsumers
    BY <1>0, <1>1 DEF PoPlaces
  <2>3. ASSUME NEW u \in PoThreads, NEW d \in PoConsumers PROVE PoPlaceOf(u, d)'
    <3>1. PoPlaceOf(u, d) /\ PoAffinity(d)' = PoAffinity(d)
      BY <1>0 DEF PoPlaces, PoAffinity
    <3>2. PoHas(u, d)' => d \in poIn' /\ u \in PoAffinity(d)
      BY <1>7, <1>8, <1>9, <3>1 DEF PoPlaceOf
    <3>3. PoQueued(u, d)' => u \notin poAdding[d]
      BY <1>4, <1>5, <3>1 DEF PoPlaceOf
    <3>4. PoHeld(u, d)' => u \notin poAdding[d] /\ ~PoQueued(u, d)'
      BY <1>4, <1>5, <3>1 DEF PoPlaceOf
    <3> QED BY <3>1, <3>2, <3>3, <3>4 DEF PoPlaceOf
  <2> QED BY <1>0, <1>9, <2>1, <2>2, <2>3 DEF PoPlaces, PoAffinity
<1>12. PoNumbers'
  <2>1. \A u \in PoThreads, d \in PoConsumers :
          PoHandles(u, d)' => PoHandles(u, d) /\ poT'[u].seen = poT[u].seen
    BY <1>1, <1>4, <1>5 DEF PoHandles
  <2>2. \A u \in PoThreads, d \in PoConsumers : PoGivesUp(u, d)' => PoGivesUp(u, d)
    BY <1>1, <1>4, <1>5 DEF PoGivesUp
  <2> QED BY <1>0, <2>1, <2>2, PoNumbersKept
<1>13. PoTasksOnce'
  <2>1. \A u \in PoThreads :
          poT'[u].pc = "invoke" => poT[u].pc = "invoke" /\ poT'[u].c = poT[u].c
    BY <1>1
  <2> QED BY <1>0, <1>9, <2>1, PoTasksKept DEF PoTypes
<1>14. PoEnds'
  <2>1. ASSUME NEW u \in PoThreads, poT'[u].pc \in PoEnding
        PROVE  poStop /\ \A i \in 1..Len(poQ'[u]) : PoLeftIn(u)' < i => poQ'[u][i] \in poLate
    <3>1. CASE u = t
      BY <1>0, <1>1, <1>3, <2>1, <3>1 DEF PoEnds
    <3>2. CASE u # t
      BY <1>0, <1>1, <1>2, <1>3, <2>1, <3>2 DEF PoEnds, PoLeftIn
    <3> QED BY <3>1, <3>2
  <2>2. \A u \in PoThreads : poT'[u].pc = "done" => poIn' \cap PoTasks = {}
    BY <1>0, <1>1, <1>9 DEF PoEnds, PoEnding
  <2> QED BY <1>0, <2>1, <2>2 DEF PoEnds
<1>15. PoLimits'
  <2>1. \A s \in PoSlots : Len(poQ'[s]) <= PoQueueCap
    BY <1>0, <1>3 DEF PoLimits
  <2>2. \A u \in PoThreads : u # t => poT'[u] = poT[u] /\ poQ'[u] = poQ[u]
    BY <1>1, <1>2, <1>3
  <2>3. \A d \in PoConsumers : PoIGNORE <= poNext'[d] /\ poNext'[d] <= poSeq
    BY <1>0 DEF PoLimits
  <2> QED BY <1>0, <2>1, <2>2, <2>3, PoLimitsKept
<1> QED BY <1>9, <1>10, <1>11, <1>12, <1>13, <1>14, <1>15 DEF PoInv

\* A thread that leaves gives up one consumer (PoLeaveOne).
LEMMA PoLeaveOneKeeps == ASSUME PoInv, NEW t \in PoThreads, PoLeaveOne(t) PROVE PoInv'
<1> USE DEF PoPoints, PoBusy, PoRound, PoHand, PoEnding
<1>0. /\ PoTypes /\ PoLimits /\ PoRoundOf(t) /\ poT[t] \in PoThread /\ PoPlaces /\ PoEnds
      /\ poT[t].pc = "leaving" /\ poT[t].left > 0
  BY DEF PoInv, PoTypes, PoLimits, PoLeaveOne
<1>1. /\ t \in PoSlots /\ poQ[t] \in Seq(PoConsumers) /\ PoDistinct(poQ[t])
      /\ Len(poQ[t]) <= PoQueueCap
  BY <1>0, PoSetting DEF PoTypes, PoPlaces, PoLimits
<1>2. poT[t].left \in Nat /\ poT[t].left <= Len(poQ[t]) /\ poQ[t] # <<>> /\ poT[t].n \in Nat
      /\ poT[t].left <= poT[t].n /\ poT[t].b <= poT[t].e
  BY <1>0, <1>1, PoRecord DEF PoRoundOf
<1>3. PICK c \in PoConsumers : c = Head(poQ[t])
  BY <1>1, <1>2, PoTailed
<1>4. PICK q \in Seq(PoConsumers) : q = Tail(poQ[t])
  BY <1>1, <1>2, PoTailed
<1>5. /\ Len(q) = Len(poQ[t]) - 1 /\ Len(poQ[t]) \in Nat /\ PoDistinct(q) /\ ~PoAmong(q, c)
      /\ \A d : PoAmong(poQ[t], d) <=> PoAmong(q, d) \/ d = c
  BY <1>1, <1>2, <1>3, <1>4, PoTailed
<1> DEFINE th == [poT[t] EXCEPT !.left = @ - 1]
<1>6. /\ th \in PoThread /\ th.pc = "leaving" /\ th.b = poT[t].b /\ th.e = poT[t].e
      /\ th.n = poT[t].n /\ th.left = poT[t].left - 1
  <2>1. poT[t].left - 1 \in Nat
    BY <1>0, <1>2
  <2>2. poT[t] \in PoThread /\ poT[t].pc = "leaving"
    BY <1>0
  <2> QED BY <2>1, <2>2 DEF PoThread
<1>7. poT' = [poT EXCEPT ![t] = th] /\ poQ' = [poQ EXCEPT ![t] = q]
  BY <1>4 DEF PoLeaveOne
<1> HIDE DEF th
<1>8. poT'[t] = th /\ poQ'[t] = q
  BY <1>0, <1>1, <1>7 DEF PoTypes
<1>9. UNCHANGED <<poSet, poPhase, poSeq, poCur, poAdding, poNext, poMQ, poStop, poLog, poLate>>
  BY DEF PoLeaveOne, poLife, poRing, poTasksVars
<1>10. /\ poDropCount' = [poDropCount EXCEPT ![c] = @ + 1]
       /\ IF PoLastToDrop(c) THEN poIn' = poIn \ {c} /\ PoCalled(c) ELSE UNCHANGED <<poIn, poDrops>>
  BY <1>3 DEF PoLeaveOne
<1>11. PoQueued(t, c) /\ poStop
  BY <1>0, <1>5 DEF PoQueued, PoEnds
<1>12. PoRoundOf(t)'
  <2>1. th.left <= Len(q) /\ th.left <= th.n
    BY <1>2, <1>5, <1>6
  <2> QED BY <1>0, <1>6, <1>8, <1>9, <2>1 DEF PoRoundOf
<1>13. ASSUME NEW i \in 1..Len(q), PoLeftIn(t)' < i PROVE q[i] \in poLate
  <2>1. poT[t].left - 1 < i
    BY <1>6, <1>8, <1>13 DEF PoLeftIn
  <2>2. q[i] = poQ[t][i + 1]
    BY <1>1, <1>2, <1>4
  <2>3. i + 1 \in 1..Len(poQ[t]) /\ poT[t].left < i + 1
    BY <1>2, <1>5, <2>1
  <2>4. PoLeftIn(t) = poT[t].left
    BY <1>0 DEF PoLeftIn
  <2> QED BY <1>0, <2>2, <2>3, <2>4 DEF PoEnds
<1>14. /\ Len(q) <= PoQueueCap /\ poT[t].pc # "off" /\ poT[t].pc \notin PoHand
       /\ th.pc \notin PoHand \cup {"invoke"} /\ poT[t].pc \in PoEnding /\ th.pc # "done"
  <2>1. PoQueueCap \in Nat
    BY PoAssumption
  <2> QED BY <1>0, <1>1, <1>5, <1>6, <2>1
<1>15. \A d : d # c => (PoAmong(q, d) <=> PoAmong(poQ[t], d))
  BY <1>5
<1> HIDE DEF PoPoints, PoBusy, PoRound, PoHand, PoEnding
<1> QED BY <1>5, <1>6, <1>7, <1>9, <1>10, <1>11, <1>12, <1>13, <1>14, <1>15, PoGiveUpKeeps

\* A step that adds a consumer no thread has, or has again after it was put back.
LEMMA PoFreshKeeps ==
  ASSUME PoInv, NEW c \in PoConsumers, NEW S \in SUBSET PoAffinity(c), PoServers(c) \subseteq S,
         PoFresh(c, S), c \in poSet.added, poDrops[c] = 0,
         poT' \in [PoThreads -> PoThread],
         \A u \in PoThreads : IF PoHeld(u, c) THEN poT'[u] = [poT[u] EXCEPT !.pc = "resuming"]
                                              ELSE poT'[u] = poT[u],
         \A u \in PoThreads : ~PoQueued(u, c),
         poLog' = [poLog EXCEPT ![c] = <<>>],
         UNCHANGED <<poSet, poPhase, poSeq, poCur, poQ, poMQ, poStop, poDrops>>,
         poLate \subseteq poLate', poStop => c \in poLate'
  PROVE  PoInv'
<1>0. PoTypes /\ PoLimits /\ PoPlaces /\ PoCounts /\ PoNumbers /\ PoTasksOnce /\ PoEnds
  BY DEF PoInv
<1>1. /\ poNext' = [poNext EXCEPT ![c] = PoNone] /\ poDropCount' = [poDropCount EXCEPT ![c] = 0]
      /\ poAdding' = [poAdding EXCEPT ![c] = S] /\ poIn' = poIn \cup {c}
  BY DEF PoFresh
<1>2. /\ c \in PoAll /\ c \notin PoTasks /\ PoAffinity(c) \subseteq PoSlots /\ PoServers(c) # {}
      /\ PoNone \in Int /\ 0 \in Nat /\ <<>> \in Seq(Int)
  BY <1>0, PoSetting DEF PoTypes, PoAll, PoNone
<1>3. /\ poNext' \in [PoConsumers -> Int] /\ poNext'[c] = PoNone
      /\ \A d \in PoConsumers : d # c => poNext'[d] = poNext[d]
  BY <1>0, <1>1, <1>2, PoReplaced DEF PoTypes
<1>4. /\ poDropCount' \in [PoConsumers -> Nat] /\ poDropCount'[c] = 0
      /\ \A d \in PoConsumers : d # c => poDropCount'[d] = poDropCount[d]
  BY <1>0, <1>1, <1>2, PoReplaced DEF PoTypes
<1>5. /\ poAdding' \in [PoConsumers -> SUBSET PoSlots] /\ poAdding'[c] = S
      /\ \A d \in PoConsumers : d # c => poAdding'[d] = poAdding[d]
  <2>1. S \in SUBSET PoSlots
    BY <1>2
  <2> QED BY <1>0, <1>1, <2>1, PoReplaced DEF PoTypes
<1>6. /\ poLog' \in [PoConsumers -> Seq(Int)] /\ poLog'[c] = <<>>
      /\ \A d \in PoConsumers : d # c => poLog'[d] = poLog[d]
  BY <1>0, <1>2, PoReplaced DEF PoTypes
<1>7. PoTypes'
  BY <1>0, <1>1, <1>2, <1>3, <1>4, <1>5, <1>6 DEF PoTypes
<1>8. \A u \in PoThreads :
        /\ PoHeld(u, c) => poT'[u].pc = "resuming" /\ poT[u].pc \in PoHand
        /\ ~PoHeld(u, c) => poT'[u] = poT[u]
        /\ poT'[u].b = poT[u].b /\ poT'[u].e = poT[u].e /\ poT'[u].n = poT[u].n
        /\ poT'[u].left = poT[u].left /\ poT'[u].c = poT[u].c /\ poT'[u].seen = poT[u].seen
  <2> SUFFICES ASSUME NEW u \in PoThreads
               PROVE  /\ PoHeld(u, c) => poT'[u].pc = "resuming" /\ poT[u].pc \in PoHand
                      /\ ~PoHeld(u, c) => poT'[u] = poT[u]
                      /\ poT'[u].b = poT[u].b /\ poT'[u].e = poT[u].e /\ poT'[u].n = poT[u].n
                      /\ poT'[u].left = poT[u].left /\ poT'[u].c = poT[u].c
                      /\ poT'[u].seen = poT[u].seen
    OBVIOUS
  <2>1. PICK th \in PoThread : th = poT[u]
    BY <1>0 DEF PoTypes
  <2>2. CASE PoHeld(u, c)
    <3>1. poT'[u] = [th EXCEPT !.pc = "resuming"] /\ poT[u].pc \in PoHand
      BY <2>1, <2>2 DEF PoHeld
    <3> QED BY <2>1, <2>2, <3>1 DEF PoThread
  <2>3. CASE ~PoHeld(u, c)
    BY <2>3
  <2> QED BY <2>2, <2>3
<1>9. \A u \in PoThreads : ~PoHeld(u, c)' /\ ~PoQueued(u, c)'
  BY <1>8 DEF PoHeld, PoQueued, PoHand
<1>10. \A u \in PoThreads, d \in PoConsumers : d # c =>
         (PoHeld(u, d)' <=> PoHeld(u, d)) /\ (PoQueued(u, d)' <=> PoQueued(u, d))
  BY <1>8 DEF PoHeld, PoQueued, PoHand
<1>11. /\ \A u \in PoThreads : PoHas(u, c)' <=> u \in S
       /\ \A u \in PoThreads, d \in PoConsumers : d # c => (PoHas(u, d)' <=> PoHas(u, d))
  BY <1>5, <1>9, <1>10 DEF PoHas
<1>12. \A d : PoAffinity(d)' = PoAffinity(d) /\ PoServers(d)' = PoServers(d)
  BY DEF PoAffinity, PoServers
<1>13. PoPlaces'
  <2>1. \A u \in PoThreads : PoDistinct(poQ'[u])
    BY <1>0 DEF PoPlaces
  <2>2. \A u \in PoThreads : poT'[u].pc \in PoHand => poT'[u].c \in PoConsumers
    BY <1>0, <1>8 DEF PoPlaces, PoHand
  <2>3. ASSUME NEW u \in PoThreads, NEW d \in PoConsumers PROVE PoPlaceOf(u, d)'
    <3>1. CASE d = c
      BY <1>1, <1>9, <1>11, <1>12, <3>1 DEF PoPlaceOf
    <3>2. CASE d # c
      <4>1. PoPlaceOf(u, d)
        BY <1>0 DEF PoPlaces
      <4> QED BY <1>1, <1>5, <1>10, <1>11, <1>12, <3>2, <4>1 DEF PoPlaceOf
    <3> QED BY <3>1, <3>2
  <2>4. \A d \in PoConsumers : poAdding'[d] \subseteq PoAffinity(d)'
    BY <1>0, <1>5, <1>12 DEF PoPlaces
  <2>5. \A d \in PoConsumers : d \in poIn' => d \in poSet'.added
    BY <1>0, <1>1 DEF PoPlaces
  <2> QED BY <2>1, <2>2, <2>3, <2>4, <2>5 DEF PoPlaces
<1>14. PoCounts'
  <2>1. PoCountOf(c)'
    <3>1. PoServers(c) \subseteq PoThreads
      BY DEF PoServers
    <3>2. PoAway(c)' = {}
      BY <1>11, <1>12, <3>1 DEF PoAway
    <3>3. Cardinality(PoAway(c)') = 0
      BY <3>2, FS_EmptySet
    <3>4. Cardinality(PoServers(c)') > 0
      BY <1>0, <1>2, <1>12, PoAwayWhat DEF PoTypes
    <3> QED BY <1>1, <1>4, <3>3, <3>4 DEF PoCountOf
  <2>2. ASSUME NEW d \in PoConsumers, d # c PROVE PoCountOf(d)'
    <3>1. PoCountOf(d)
      BY <1>0 DEF PoCounts
    <3>2. PoAway(d)' = PoAway(d)
      <4>1. PoServers(d) \subseteq PoThreads
        BY DEF PoServers
      <4> QED BY <1>11, <1>12, <2>2, <4>1 DEF PoAway
    <3> QED BY <1>1, <1>3, <1>4, <1>6, <1>12, <2>2, <3>1, <3>2 DEF PoCountOf
  <2> QED BY <2>1, <2>2 DEF PoCounts
<1>15. PoNumbers'
  <2>1. PoNumberOf(c)'
    BY <1>3, <1>6 DEF PoNumberOf, PoConsecutive, PoNone
  <2>2. \A u \in PoThreads : PoHandOf(u, c)' /\ ~PoHandles(u, c)'
    BY <1>9 DEF PoHandOf, PoHandles, PoGivesUp
  <2>3. \A u \in PoThreads, d \in PoConsumers : d # c =>
          /\ PoHandles(u, d)' => PoHandles(u, d) /\ poT'[u].seen = poT[u].seen
          /\ PoGivesUp(u, d)' => PoGivesUp(u, d)
    <3> SUFFICES ASSUME NEW u \in PoThreads, NEW d \in PoConsumers, d # c, PoHeld(u, d)'
                 PROVE  poT'[u] = poT[u] /\ PoHeld(u, d)
      BY DEF PoHandles, PoGivesUp
    <3>1. PoHeld(u, d) /\ ~PoHeld(u, c)
      BY <1>10 DEF PoHeld
    <3> QED BY <1>8, <3>1
  <2>4. \A d \in PoConsumers : d # c => poNext'[d] = poNext[d] /\ poLog'[d] = poLog[d]
    BY <1>3, <1>6
  <2> QED BY <1>0, <2>1, <2>2, <2>3, <2>4, PoNumberKept
<1>16. PoTasksOnce'
  <2>1. \A u \in PoThreads :
          poT'[u].pc = "invoke" => poT[u].pc = "invoke" /\ poT'[u].c = poT[u].c
    BY <1>8
  <2>2. poIn' \cap PoTasks = poIn \cap PoTasks
    BY <1>1, <1>2
  <2> QED BY <1>0, <2>1, <2>2, PoTasksKept DEF PoTypes
<1>17. PoEnds'
  <2>1. \A u \in PoThreads : poT'[u].pc \in PoEnding =>
          poT[u].pc \in PoEnding /\ poQ'[u] = poQ[u] /\ PoLeftIn(u)' = PoLeftIn(u)
            /\ (poT'[u].pc = "done" => poT[u].pc = "done")
    BY <1>8 DEF PoLeftIn, PoEnding
  <2>2. \A d \in PoConsumers : poAdding'[d] # {} /\ poStop => poAdding[d] # {} \/ d \in poLate'
    BY <1>5
  <2>3. poIn' \cap PoTasks \subseteq poIn
    BY <1>1, <1>2
  <2> QED BY <1>0, <2>1, <2>2, <2>3, PoEndsKept
<1>18. PoLimits'
  <2>1. \A d \in PoConsumers : PoIGNORE <= poNext'[d] /\ poNext'[d] <= poSeq
    <3>1. PoIGNORE <= PoNone /\ PoNone <= poSeq
      BY <1>0, PoSeqNat DEF PoIGNORE, PoNone
    <3> QED BY <1>0, <1>3, <3>1 DEF PoLimits
  <2>2. ASSUME NEW u \in PoThreads PROVE PoRoundOf(u)'
    <3>1. PoRoundOf(u)
      BY <1>0 DEF PoLimits
    <3>2. CASE PoHeld(u, c)
      <4>1. poT'[u].pc = "resuming" /\ poT[u].pc \in PoHand
        BY <1>8, <3>2
      <4> QED BY <1>8, <3>1, <4>1 DEF PoRoundOf, PoBusy, PoRound, PoHand
    <3>3. CASE ~PoHeld(u, c)
      BY <1>8, <3>1, <3>3 DEF PoRoundOf
    <3> QED BY <3>2, <3>3
  <2>3. poPhase # "running" => \A u \in PoThreads : poT'[u].pc = "off"
    BY <1>0, <1>8 DEF PoLimits, PoHeld, PoHand
  <2> QED BY <1>0, <2>1, <2>2, <2>3 DEF PoLimits
<1> QED BY <1>7, <1>13, <1>14, <1>15, <1>16, <1>17, <1>18 DEF PoInv

\* A consumer is added and counted (PoAdd).
LEMMA PoAddKeeps == ASSUME PoInv, NEW c \in PoConsumers, PoAdd(c) PROVE PoInv'
<1>0. /\ PoTypes /\ PoPlaces /\ PoCounts /\ c \in poSet.added /\ c \notin poIn /\ poDrops[c] = 0
      /\ ~poStop
  BY DEF PoInv, PoAdd
<1>1. UNCHANGED <<poSet, poPhase, poSeq, poCur, poT, poQ, poMQ, poStop, poDrops, poLog, poLate>>
  BY DEF PoAdd, poLife, poRing, poTasksVars, poCallbacks
<1>2. \A u \in PoThreads : ~PoHeld(u, c) /\ ~PoQueued(u, c)
  BY <1>0 DEF PoPlaces, PoPlaceOf, PoHas
<1>3. poLog' = [poLog EXCEPT ![c] = <<>>]
  <2>1. poLog[c] = <<>>
    BY <1>0 DEF PoCounts, PoCountOf
  <2> QED BY <1>0, <1>1, <2>1 DEF PoTypes
<1>4. PoServers(c) \subseteq PoAffinity(c) /\ PoFresh(c, PoAffinity(c))
  BY DEF PoServers, PoAdd
<1>5. poT' \in [PoThreads -> PoThread]
  BY <1>0, <1>1 DEF PoTypes
<1>6. \A u \in PoThreads : IF PoHeld(u, c) THEN poT'[u] = [poT[u] EXCEPT !.pc = "resuming"]
                                           ELSE poT'[u] = poT[u]
  BY <1>1, <1>2
<1> QED BY <1>0, <1>1, <1>2, <1>3, <1>4, <1>5, <1>6, PoFreshKeeps

\* The last thread to give a consumer up is the only one that still has it.
LEMMA PoLastAlone ==
  ASSUME PoTypes, PoPlaces, PoCounts, NEW t \in PoThreads, NEW c \in PoConsumers,
         PoHas(t, c), PoLastToDrop(c)
  PROVE  \A u \in PoThreads : u # t => ~PoHas(u, c)
<1>1. c \in poIn /\ t \in PoServers(c)
  BY DEF PoPlaces, PoPlaceOf, PoServers
<1>2. poDropCount[c] = Cardinality(PoAway(c))
  BY <1>1 DEF PoCounts, PoCountOf
<1>3. /\ IsFiniteSet(PoServers(c)) /\ IsFiniteSet(PoAway(c)) /\ PoAway(c) \subseteq PoServers(c)
  BY PoAwayWhat DEF PoTypes
<1>4. t \notin PoAway(c)
  BY DEF PoAway
<1>5. Cardinality(PoAway(c) \cup {t}) = Cardinality(PoAway(c)) + 1
  BY <1>3, <1>4, FS_AddElement
<1>6. PoAway(c) \cup {t} = PoServers(c)
  <2>1. PoAway(c) \cup {t} \subseteq PoServers(c)
    BY <1>1, <1>3
  <2>2. Cardinality(PoAway(c) \cup {t}) = Cardinality(PoServers(c))
    BY <1>2, <1>5 DEF PoLastToDrop
  <2> QED BY <1>3, <2>1, <2>2, FS_Subset
<1> SUFFICES ASSUME NEW u \in PoThreads, u # t, PoHas(u, c) PROVE FALSE
  OBVIOUS
<1>7. u \in PoServers(c)
  BY DEF PoPlaces, PoPlaceOf, PoServers
<1> QED BY <1>6, <1>7 DEF PoAway

\* A thread gives a consumer up; the last one calls droppedCb, which may ask for it back (PoDrop).
LEMMA PoDropKeeps == ASSUME PoInv, NEW t \in PoThreads, PoDrop(t) PROVE PoInv'
<1>0. /\ PoTypes /\ PoLimits /\ PoRoundOf(t) /\ poT[t] \in PoThread /\ PoPlaces /\ PoCounts
      /\ PoNumbers /\ poT[t].pc = "drop" /\ poT[t].pc \in PoHand
  BY DEF PoInv, PoTypes, PoLimits, PoDrop, PoHand
<1>1. /\ t \in PoSlots /\ poQ[t] \in Seq(PoConsumers) /\ PoDistinct(poQ[t])
      /\ Len(poQ[t]) <= PoQueueCap
  BY <1>0, PoSetting DEF PoTypes, PoPlaces, PoLimits
<1>2. PICK c \in PoConsumers : c = poT[t].c
  BY <1>0 DEF PoPlaces
<1>3. PoHeld(t, c) /\ PoHas(t, c) /\ PoGivesUp(t, c)
  BY <1>0, <1>2 DEF PoHeld, PoHas, PoGivesUp
<1>4. /\ c \in poIn /\ t \in PoAffinity(c) /\ ~PoQueued(t, c) /\ poNext[c] = PoSTOP
  BY <1>0, <1>3 DEF PoPlaces, PoPlaceOf, PoNumbers, PoHandOf
<1>5. UNCHANGED <<poSet, poPhase, poSeq, poCur, poQ, poMQ, poStop>>
  BY DEF PoDrop, poLife, poRing, poTasksVars
<1> DEFINE th == [poT[t] EXCEPT !.pc = "visit", !.c = "none", !.seen = PoNone, !.ok = TRUE]
<1>9. /\ th \in PoThread /\ th.pc = "visit" /\ th.b = poT[t].b /\ th.e = poT[t].e
      /\ th.n = poT[t].n /\ th.left = poT[t].left
  <2>1. poT[t] \in PoThread
    BY <1>0
  <2> QED BY <2>1, PoNextVisitWhat
<1>6. ASSUME PoNextVisit(t), UNCHANGED <<poNext, poAdding, poLog, poLate>>,
             poDropCount' = [poDropCount EXCEPT ![c] = @ + 1],
             IF PoLastToDrop(c) THEN poIn' = poIn \ {c} /\ PoCalled(c)
                                ELSE UNCHANGED <<poIn, poDrops>>
      PROVE  PoInv'
  <2>1. poT' = [poT EXCEPT ![t] = th]
    BY <1>6 DEF PoNextVisit
  <2> HIDE DEF th
  <2>3. PICK q \in Seq(PoConsumers) : q = poQ[t]
    BY <1>1
  <2>4. poQ' = [poQ EXCEPT ![t] = q]
    BY <1>0, <1>5, <2>3 DEF PoTypes
  <2>5. poT'[t] = th
    BY <1>0, <2>1 DEF PoTypes
  <2>6. PoRoundOf(t)'
    BY <1>0, <1>5, <1>9, <2>5 DEF PoRoundOf, PoBusy, PoRound, PoHand
  <2>7. ~PoAmong(q, c) /\ \A d : d # c => (PoAmong(q, d) <=> PoAmong(poQ[t], d))
    BY <1>4, <2>3 DEF PoQueued
  <2>8. /\ poT[t].pc # "off" /\ th.pc \notin PoHand \cup {"invoke"} /\ th.pc \notin PoEnding
        /\ Len(q) <= PoQueueCap /\ PoDistinct(q) /\ poT[t].c = c
    BY <1>0, <1>1, <1>2, <1>9, <2>3 DEF PoHand, PoEnding
  <2> QED BY <1>3, <1>4, <1>5, <1>6, <1>9, <2>1, <2>4, <2>6, <2>7, <2>8, PoGiveUpKeeps
<1>7. CASE ~PoLastToDrop(c)
  <2>1. /\ PoNextVisit(t) /\ UNCHANGED <<poNext, poAdding, poLog, poLate>>
        /\ poDropCount' = [poDropCount EXCEPT ![c] = @ + 1] /\ UNCHANGED <<poIn, poDrops>>
    BY <1>2, <1>7 DEF PoDrop, poCallbacks
  <2> QED BY <1>6, <1>7, <2>1
<1>8. CASE PoLastToDrop(c)
  <2>1. CASE /\ poDropCount' = [poDropCount EXCEPT ![c] = @ + 1] /\ PoCalled(c)
             /\ poIn' = poIn \ {c} /\ PoNextVisit(t)
             /\ UNCHANGED <<poNext, poAdding, poLog, poResumed, poLate>>
    BY <1>6, <1>8, <2>1
  <2>2. CASE /\ PoFresh(c, PoServers(c)) /\ poLog' = [poLog EXCEPT ![c] = <<>>]
             /\ poLate' = (IF poStop THEN poLate \cup {c} ELSE poLate)
             /\ PoGoes(t, "resuming") /\ UNCHANGED poDrops
    <3>1. c \in poSet.added /\ poDrops[c] = 0
      BY <1>0, <1>4 DEF PoPlaces, PoCounts, PoCountOf
    <3>2. \A u \in PoThreads : u # t => ~PoHas(u, c)
      BY <1>0, <1>3, <1>8, PoLastAlone
    <3>3. \A u \in PoThreads : ~PoQueued(u, c) /\ (u # t => ~PoHeld(u, c))
      BY <1>4, <3>2 DEF PoHas
    <3>4. PICK rec \in PoThread : rec = poT[t]
      BY <1>0
    <3>5. [rec EXCEPT !.pc = "resuming"] \in PoThread
      BY DEF PoThread, PoPoints, PoBusy, PoRound
    <3>6. poT' = [poT EXCEPT ![t] = [rec EXCEPT !.pc = "resuming"]]
      BY <2>2, <3>4 DEF PoGoes
    <3>7. /\ poT' \in [PoThreads -> PoThread] /\ poT'[t] = [poT[t] EXCEPT !.pc = "resuming"]
          /\ \A u \in PoThreads : u # t => poT'[u] = poT[u]
      BY <1>0, <3>4, <3>5, <3>6, PoReplaced DEF PoTypes
    <3>8. \A u \in PoThreads : IF PoHeld(u, c) THEN poT'[u] = [poT[u] EXCEPT !.pc = "resuming"]
                                               ELSE poT'[u] = poT[u]
      BY <1>3, <3>3, <3>7
    <3>9. PoServers(c) \in SUBSET PoAffinity(c)
      BY DEF PoServers
    <3>10. poLate \subseteq poLate' /\ (poStop => c \in poLate')
      BY <2>2
    <3>11. \A u \in PoThreads : ~PoQueued(u, c)
      BY <3>3
    <3> QED BY <1>5, <2>2, <3>1, <3>7, <3>8, <3>9, <3>10, <3>11, PoFreshKeeps
  <2> QED BY <1>2, <1>8, <2>1, <2>2 DEF PoDrop
<1> QED BY <1>7, <1>8

\* A consumer that is being added gets into one more queue (PoPutInQueue).
LEMMA PoPutInQueueKeeps == ASSUME PoInv, NEW c \in PoConsumers, PoPutInQueue(c) PROVE PoInv'
<1>0. PoTypes /\ PoLimits /\ PoPlaces /\ PoCounts /\ PoNumbers /\ PoTasksOnce /\ PoEnds
  BY DEF PoInv
<1>1. poAdding[c] # {} /\ poAdding[c] \subseteq PoSlots /\ PoSlots \subseteq Nat
      /\ PoThreads \subseteq PoSlots
  BY <1>0, PoSetting DEF PoPutInQueue, PoTypes
<1>2. PICK s \in PoSlots : s = Min(poAdding[c]) /\ s \in poAdding[c]
  BY <1>1, CxMin
<1>3. UNCHANGED <<poSet, poPhase, poSeq, poCur, poT, poNext, poDropCount, poIn, poMQ, poStop,
                  poLog, poDrops, poLate>>
  BY DEF PoPutInQueue, poLife, poRing, poTasksVars, poCallbacks
<1>4. PICK q \in Seq(PoConsumers) : q = Append(poQ[s], c)
  <2>1. poQ[s] \in Seq(PoConsumers)
    BY <1>0 DEF PoTypes
  <2>2. Append(poQ[s], c) \in Seq(PoConsumers)
    BY <2>1
  <2> QED BY <2>2
<1>5. /\ Len(q) = Len(poQ[s]) + 1 /\ Len(poQ[s]) \in Nat /\ poQ[s] \in Seq(PoConsumers)
      /\ q[Len(q)] = c /\ \A i \in 1..Len(poQ[s]) : q[i] = poQ[s][i]
  BY <1>0, <1>4 DEF PoTypes
<1>6. poQ' = [poQ EXCEPT ![s] = q] /\ poAdding' = [poAdding EXCEPT ![c] = poAdding[c] \ {s}]
      /\ PoRoom(s)
  BY <1>2, <1>4 DEF PoPutInQueue
<1>7. /\ poQ' \in [PoSlots -> Seq(PoConsumers)] /\ poQ'[s] = q
      /\ \A r \in PoSlots : r # s => poQ'[r] = poQ[r]
  BY <1>0, <1>6, PoReplaced DEF PoTypes
<1>8. /\ poAdding' \in [PoConsumers -> SUBSET PoSlots] /\ poAdding'[c] = poAdding[c] \ {s}
      /\ \A d \in PoConsumers : d # c => poAdding'[d] = poAdding[d]
  <2>1. poAdding[c] \ {s} \in SUBSET PoSlots
    BY <1>1
  <2> QED BY <1>0, <1>6, <2>1, PoReplaced DEF PoTypes
<1>9. PoTypes'
  BY <1>0, <1>3, <1>7, <1>8 DEF PoTypes
<1>10. \A u \in PoThreads, d \in PoConsumers : PoHeld(u, d)' <=> PoHeld(u, d)
  BY <1>3 DEF PoHeld
<1>11. s \in PoThreads => PoDistinct(poQ[s]) /\ ~PoAmong(poQ[s], c) /\ ~PoHeld(s, c)
                            /\ c \in poIn /\ s \in PoAffinity(c)
  <2> SUFFICES ASSUME s \in PoThreads
               PROVE  PoDistinct(poQ[s]) /\ ~PoAmong(poQ[s], c) /\ ~PoHeld(s, c)
                        /\ c \in poIn /\ s \in PoAffinity(c)
    OBVIOUS
  <2>1. PoPlaceOf(s, c) /\ PoHas(s, c) /\ PoDistinct(poQ[s])
    BY <1>0, <1>2 DEF PoPlaces, PoHas
  <2> QED BY <1>2, <2>1 DEF PoPlaceOf, PoQueued
<1>12. s \in PoThreads => PoDistinct(q) /\ \A d : PoAmong(q, d) <=> PoAmong(poQ[s], d) \/ d = c
  BY <1>4, <1>5, <1>11, PoAppended
<1>13. ASSUME NEW u \in PoThreads, NEW d \in PoConsumers
       PROVE  /\ u # s \/ d # c => /\ PoQueued(u, d)' <=> PoQueued(u, d)
                                   /\ u \in poAdding'[d] <=> u \in poAdding[d]
              /\ u = s /\ d = c => PoQueued(u, d)' /\ u \notin poAdding'[d]
  <2>1. CASE u = s
    <3>1. PoQueued(u, d)' <=> PoAmong(q, d)
      BY <1>7, <2>1 DEF PoQueued
    <3>2. PoAmong(q, d) <=> PoAmong(poQ[s], d) \/ d = c
      BY <1>12, <2>1
    <3>3. PoQueued(u, d) <=> PoAmong(poQ[s], d)
      BY <2>1 DEF PoQueued
    <3> QED BY <1>8, <2>1, <3>1, <3>2, <3>3
  <2>2. CASE u # s
    <3>1. PoQueued(u, d)' <=> PoQueued(u, d)
      BY <1>1, <1>7, <2>2 DEF PoQueued
    <3> QED BY <1>8, <2>2, <3>1
  <2> QED BY <2>1, <2>2
<1>14. \A u \in PoThreads, d \in PoConsumers : PoHas(u, d)' <=> PoHas(u, d)
  BY <1>2, <1>10, <1>13 DEF PoHas
<1>15. PoPlaces'
  <2>1. \A u \in PoThreads : PoDistinct(poQ'[u])
    BY <1>0, <1>1, <1>7, <1>12 DEF PoPlaces
  <2>2. \A u \in PoThreads : poT'[u].pc \in PoHand => poT'[u].c \in PoConsumers
    BY <1>0, <1>3 DEF PoPlaces
  <2>3. ASSUME NEW u \in PoThreads, NEW d \in PoConsumers PROVE PoPlaceOf(u, d)'
    <3>1. PoPlaceOf(u, d) /\ PoAffinity(d)' = PoAffinity(d)
      BY <1>0, <1>3 DEF PoPlaces, PoAffinity
    <3>2. PoHas(u, d)' => d \in poIn' /\ u \in PoAffinity(d)'
      BY <1>3, <1>14, <3>1 DEF PoPlaceOf
    <3>3. PoQueued(u, d)' => u \notin poAdding'[d]
      BY <1>13, <3>1 DEF PoPlaceOf
    <3>4. PoHeld(u, d)' => u \notin poAdding'[d] /\ ~PoQueued(u, d)'
      <4>1. CASE u = s /\ d = c
        BY <1>10, <1>11, <4>1
      <4>2. CASE u # s \/ d # c
        BY <1>10, <1>13, <3>1, <4>2 DEF PoPlaceOf
      <4> QED BY <4>1, <4>2
    <3> QED BY <3>2, <3>3, <3>4 DEF PoPlaceOf
  <2>4. \A d \in PoConsumers : poAdding'[d] \subseteq PoAffinity(d)'
    <3>1. \A d \in PoConsumers : poAdding'[d] \subseteq poAdding[d]
      BY <1>8
    <3>2. \A d : PoAffinity(d)' = PoAffinity(d)
      BY <1>3 DEF PoAffinity
    <3> QED BY <1>0, <3>1, <3>2 DEF PoPlaces
  <2>5. \A d \in PoConsumers : d \in poIn' => d \in poSet'.added
    BY <1>0, <1>3 DEF PoPlaces
  <2> QED BY <2>1, <2>2, <2>3, <2>4, <2>5 DEF PoPlaces
<1>16. PoCounts'
  BY <1>0, <1>3, <1>14, PoCountsKept
<1>17. PoNumbers'
  <2>1. \A u \in PoThreads, d \in PoConsumers :
          PoHandles(u, d)' => PoHandles(u, d) /\ poT'[u].seen = poT[u].seen
    BY <1>3 DEF PoHandles, PoHeld
  <2>2. \A u \in PoThreads, d \in PoConsumers : PoGivesUp(u, d)' => PoGivesUp(u, d)
    BY <1>3 DEF PoGivesUp, PoHeld
  <2> QED BY <1>0, <1>3, <2>1, <2>2, PoNumbersKept
<1>18. PoTasksOnce'
  BY <1>0, <1>3, PoTasksKept DEF PoTypes
<1>19. PoEnds'
  <2>1. poStop => \A d \in PoConsumers : poAdding'[d] # {} => d \in poLate
    BY <1>0, <1>8 DEF PoEnds
  <2>2. ASSUME NEW u \in PoThreads, poT[u].pc \in PoEnding
        PROVE  poStop /\ \A i \in 1..Len(poQ'[u]) : PoLeftIn(u)' < i => poQ'[u][i] \in poLate
    <3>1. poStop /\ \A i \in 1..Len(poQ[u]) : PoLeftIn(u) < i => poQ[u][i] \in poLate
      BY <1>0, <2>2 DEF PoEnds
    <3>2. PoLeftIn(u)' = PoLeftIn(u)
      BY <1>3 DEF PoLeftIn
    <3>3. CASE u = s
      <4>1. c \in poLate
        BY <1>0, <1>1, <3>1 DEF PoEnds
      <4>2. \A i \in 1..Len(q) : i = Len(q) \/ i \in 1..Len(poQ[s])
        BY <1>5
      <4> QED BY <1>5, <1>7, <3>1, <3>2, <3>3, <4>1, <4>2
    <3>4. CASE u # s
      BY <1>1, <1>7, <3>1, <3>2, <3>4
    <3> QED BY <3>3, <3>4
  <2>3. \A u \in PoThreads : poT[u].pc = "done" => poIn \cap PoTasks = {}
    BY <1>0 DEF PoEnds
  <2> QED BY <1>3, <2>1, <2>2, <2>3 DEF PoEnds
<1>20. Len(q) <= PoQueueCap
  <2>1. PoHolds(s) < PoQueueCap /\ PoQueueCap \in Nat
    BY <1>6, PoAssumption DEF PoRoom
  <2>2. CASE s \in PoThreads
    <3>1. poT[s].n \in Nat /\ poT[s].left \in Nat /\ poT[s].left <= poT[s].n
      <4>1. poT[s] \in PoThread /\ PoRoundOf(s)
        BY <1>0, <2>2 DEF PoTypes, PoLimits
      <4> QED BY <4>1, PoRecord DEF PoRoundOf
    <3>2. PoHolds(s) = Len(poQ[s]) + (poT[s].n - poT[s].left)
      BY <2>2 DEF PoHolds
    <3> QED BY <1>5, <2>1, <3>1, <3>2
  <2>3. CASE s \notin PoThreads
    <3>1. PoHolds(s) = Len(poQ[s]) + 0
      BY <2>3 DEF PoHolds
    <3> QED BY <1>5, <2>1, <3>1
  <2> QED BY <2>2, <2>3
<1>21. PoLimits'
  <2>1. \A r \in PoSlots : PoDead <= poCur'[r] /\ poCur'[r] <= poSeq' /\ Len(poQ'[r]) <= PoQueueCap
    BY <1>0, <1>3, <1>7, <1>20 DEF PoLimits
  <2>2. ASSUME NEW u \in PoThreads PROVE PoRoundOf(u)'
    <3>1. PoRoundOf(u) /\ poT[u].left \in Nat
      BY <1>0, PoRecord DEF PoLimits, PoTypes
    <3>2. u \in PoSlots
      BY <1>1
    <3>3. poT[u].left <= Len(poQ[u]) => poT[u].left <= Len(poQ'[u])
      <4>1. CASE u = s
        BY <1>5, <1>7, <3>1, <4>1
      <4>2. CASE u # s
        BY <1>7, <3>2, <4>2
      <4> QED BY <4>1, <4>2
    <3> QED BY <1>3, <3>1, <3>3 DEF PoRoundOf
  <2>3. /\ \A d \in PoConsumers : PoIGNORE <= poNext'[d] /\ poNext'[d] <= poSeq'
        /\ poPhase' # "running" => ~poStop' /\ \A u \in PoThreads : poT'[u].pc = "off"
        /\ poPhase' = "created" /\ ~poSet'.recycled => \A r \in PoSlots : poCur'[r] >= 0
    BY <1>0, <1>3 DEF PoLimits
  <2> QED BY <2>1, <2>2, <2>3 DEF PoLimits
<1> QED BY <1>9, <1>15, <1>16, <1>17, <1>18, <1>19, <1>21 DEF PoInv

\* What every step of a thread keeps.
LEMMA PoThreadStepKeeps == ASSUME PoInv, NEW t \in PoThreads, PoThreadStep(t) PROVE PoInv'
<1>1. CASE PoShuffle(t) \/ PoPeek(t) \/ PoVisit(t) \/ PoStartingOk(t) \/ PoStartingThrows(t)
  BY <1>1, PoShuffleKeeps, PoPeekKeeps, PoVisitKeeps, PoStartingOkKeeps, PoStartingThrowsKeeps
<1>2. CASE PoLook(t) \/ PoKeep(t) \/ PoClaim(t) \/ PoHandle(t) \/ PoHandleThrows(t) \/ PoDrop(t)
  BY <1>2, PoLookKeeps, PoKeepKeeps, PoClaimKeeps, PoHandleKeeps, PoHandleThrowsKeeps, PoDropKeeps
<1>3. CASE PoResumedAll(t) \/ PoWaste(t) \/ PoTake(t) \/ PoInvoke(t) \/ PoInvokeThrows(t)
  BY <1>3, PoResumedAllKeeps, PoWasteKeeps, PoTakeKeeps, PoInvokeKeeps, PoInvokeThrowsKeeps
<1>4. CASE PoLeave(t) \/ PoLeaveOne(t) \/ PoMarkDead(t) \/ PoCleanup(t)
  BY <1>4, PoLeaveKeeps, PoLeaveOneKeeps, PoMarkDeadKeeps, PoCleanupKeeps
<1> QED BY <1>1, <1>2, <1>3, <1>4 DEF PoThreadStep

\* ... and every step.
LEMMA PoStepKeeps == PoInv /\ [PoNextStep]_poVars => PoInv'
<1> SUFFICES ASSUME PoInv, [PoNextStep]_poVars PROVE PoInv'
  OBVIOUS
<1>1. CASE PoPut \/ PoStart \/ PoResetSlot \/ PoLaunch \/ PoStopAll
  BY <1>1, PoPutKeeps, PoStartKeeps, PoResetSlotKeeps, PoLaunchKeeps, PoStopAllKeeps
<1>2. CASE \E c \in PoConsumers : PoAdd(c) \/ PoPutInQueue(c)
  BY <1>2, PoAddKeeps, PoPutInQueueKeeps
<1>3. CASE \E m \in PoTasks : PoAddTask(m)
  BY <1>3, PoAddTaskKeeps
<1>4. CASE \E t \in PoThreads : PoThreadStep(t)
  BY <1>4, PoThreadStepKeeps
<1>5. CASE UNCHANGED poVars
  <2>1. PoTypes /\ PoLimits /\ PoTasksOnce /\ PoEnds
    BY DEF PoInv
  <2>2. UNCHANGED <<poSet, poPhase, poSeq, poCur, poT, poQ, poAdding, poNext, poDropCount, poIn,
                    poMQ, poStop, poLog, poDrops, poLate>>
    BY <1>5 DEF poVars
  <2>3. PoTypes'
    BY <2>1, <2>2 DEF PoTypes
  <2>4. PoLimits'
    BY <2>1, <2>2 DEF PoLimits, PoRoundOf
  <2>5. PoTasksOnce'
    BY <2>1, <2>2, PoTasksKept DEF PoTypes
  <2>6. PoEnds'
    BY <2>1, <2>2, PoEndsKept DEF PoLeftIn
  <2> QED BY <2>2, <2>3, <2>4, <2>5, <2>6, PoNobodyMoves
<1> QED BY <1>1, <1>2, <1>3, <1>4, <1>5 DEF PoNextStep

\* The initial states.
LEMMA PoInitKeeps == ASSUME PoInit PROVE PoInv
<1> USE DEF PoInit
<1>1. /\ poSet.maxSeq \in 0..PoMaxSeq /\ PoMaxSeq \in Nat /\ PoQueueCap \in Nat
      /\ PoThreads \subseteq PoSlots /\ PoSlots \subseteq Nat
  BY PoSetting, PoAssumption
<1>2. /\ PoIdleThread \in PoThread /\ PoIdleThread.pc = "off" /\ PoIdleThread.b = 0
      /\ PoIdleThread.e = 0 /\ PoIdleThread.n = 0 /\ PoIdleThread.left = 0
  BY DEF PoIdleThread, PoThread, PoPoints, PoNone
<1>3. \A t \in PoThreads : poT[t] = PoIdleThread
  OBVIOUS
<1>4. PoTypes
  <2>1. poSeq \in 0..poSet.maxSeq
    BY <1>1
  <2>2. poCur \in [PoSlots -> Int] /\ poT \in [PoThreads -> PoThread]
    BY <1>2 DEF PoDead
  <2>3. /\ poNext \in [PoConsumers -> Int] /\ poLog \in [PoConsumers -> Seq(Int)]
        /\ poQ \in [PoSlots -> Seq(PoConsumers)] /\ poMQ \in Seq(PoTasks)
    BY DEF PoNone
  <2> QED BY <2>1, <2>2, <2>3 DEF PoTypes
<1>5. PoLimits
  <2>1. \A s \in PoSlots : PoDead <= poCur[s] /\ poCur[s] <= poSeq /\ Len(poQ[s]) <= PoQueueCap
    BY <1>1 DEF PoDead
  <2>2. \A c \in PoConsumers : PoIGNORE <= poNext[c] /\ poNext[c] <= poSeq
    BY DEF PoIGNORE, PoNone
  <2>3. \A t \in PoThreads : PoRoundOf(t)
    BY <1>2, <1>3 DEF PoRoundOf, PoBusy, PoRound, PoHand
  <2>4. poPhase = "created" /\ ~poSet.recycled => \A s \in PoSlots : poCur[s] >= 0
    OBVIOUS
  <2> QED BY <1>2, <1>3, <2>1, <2>2, <2>3, <2>4 DEF PoLimits
<1>6. \A t \in PoThreads, c \in PoConsumers :
        /\ ~PoHas(t, c) /\ ~PoQueued(t, c) /\ ~PoHeld(t, c)
  <2>1. \A t \in PoThreads, c \in PoConsumers : ~PoHeld(t, c)
    BY <1>2, <1>3 DEF PoHeld, PoHand
  <2>2. \A t \in PoThreads, c \in PoConsumers : ~PoQueued(t, c)
    BY <1>1 DEF PoQueued, PoAmong
  <2> QED BY <2>1, <2>2 DEF PoHas
<1>7. PoPlaces
  <2>1. \A t \in PoThreads : PoDistinct(poQ[t])
    BY <1>1 DEF PoDistinct
  <2>2. \A t \in PoThreads : poT[t].pc \notin PoHand
    BY <1>2, <1>3 DEF PoHand
  <2>3. \A t \in PoThreads, c \in PoConsumers : PoPlaceOf(t, c)
    BY <1>6 DEF PoPlaceOf
  <2> QED BY <2>1, <2>2, <2>3 DEF PoPlaces
<1>8. PoCounts
  BY DEF PoCounts, PoCountOf, PoAll
<1>9. PoNumbers
  <2>1. \A c \in PoConsumers : PoNumberOf(c)
    BY DEF PoNumberOf, PoConsecutive
  <2>2. \A t \in PoThreads, c \in PoConsumers : ~PoHandles(t, c) /\ ~PoGivesUp(t, c)
    BY <1>6 DEF PoHandles, PoGivesUp
  <2> QED BY <2>1, <2>2 DEF PoNumbers, PoHandOf
<1>10. PoTasksOnce
  BY <1>2, <1>3 DEF PoTasksOnce, PoDistinct, PoAmong
<1>11. PoEnds
  BY <1>2, <1>3 DEF PoEnds, PoEnding
<1> QED BY <1>4, <1>5, <1>7, <1>8, <1>9, <1>10, <1>11 DEF PoInv

\* What the invariant says of the pool.
LEMMA PoInvSafe == ASSUME PoInv PROVE PoSafety
<1>0. PoTypes /\ PoLimits /\ PoPlaces /\ PoCounts /\ PoNumbers /\ PoTasksOnce /\ PoEnds
  BY DEF PoInv
<1>1. PoTypeOK
  <2>1. poSeq \in Nat /\ poSeq <= PoMaxSeq /\ PoMaxSeq \in Nat
    BY <1>0, PoSeqNat, PoAssumption
  <2>2. poCur \in [PoSlots -> PoDead..PoMaxSeq]
    <3>1. \A s \in PoSlots : poCur[s] \in Int /\ PoDead <= poCur[s] /\ poCur[s] <= PoMaxSeq
      BY <1>0, <2>1 DEF PoTypes, PoLimits
    <3> QED BY <1>0, <2>1, <3>1 DEF PoTypes, PoDead
  <2>3. \A c \in PoConsumers : poNext[c] \in PoIGNORE..PoMaxSeq /\ poAdding[c] \subseteq PoSlots
    <3>1. \A c \in PoConsumers :
            poNext[c] \in Int /\ PoIGNORE <= poNext[c] /\ poNext[c] <= PoMaxSeq
      BY <1>0, <2>1 DEF PoTypes, PoLimits
    <3> QED BY <1>0, <2>1, <3>1 DEF PoTypes, PoIGNORE
  <2>4. \A t \in PoThreads : poT[t].b <= poT[t].e /\ poT[t].left <= poT[t].n
    BY <1>0 DEF PoLimits, PoRoundOf
  <2>5. \A s \in PoSlots : Len(poQ[s]) <= PoQueueCap
    BY <1>0 DEF PoLimits
  <2>6. poPhase \in {"created", "resetting", "running"} /\ poIn \subseteq PoAll
    BY <1>0 DEF PoTypes
  <2>7. poSeq \in 0..PoMaxSeq
    BY <2>1
  <2> QED BY <2>2, <2>3, <2>4, <2>5, <2>6, <2>7 DEF PoTypeOK
<1>2. PoInOrderOnce
  BY <1>0 DEF PoNumbers, PoNumberOf, PoConsecutive, PoInOrderOnce
<1>3. PoOneThreadAtATime
  <2> SUFFICES ASSUME NEW c \in PoAll, NEW t \in PoThreads, NEW u \in PoThreads,
                      PoInCallback(t, c), PoInCallback(u, c)
               PROVE  t = u
    BY DEF PoOneThreadAtATime
  <2>1. PoConsumers \cap PoTasks = {}
    BY <1>0, PoSetting DEF PoTypes
  <2>2. \A v \in PoThreads : PoInCallback(v, c) =>
          \/ c \in PoConsumers /\ PoHandles(v, c)
          \/ c \in PoTasks /\ PoInvokes(v, c)
    BY <1>0 DEF PoInCallback, PoHandles, PoHeld, PoHand, PoInvokes, PoPlaces, PoTasksOnce
  <2>3. CASE c \in PoConsumers
    BY <1>0, <2>1, <2>2, <2>3 DEF PoNumbers
  <2>4. CASE c \in PoTasks
    BY <1>0, <2>1, <2>2, <2>4 DEF PoTasksOnce, PoInvokes
  <2> QED BY <2>2, <2>3, <2>4
<1>4. PoGoneForGood
  <2> SUFFICES ASSUME NEW c \in PoConsumers, poDrops[c] > 0
               PROVE  /\ poDrops[c] = 1 /\ (poNext[c] = PoSTOP \/ poStop)
                      /\ \A t \in PoServers(c) :
                           /\ c \notin Range(poQ[t])
                           /\ ~(poT[t].c = c /\ poT[t].pc \in
                                 {"starting", "look", "claim", "keep", "handle", "drop"})
    BY DEF PoGoneForGood
  <2>1. PoCountOf(c) /\ c \in PoAll /\ poDrops[c] \in Nat
    BY <1>0 DEF PoCounts, PoTypes, PoAll
  <2>2. c \notin poIn /\ poDrops[c] = 1 /\ (poNext[c] = PoSTOP \/ poStop)
    BY <2>1 DEF PoCountOf
  <2>3. ASSUME NEW t \in PoServers(c)
        PROVE  c \notin Range(poQ[t]) /\ ~(poT[t].c = c /\ poT[t].pc \in PoHand)
    <3>1. t \in PoThreads
      BY DEF PoServers
    <3>2. ~PoHas(t, c)
      BY <1>0, <2>2, <3>1 DEF PoPlaces, PoPlaceOf
    <3>3. DOMAIN poQ[t] = 1..Len(poQ[t])
      <4>1. poQ[t] \in Seq(PoConsumers)
        BY <1>0, <3>1, PoSetting DEF PoTypes
      <4> QED BY <4>1
    <3>4. ~PoAmong(poQ[t], c) /\ ~PoHeld(t, c)
      BY <3>2 DEF PoHas, PoQueued
    <3>5. c \notin Range(poQ[t])
      BY <3>3, <3>4 DEF PoAmong, Range
    <3> QED BY <3>4, <3>5 DEF PoHeld
  <2> QED BY <2>2, <2>3 DEF PoHand
<1>5. PoAllDropped
  <2> SUFFICES ASSUME \A t \in PoThreads : poT[t].pc = "done", NEW c \in poIn, c \notin poLate
               PROVE  FALSE
    BY DEF PoAllDropped
  <2>1. PICK t \in PoThreads : TRUE
    BY <1>0, PoSetting DEF PoTypes
  <2>2. poStop /\ poIn \cap PoTasks = {}
    BY <1>0, <2>1 DEF PoEnds, PoEnding
  <2>3. c \in PoConsumers
    BY <1>0, <2>2 DEF PoTypes, PoAll
  <2>4. ASSUME NEW u \in PoServers(c) PROVE u \in PoAway(c)
    <3>1. u \in PoThreads /\ poT[u].pc = "done"
      BY DEF PoServers
    <3>2. u \notin poAdding[c]
      BY <1>0, <2>2, <2>3 DEF PoEnds
    <3>3. ~PoHeld(u, c)
      BY <3>1 DEF PoHeld, PoHand
    <3>4. ~PoQueued(u, c)
      <4>1. PoLeftIn(u) = 0 /\ poT[u].pc \in PoEnding
        BY <3>1 DEF PoLeftIn, PoEnding
      <4>2. \A i \in 1..Len(poQ[u]) : 0 < i
        <5>1. poQ[u] \in Seq(PoConsumers)
          BY <1>0, <3>1, PoSetting DEF PoTypes
        <5> QED BY <5>1
      <4>3. \A i \in 1..Len(poQ[u]) : poQ[u][i] \in poLate
        BY <1>0, <3>1, <4>1, <4>2 DEF PoEnds
      <4> QED BY <4>3 DEF PoQueued, PoAmong
    <3> QED BY <3>2, <3>3, <3>4 DEF PoHas, PoAway
  <2>5. PoAway(c) = PoServers(c)
    BY <2>4 DEF PoAway
  <2>6. /\ poDropCount[c] = Cardinality(PoAway(c)) /\ poDropCount[c] < Cardinality(PoServers(c))
        /\ poDropCount[c] \in Nat
    BY <1>0, <2>3 DEF PoCounts, PoCountOf, PoTypes
  <2> QED BY <2>5, <2>6
<1> QED BY <1>1, <1>2, <1>3, <1>4, <1>5 DEF PoSafety

\* In every execution of the pool a consumer gets its messages in order and once, one thread
\* at a time runs its callbacks, droppedCb is called once and by the last thread that gives it
\* up, and a pool whose threads are gone leaves nobody behind who was added before stop
\* (PoolT.ipp, PoolConsumer::handleRange, PoolMinusImpl).
THEOREM PoServes == PoSpec => []PoSafety
<1>1. PoInit => PoInv
  BY PoInitKeeps
<1>2. PoInv => PoSafety
  BY PoInvSafe
<1> QED BY <1>1, <1>2, PoStepKeeps, PTL DEF PoSpec
=============================================================================
