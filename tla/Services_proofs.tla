--------------------------- MODULE Services_proofs ---------------------------
(***************************************************************************)
(* Proofs about the components built beside the messaging core, for every  *)
(* value of their constants.                                               *)
(*                                                                         *)
(* Epoll: no packet that waits in a socket is forgotten.                   *)
(* SeqArb: every number is used once and in order, and a gap is reported   *)
(* only when no feed can fill it.                                          *)
(* PingPong: every round trip measured is one.                             *)
(* ShmTransport: whoever is up uses constructed memory of one owner.       *)
(***************************************************************************)
EXTENDS Epoll, SeqArb, PingPong, ShmTransport, SequenceTheorems, FiniteSetTheorems, WellFoundedInduction, TLAPS

-----------------------------------------------------------------------------
(* Epoll.                                                                  *)

\* With the types in full EpSafety is inductive: a reader that fetches the shared flag
\* has none of its own, and a poller that has not waited has no edges.
EpInv ==
  /\ EpSafety
  /\ epOpen \subseteq EpFds
  /\ epIn \in [EpFds -> Nat] /\ epRead \in [EpFds -> Nat]
  /\ \A f \in EpFds : epR[f] = "exchange" => ~epLocal[f]
  /\ \A p \in EpPollers : epP[p].at # "raise" => epP[p].todo = {}

\* EpInv holds at first.
LEMMA EpInvInit == EpInit => EpInv
<1> SUFFICES ASSUME EpInit PROVE EpInv
  OBVIOUS
<1>1. epOpen \subseteq EpFds
  BY EpAssumption DEF EpInit
<1>2. EpTypeOK
  <2>1. \A f \in EpFds : epIn[f] \in 0..EpMaxIn /\ epRead[f] \in 0..epIn[f]
    BY EpAssumption DEF EpInit
  <2>2. epP \in [EpPollers -> [at : {"load", "wait", "raise"}, todo : SUBSET epOpen]]
    BY DEF EpInit, EpIdlePoller
  <2> QED BY <2>1, <2>2 DEF EpInit, EpTypeOK
<1>3. EpNotForgotten
  BY DEF EpInit, EpNotForgotten
<1> QED BY <1>1, <1>2, <1>3 DEF EpInit, EpInv, EpSafety, EpIdlePoller

\* A packet that arrives brings an edge with it.
LEMMA EpInvArrive == ASSUME EpInv, NEW f \in EpFds, EpArrive(f) PROVE EpInv'
<1> USE DEF EpInv, EpSafety, EpTypeOK
<1>1. EpNotForgotten'
  BY DEF EpArrive, EpNotForgotten
<1>2. EpTypeOK'
  BY EpAssumption DEF EpArrive
<1> QED BY <1>1, <1>2 DEF EpArrive

\* What a reader does to its flags leaves another trace of the packets that wait.
LEMMA EpInvReader == ASSUME EpInv, NEW f \in EpFds, EpReader(f) PROVE EpInv'
<1> USE DEF EpInv, EpSafety, EpTypeOK, EpReaderTo, epSocket
<1>1. CASE EpAsk(f)
  BY <1>1 DEF EpAsk, EpNotForgotten
<1>2. CASE EpExchange(f)
  BY <1>2 DEF EpExchange, EpNotForgotten
<1>3. CASE EpRead(f)
  <2>1. EpTypeOK'
    BY <1>3 DEF EpRead, EpHas
  <2>2. EpNotForgotten'
    BY <1>3 DEF EpRead, EpHas, EpNotForgotten
  <2> QED BY <1>3, <2>1, <2>2 DEF EpRead, EpHas
<1>4. CASE EpErr(f)
  BY <1>4 DEF EpErr, EpCleared, EpNotForgotten
<1> QED BY <1>1, <1>2, <1>3, <1>4 DEF EpReader

\* An edge goes from the system to a poller and from there to the socket's flag.
LEMMA EpInvPoller == ASSUME EpInv, NEW p \in EpPollers, EpPoller(p) PROVE EpInv'
<1> USE DEF EpInv, EpSafety, EpTypeOK, EpPollerTo, epSocket
<1>1. CASE EpLoad(p)
  BY <1>1 DEF EpLoad, EpNotForgotten
<1>2. CASE EpWait(p)
  BY <1>2 DEF EpWait, EpReports, EpNotForgotten
<1>3. CASE EpRaise(p)
  BY <1>3 DEF EpRaise, EpNotForgotten
<1>4. CASE EpClear(p)
  BY <1>4 DEF EpClear, EpIdlePoller, EpNotForgotten
<1> QED BY <1>1, <1>2, <1>3, <1>4 DEF EpPoller

\* Packets that wait in a socket have left a trace, an edge or a flag, that a poller or
\* the socket's reader will come across (EpollTask.hpp:106-125).
THEOREM EpNeverForgets == EpSpec => []EpSafety
<1>1. EpInit => EpInv
  BY EpInvInit
<1>2. EpInv /\ [EpNext]_epVars => EpInv'
  <2>1. ASSUME EpInv, UNCHANGED epVars PROVE EpInv'
    BY <2>1 DEF epVars, EpInv, EpSafety, EpTypeOK, EpNotForgotten
  <2> QED BY <2>1, EpInvArrive, EpInvReader, EpInvPoller DEF EpNext
<1>3. EpInv => EpSafety
  BY DEF EpInv
<1> QED BY <1>1, <1>2, <1>3, PTL DEF EpSpec

-----------------------------------------------------------------------------
(* SeqArb.                                                                 *)

SaTypes ==
  /\ saSet \in SaSettings
  /\ saAt \in [SaParts -> Nat \ {0}]
  /\ saPc \in [SaParts -> {"call", "swap", "hit", "low", "again", "gap"}]
  /\ saOld \in [SaParts -> Nat] /\ saLow \in [SaParts -> Nat \X Nat] /\ saJ \in [SaParts -> Nat]
  /\ saSeq \in Nat \cup {SaBusy} /\ saHits \in Seq(Nat) /\ saGaps \in Seq(Nat)

\* Who is inside a call has a number to present.
SaPlaces ==
  \A p \in SaParts : /\ saAt[p] <= Len(saSet.feeds[p]) + 1
                     /\ saPc[p] # "call" => SaFed(p)

\* Participant p has left all numbers of its feed below n behind.
SaPassed(p, n) == \A i \in DOMAIN saSet.feeds[p] : saSet.feeds[p][i] < n => i < saAt[p]

\* An entry of j_ is a number that its participant has come to ...
SaEntries == \A p \in SaParts : saJ[p] <= SaLast /\ SaPassed(p, saJ[p])
\* ... so every participant read so far has passed the numbers below low.
SaLowOf(p) ==
  /\ saLow[p][2] <= Cardinality(SaParts)
  /\ saLow[p][2] > 0 =>
       /\ saLow[p][1] <= SaLast
       /\ \A q \in SaParts : q <= saLow[p][2] => SaPassed(q, saLow[p][1])
  /\ saPc[p] \in {"again", "gap"} =>
       saLow[p][2] = Cardinality(SaParts) /\ saLow[p][1] > saOld[p]
SaLows == \A p \in SaParts : SaLowOf(p)

\* All below e is decided, nothing else is, and who has passed a number has seen it decided.
SaUpTo(e) ==
  /\ e \in saSet.start..SaEnd
  /\ Range(saHits) \cup Range(saGaps) = saSet.start..(e - 1)
  /\ Len(saHits) + Len(saGaps) = e - saSet.start
  /\ \A q \in SaParts : \A i \in DOMAIN saSet.feeds[q] : i < saAt[q] => saSet.feeds[q][i] < e

\* One participant at a time runs a hit or gap function, for the number that was expected
\* when it put SaBusy into seq_.
SaHolds(p) == saPc[p] \in {"hit", "gap"}
SaExpected(p) == IF saPc[p] = "hit" THEN SaNumber(p) ELSE saOld[p]
SaProgress ==
  /\ saSeq # SaBusy => SaUpTo(saSeq) /\ \A p \in SaParts : ~SaHolds(p)
  /\ \A p \in SaParts : SaHolds(p) =>
       SaUpTo(SaExpected(p)) /\ \A q \in SaParts : SaHolds(q) => q = p

SaArbInv ==
  SaTypes /\ SaPlaces /\ SaEntries /\ SaLows /\ SaProgress /\ SaOnceInOrder /\ SaNoFalseGap

\* A feed whose numbers increase from each to the next increases.
LEMMA SaIncreases ==
  ASSUME NEW f \in Seq(Nat), \A i \in 2..Len(f) : f[i - 1] < f[i]
  PROVE  \A i, k \in 1..Len(f) : i < k => f[i] < f[k]
<1> SUFFICES ASSUME NEW i \in 1..Len(f),
                    {k \in 1..Len(f) : i < k /\ ~(f[i] < f[k])} # {}
             PROVE  FALSE
  OBVIOUS
<1> DEFINE T == {k \in 1..Len(f) : i < k /\ ~(f[i] < f[k])}
           Below == OpToRel(<, Nat)
<1>0. Len(f) \in Nat /\ \A k \in 1..Len(f) : f[k] \in Nat
  OBVIOUS
<1>1. T \subseteq Nat /\ T # {}
  BY <1>0
<1>2. PICK x \in T : \A y \in T : <<y, x>> \notin Below
  BY <1>1, NatLessThanWellFounded, WFMin
<1>3. \A y \in T : ~(y < x)
  BY <1>1, <1>2 DEF OpToRel
<1>4. x \in 1..Len(f) /\ i < x /\ ~(f[i] < f[x])
  BY <1>2
<1>5. x \in 2..Len(f) /\ x - 1 \in 1..Len(f) /\ (i = x - 1 \/ i < x - 1) /\ x - 1 < x
  BY <1>0, <1>4
<1>6. f[x - 1] < f[x] /\ f[i] \in Nat /\ f[x] \in Nat /\ f[x - 1] \in Nat
  BY <1>0, <1>4, <1>5
<1>7. i = x - 1 \/ f[i] < f[x - 1]
  BY <1>3, <1>5
<1> QED BY <1>4, <1>6, <1>7

\* What is known of the feeds.
LEMMA SaFeeds ==
  ASSUME SaTypes
  PROVE  /\ saSet.start \in Nat /\ SaLast \in Nat /\ SaEnd \in Nat /\ saSet.start <= SaEnd
         /\ SaLast < SaEnd
         /\ SaParts = 1..Len(saSet.feeds) /\ Len(saSet.feeds) \in Nat
         /\ Cardinality(SaParts) = Len(saSet.feeds)
         /\ \A p \in SaParts :
              /\ saSet.feeds[p] \in Seq(Nat) /\ Len(saSet.feeds[p]) \in Nat
              /\ DOMAIN saSet.feeds[p] = 1..Len(saSet.feeds[p])
              /\ \A i \in DOMAIN saSet.feeds[p] :
                   /\ saSet.feeds[p][i] \in Nat /\ saSet.feeds[p][i] <= SaLast
                   /\ \A k \in DOMAIN saSet.feeds[p] :
                        saSet.feeds[p][i] < saSet.feeds[p][k] => i < k
<1>1. /\ saSet.start \in Nat /\ saSet.feeds \in Seq(Seq(Nat))
      /\ \A p \in DOMAIN saSet.feeds :
           /\ saSet.feeds[p] # <<>> /\ Last(saSet.feeds[p]) = Last(saSet.feeds[1])
           /\ \A i \in 2..Len(saSet.feeds[p]) : saSet.feeds[p][i - 1] < saSet.feeds[p][i]
  BY SaAssumption DEF SaTypes
<1>2. SaParts = 1..Len(saSet.feeds) /\ Len(saSet.feeds) \in Nat
  BY <1>1 DEF SaParts
<1>3. Cardinality(SaParts) = Len(saSet.feeds)
  BY <1>2, FS_Interval
<1>4. ASSUME NEW p \in SaParts
      PROVE  /\ saSet.feeds[p] \in Seq(Nat) /\ Len(saSet.feeds[p]) \in Nat \ {0}
             /\ DOMAIN saSet.feeds[p] = 1..Len(saSet.feeds[p])
             /\ \A i, k \in 1..Len(saSet.feeds[p]) : i < k => saSet.feeds[p][i] < saSet.feeds[p][k]
             /\ saSet.feeds[p][Len(saSet.feeds[p])] = Last(saSet.feeds[1])
  <2> DEFINE f == saSet.feeds[p]
  <2>1. f \in Seq(Nat) /\ f # <<>>
    BY <1>1 DEF SaParts
  <2>2. Len(f) \in Nat \ {0} /\ DOMAIN f = 1..Len(f)
    BY <2>1
  <2>3. \A i \in 2..Len(f) : f[i - 1] < f[i]
    BY <1>1 DEF SaParts
  <2>4. f[Len(f)] = Last(saSet.feeds[1])
    BY <1>1 DEF SaParts, Last
  <2> QED BY <2>1, <2>2, <2>3, <2>4, SaIncreases
<1>5. SaLast \in Nat /\ \A p \in SaParts : SaLast = saSet.feeds[p][Len(saSet.feeds[p])]
  <2>1. CASE saSet.feeds = <<>>
    BY <2>1, <1>2 DEF SaLast
  <2>2. CASE saSet.feeds # <<>>
    <3>1. 1 \in SaParts /\ SaLast = Last(saSet.feeds[1])
      BY <2>2, <1>1, <1>2 DEF SaLast
    <3>2. saSet.feeds[1][Len(saSet.feeds[1])] \in Nat
      BY <3>1, <1>4
    <3> QED BY <3>1, <3>2, <1>4
  <2> QED BY <2>1, <2>2
<1>6. ASSUME NEW p \in SaParts, NEW i \in DOMAIN saSet.feeds[p]
      PROVE  /\ saSet.feeds[p][i] \in Nat /\ saSet.feeds[p][i] <= SaLast
             /\ \A k \in DOMAIN saSet.feeds[p] : saSet.feeds[p][i] < saSet.feeds[p][k] => i < k
  <2> DEFINE f == saSet.feeds[p]
  <2>1. f \in Seq(Nat) /\ Len(f) \in Nat \ {0} /\ i \in 1..Len(f) /\ DOMAIN f = 1..Len(f)
        /\ SaLast = f[Len(f)] /\ \A m, k \in 1..Len(f) : m < k => f[m] < f[k]
    BY <1>4, <1>5
  <2> HIDE DEF f
  <2>2. \A k \in 1..Len(f) : f[k] \in Nat
    BY <2>1
  <2>3. f[i] <= SaLast
    BY <2>1, <2>2
  <2>4. \A k \in 1..Len(f) : f[i] < f[k] => i < k
    BY <2>1, <2>2
  <2> QED BY <2>1, <2>2, <2>3, <2>4 DEF f
<1>7. SaEnd \in Nat /\ saSet.start <= SaEnd /\ SaLast < SaEnd
  BY <1>1, <1>5 DEF SaEnd
<1> QED BY <1>1, <1>2, <1>3, <1>4, <1>5, <1>6, <1>7

\* A step of one participant leaves the others where they are, and all in their types.
LEMMA SaMoves ==
  ASSUME SaTypes, SaPlaces, NEW p \in SaParts, SaStep(p)
  PROVE  /\ saSet' = saSet /\ SaTypes'
         /\ \A q \in SaParts \ {p} :
              /\ saAt'[q] = saAt[q] /\ saPc'[q] = saPc[q] /\ saOld'[q] = saOld[q]
              /\ saLow'[q] = saLow[q] /\ saJ'[q] = saJ[q]
<1> USE DEF SaTo, SaReturns, saLocal
<1>0. /\ saAt \in [SaParts -> Nat \ {0}]
      /\ saPc \in [SaParts -> {"call", "swap", "hit", "low", "again", "gap"}]
      /\ saOld \in [SaParts -> Nat] /\ saLow \in [SaParts -> Nat \X Nat]
      /\ saJ \in [SaParts -> Nat] /\ saSeq \in Nat \cup {SaBusy}
      /\ saHits \in Seq(Nat) /\ saGaps \in Seq(Nat) /\ <<0, 0>> \in Nat \X Nat
  BY DEF SaTypes
<1>1. saSet' = saSet
  BY DEF SaStep, SaCall, SaSwap, SaHit, SaReadLow, SaCheck, SaSwapAgain, SaGap
<1>2. SaParts' = SaParts
  BY <1>1 DEF SaParts
<1>3. SaFed(p) => SaNumber(p) \in Nat
  <2>1. /\ saSet.feeds[p] \in Seq(Nat) /\ Len(saSet.feeds[p]) \in Nat
        /\ DOMAIN saSet.feeds[p] = 1..Len(saSet.feeds[p])
        /\ \A i \in DOMAIN saSet.feeds[p] : saSet.feeds[p][i] \in Nat
    BY SaFeeds
  <2>2. saAt[p] \in Nat \ {0}
    BY <1>0
  <2> QED BY <2>1, <2>2 DEF SaFed, SaNumber
<1>4. saAt' \in [SaParts -> Nat \ {0}] /\ \A q \in SaParts \ {p} : saAt'[q] = saAt[q]
  <2>1. saAt' = saAt \/ saAt' = [saAt EXCEPT ![p] = @ + 1]
    BY DEF SaStep, SaCall, SaSwap, SaHit, SaReadLow, SaCheck, SaSwapAgain, SaGap
  <2>2. saAt[p] + 1 \in Nat \ {0}
    BY <1>0
  <2> QED BY <1>0, <2>1, <2>2
<1>5. /\ saPc' \in [SaParts -> {"call", "swap", "hit", "low", "again", "gap"}]
      /\ \A q \in SaParts \ {p} : saPc'[q] = saPc[q]
  <2>1. \/ saPc' = saPc
        \/ \E pc \in {"call", "swap", "hit", "low", "again", "gap"} :
             saPc' = [saPc EXCEPT ![p] = pc]
    BY DEF SaStep, SaCall, SaSwap, SaHit, SaReadLow, SaCheck, SaSwapAgain, SaGap
  <2> QED BY <1>0, <2>1
<1>6. saOld' \in [SaParts -> Nat] /\ \A q \in SaParts \ {p} : saOld'[q] = saOld[q]
  <2>1. saOld' = saOld \/ \E n \in Nat : saOld' = [saOld EXCEPT ![p] = n]
    BY <1>0 DEF SaStep, SaCall, SaSwap, SaHit, SaReadLow, SaCheck, SaSwapAgain, SaGap
  <2>2. CASE saOld' = saOld
    BY <1>0, <2>2
  <2>3. ASSUME NEW n \in Nat, saOld' = [saOld EXCEPT ![p] = n]
        PROVE  saOld' \in [SaParts -> Nat] /\ \A q \in SaParts \ {p} : saOld'[q] = saOld[q]
    BY <1>0, <2>3
  <2> QED BY <2>1, <2>2, <2>3
<1>7. saLow' \in [SaParts -> Nat \X Nat] /\ \A q \in SaParts \ {p} : saLow'[q] = saLow[q]
  <2>1. CASE SaReadLow(p)
    <3>1. saLow[p][1] \in Nat /\ saLow[p][2] \in Nat
      BY <1>0
    <3>2. saLow[p][2] < Cardinality(SaParts)
      BY <2>1 DEF SaReadLow
    <3>3. 1 \in SaParts /\ saLow[p][2] + 1 \in SaParts
      BY <3>1, <3>2, SaFeeds
    <3>4. saJ[1] \in Nat /\ saJ[saLow[p][2] + 1] \in Nat
      BY <1>0, <3>3
    <3>5. PICK m \in Nat : saLow' = [saLow EXCEPT ![p] = <<m, saLow[p][2] + 1>>]
      BY <2>1, <3>1, <3>4 DEF SaReadLow, SaLower
    <3> QED BY <1>0, <3>1, <3>5
  <2>2. CASE ~SaReadLow(p)
    <3>1. saLow' = saLow \/ saLow' = [saLow EXCEPT ![p] = <<0, 0>>]
      BY <2>2 DEF SaStep, SaCall, SaSwap, SaHit, SaCheck, SaSwapAgain, SaGap
    <3> QED BY <1>0, <3>1
  <2> QED BY <2>1, <2>2
<1>8. saJ' \in [SaParts -> Nat] /\ \A q \in SaParts \ {p} : saJ'[q] = saJ[q]
  <2>1. saJ' = saJ \/ (SaFed(p) /\ saJ' = [saJ EXCEPT ![p] = SaNumber(p)])
    BY DEF SaStep, SaCall, SaMayCall, SaSwap, SaHit, SaReadLow, SaCheck, SaSwapAgain, SaGap
  <2> QED BY <1>0, <1>3, <2>1
<1>9. saSeq' \in Nat \cup {SaBusy} /\ saHits' \in Seq(Nat) /\ saGaps' \in Seq(Nat)
  <2>1. CASE SaHit(p)
    <3>1. SaNumber(p) \in Nat /\ SaAfter(SaNumber(p)) \in Nat
      BY <1>3, <2>1 DEF SaHit, SaPlaces, SaAfter
    <3>2. /\ saHits' = Append(saHits, SaNumber(p)) /\ saSeq' = SaAfter(SaNumber(p))
          /\ saGaps' = saGaps
      BY <2>1 DEF SaHit
    <3> QED BY <1>0, <3>1, <3>2
  <2>2. CASE SaGap(p)
    <3> DEFINE low == saLow[p][1]
               gap == [i \in 1..(low - saOld[p]) |-> saOld[p] + i - 1]
    <3>1. low \in Nat /\ saOld[p] \in Nat
      BY <1>0
    <3>2. gap \in Seq(Nat)
      BY <3>1
    <3> HIDE DEF gap, low
    <3>3. saSeq' = low /\ saGaps' = saGaps \o gap /\ saHits' = saHits
      BY <2>2 DEF SaGap, SaGapEnd, gap, low
    <3> QED BY <1>0, <3>1, <3>2, <3>3
  <2>3. CASE ~SaHit(p) /\ ~SaGap(p)
    <3>1. saHits' = saHits /\ saGaps' = saGaps /\ saSeq' \in {saSeq, SaBusy}
      BY <2>3 DEF SaStep, SaCall, SaSwap, SaReadLow, SaCheck, SaSwapAgain
    <3> QED BY <1>0, <3>1
  <2> QED BY <2>1, <2>2, <2>3
<1> QED BY <1>1, <1>2, <1>4, <1>5, <1>6, <1>7, <1>8, <1>9 DEF SaTypes

\* Only in two steps does a participant go on in its feed: when it finds its number
\* decided, and when it has hit it.
LEMMA SaAdvances ==
  ASSUME SaTypes, SaPlaces, NEW p \in SaParts, SaStep(p)
  PROVE  /\ \A q \in SaParts : saAt[q] <= saAt'[q]
         /\ \/ saAt' = saAt
            \/ /\ saAt' = [saAt EXCEPT ![p] = @ + 1] /\ saPc'[p] = "call" /\ SaFed(p)
               /\ SaHit(p) \/ (SaSwap(p) /\ saSeq # SaBusy /\ saSeq' = saSeq /\ SaNumber(p) < saSeq)
<1>0. saAt \in [SaParts -> Nat \ {0}] /\ saPc \in [SaParts -> {"call", "swap", "hit", "low", "again", "gap"}]
  BY DEF SaTypes
<1>1. \/ saAt' = saAt
      \/ /\ saAt' = [saAt EXCEPT ![p] = @ + 1] /\ saPc'[p] = "call" /\ saPc[p] # "call"
         /\ SaHit(p) \/ (SaSwap(p) /\ saSeq # SaBusy /\ saSeq' = saSeq /\ SaNumber(p) < saSeq)
  <2>1. CASE SaHit(p)
    BY <1>0, <2>1 DEF SaHit, SaReturns, SaTo
  <2>2. CASE SaSwap(p)
    BY <1>0, <2>2 DEF SaSwap, SaReturns, SaTo, SaDecided
  <2>3. CASE ~SaHit(p) /\ ~SaSwap(p)
    BY <2>3 DEF SaStep, SaCall, SaReadLow, SaCheck, SaSwapAgain, SaGap, SaReturns
  <2> QED BY <2>1, <2>2, <2>3
<1>2. \A q \in SaParts : saAt[q] <= saAt'[q]
  BY <1>0, <1>1
<1> QED BY <1>1, <1>2 DEF SaPlaces

\* Who is in a call has a number to present, afterwards, too.
LEMMA SaPlacesKept ==
  ASSUME SaTypes, SaPlaces, NEW p \in SaParts, SaStep(p)
  PROVE  SaPlaces'
<1>0. saAt \in [SaParts -> Nat \ {0}] /\ saPc \in [SaParts -> {"call", "swap", "hit", "low", "again", "gap"}]
  BY DEF SaTypes
<1>1. saSet' = saSet /\ SaParts' = SaParts
      /\ \A q \in SaParts \ {p} : saAt'[q] = saAt[q] /\ saPc'[q] = saPc[q]
  BY SaMoves DEF SaParts
<1>2. saAt[p] <= Len(saSet.feeds[p]) + 1 /\ (saPc[p] # "call" => SaFed(p))
      /\ Len(saSet.feeds[p]) \in Nat
  BY SaFeeds DEF SaPlaces
<1>3. saAt'[p] <= Len(saSet.feeds[p]) + 1 /\ (saPc'[p] # "call" => SaFed(p)')
  <2>1. CASE saAt' = saAt
    <3>1. saPc[p] = "call" /\ saPc'[p] # "call" => SaFed(p)
      BY DEF SaStep, SaCall, SaMayCall, SaSwap, SaHit, SaReadLow, SaCheck, SaSwapAgain, SaGap
    <3> QED BY <1>1, <1>2, <2>1, <3>1 DEF SaFed
  <2>2. CASE saAt' # saAt
    <3>1. saAt'[p] = saAt[p] + 1 /\ saPc'[p] = "call" /\ SaFed(p)
      BY <1>0, <2>2, SaAdvances
    <3> QED BY <1>0, <1>2, <3>1 DEF SaFed
  <2> QED BY <2>1, <2>2
<1> QED BY <1>1, <1>3 DEF SaPlaces, SaFed

\* What a participant has passed it does not come back to.
LEMMA SaPassedKept ==
  ASSUME SaTypes, SaPlaces, NEW p \in SaParts, SaStep(p), NEW q \in SaParts, NEW n, SaPassed(q, n)
  PROVE  \A i \in DOMAIN saSet'.feeds[q] : saSet'.feeds[q][i] < n => i < saAt'[q]
<1>1. saSet' = saSet /\ saAt[q] <= saAt'[q] /\ saAt[q] \in Nat /\ saAt'[q] \in Nat
  BY SaMoves, SaAdvances DEF SaTypes, SaParts
<1>2. DOMAIN saSet.feeds[q] = 1..Len(saSet.feeds[q]) /\ Len(saSet.feeds[q]) \in Nat
  BY SaFeeds
<1> QED BY <1>1, <1>2 DEF SaPassed

\* An entry of j_ is the number that its participant has come to.
LEMMA SaEntriesKept ==
  ASSUME SaTypes, SaPlaces, SaEntries, NEW p \in SaParts, SaStep(p)
  PROVE  SaEntries'
<1>0. saAt \in [SaParts -> Nat \ {0}] /\ saJ \in [SaParts -> Nat]
  BY DEF SaTypes
<1>1. saSet' = saSet /\ SaParts' = SaParts /\ SaLast' = SaLast
      /\ \A q \in SaParts \ {p} : saJ'[q] = saJ[q]
  BY SaMoves DEF SaParts, SaLast
<1>2. ASSUME NEW q \in SaParts, saJ'[q] = saJ[q] PROVE saJ'[q] <= SaLast /\ SaPassed(q, saJ[q])'
  BY <1>1, <1>2, SaPassedKept DEF SaEntries, SaPassed
<1>3. CASE SaCall(p)
  <2>1. saJ'[p] = SaNumber(p) /\ saAt' = saAt /\ saAt[p] \in DOMAIN saSet.feeds[p]
    BY <1>0, <1>3, SaFeeds DEF SaCall, SaMayCall, SaFed
  <2>2. SaNumber(p) <= SaLast /\ SaPassed(p, SaNumber(p))
    BY <2>1, SaFeeds DEF SaNumber, SaPassed
  <2>3. SaPassed(p, saJ[p])'
    BY <1>1, <2>1, <2>2 DEF SaPassed
  <2> QED BY <1>1, <1>2, <2>1, <2>2, <2>3 DEF SaEntries
<1>4. CASE ~SaCall(p)
  <2>1. saJ' = saJ
    BY <1>4 DEF SaStep, SaSwap, SaHit, SaReadLow, SaCheck, SaSwapAgain, SaGap
  <2> QED BY <1>1, <1>2, <2>1 DEF SaEntries
<1> QED BY <1>3, <1>4

\* low stays behind every participant that was read, whatever these do meanwhile.
LEMMA SaLowsKept ==
  ASSUME SaTypes, SaPlaces, SaEntries, SaLows, NEW p \in SaParts, SaStep(p)
  PROVE  SaLows'
<1>0. /\ saLow \in [SaParts -> Nat \X Nat] /\ saJ \in [SaParts -> Nat] /\ saOld \in [SaParts -> Nat]
      /\ saPc \in [SaParts -> {"call", "swap", "hit", "low", "again", "gap"}]
  BY DEF SaTypes
<1>1. /\ saSet' = saSet /\ SaParts' = SaParts /\ SaLast' = SaLast
      /\ Cardinality(SaParts) \in Nat /\ SaParts = 1..Cardinality(SaParts)
      /\ \A q \in SaParts \ {p} : saLow'[q] = saLow[q] /\ saOld'[q] = saOld[q] /\ saPc'[q] = saPc[q]
  BY SaMoves, SaFeeds DEF SaParts, SaLast
<1>2. \A q \in SaParts, n \in Nat : SaPassed(q, n) =>
        \A i \in DOMAIN saSet.feeds[q] : saSet.feeds[q][i] < n => i < saAt'[q]
  BY <1>1, SaPassedKept
<1>3. ASSUME NEW q \in SaParts, saLow'[q] = saLow[q],
             saPc'[q] \in {"again", "gap"} =>
               saLow[q][2] = Cardinality(SaParts) /\ saLow[q][1] > saOld'[q]
      PROVE  SaLowOf(q)'
  <2>1. SaLowOf(q) /\ saLow[q][1] \in Nat /\ saLow[q][2] \in Nat
    BY <1>0 DEF SaLows
  <2>2. saLow[q][2] > 0 =>
          /\ saLow[q][1] <= SaLast
          /\ \A r \in SaParts : r <= saLow[q][2] =>
               \A i \in DOMAIN saSet.feeds[r] : saSet.feeds[r][i] < saLow[q][1] => i < saAt'[r]
    BY <2>1, <1>2 DEF SaLowOf
  <2> QED BY <1>1, <1>3, <2>1, <2>2 DEF SaLowOf, SaPassed
<1>4. \A q \in SaParts \ {p} : SaLowOf(q)'
  BY <1>1, <1>3 DEF SaLows, SaLowOf
<1>5. SaLowOf(p)'
  <2>1. CASE SaReadLow(p)
    <3> DEFINE n == saLow[p][2]
               m == IF n = 0 THEN saJ[1] ELSE SaLower(saLow[p][1], saJ[n + 1])
    <3>1. /\ n \in Nat /\ saLow[p][1] \in Nat /\ n < Cardinality(SaParts) /\ saPc'[p] = "low"
          /\ saLow'[p] = <<m, n + 1>> /\ saAt' = saAt
      BY <1>0, <2>1 DEF SaReadLow
    <3>2. n + 1 \in SaParts /\ 1 \in SaParts /\ saJ[n + 1] \in Nat
      BY <1>0, <1>1, <3>1
    <3>3. saJ[n + 1] <= SaLast /\ SaPassed(n + 1, saJ[n + 1])
      BY <3>2 DEF SaEntries
    <3>4. /\ n > 0 => saLow[p][1] <= SaLast
          /\ n > 0 => \A q \in SaParts : q <= n => SaPassed(q, saLow[p][1])
      BY <2>1, <3>1 DEF SaLows, SaLowOf
    <3>5. m \in Nat /\ m <= SaLast /\ m <= saJ[n + 1] /\ (n > 0 => m <= saLow[p][1])
      <4>1. CASE n = 0
        BY <4>1, <3>2, <3>3
      <4>2. CASE n > 0
        BY <4>2, <3>1, <3>2, <3>3, <3>4 DEF SaLower
      <4> QED BY <4>1, <4>2, <3>1
    <3> HIDE DEF m
    <3>6. ASSUME NEW q \in SaParts, q <= n + 1, NEW i \in DOMAIN saSet.feeds[q],
                 saSet.feeds[q][i] < m
          PROVE  i < saAt[q]
      <4>1. saSet.feeds[q][i] \in Nat
        BY SaFeeds
      <4>2. CASE q = n + 1
        BY <3>2, <3>3, <3>5, <3>6, <4>1, <4>2 DEF SaPassed
      <4>3. CASE q # n + 1
        <5>1. q <= n /\ n > 0 /\ SaPassed(q, saLow[p][1])
          BY <1>1, <3>1, <3>4, <3>6, <4>3
        <5> QED BY <3>1, <3>5, <3>6, <4>1, <5>1 DEF SaPassed
      <4> QED BY <4>2, <4>3
    <3>7. saLow'[p][1] = m /\ saLow'[p][2] = n + 1
      BY <3>1
    <3> HIDE DEF n
    <3> QED BY <1>1, <3>1, <3>5, <3>6, <3>7 DEF SaLowOf, SaPassed
  <2>2. CASE saLow' = [saLow EXCEPT ![p] = <<0, 0>>] /\ saPc'[p] = "call"
    <3>1. saLow'[p] = <<0, 0>>
      BY <1>0, <2>2
    <3> QED BY <1>1, <2>2, <3>1 DEF SaLowOf
  <2>3. CASE saLow' = saLow /\ saPc'[p] \notin {"again", "gap"}
    BY <2>3, <1>3
  <2>4. CASE saLow' = saLow /\ saPc'[p] \in {"again", "gap"}
    <3>1. saOld' = saOld /\ (SaCheck(p) \/ saPc[p] = "again")
      BY <2>4, <1>0 DEF SaStep, SaCall, SaSwap, SaHit, SaReadLow, SaCheck, SaSwapAgain, SaGap,
                        SaReturns, SaTo
    <3>2. saLow[p][2] = Cardinality(SaParts) /\ saLow[p][1] > saOld[p]
      BY <3>1, <2>4, <1>0 DEF SaCheck, SaReturns, SaTo, SaLows, SaLowOf
    <3> QED BY <2>4, <3>1, <3>2, <1>3
  <2>5. \/ SaReadLow(p) \/ saLow' = saLow
        \/ saLow' = [saLow EXCEPT ![p] = <<0, 0>>] /\ saPc'[p] = "call"
    BY <1>0 DEF SaStep, SaCall, SaSwap, SaHit, SaCheck, SaSwapAgain, SaGap, SaReturns, SaTo
  <2> QED BY <2>1, <2>2, <2>3, <2>4, <2>5
<1> QED BY <1>1, <1>4, <1>5 DEF SaLows

\* Participants have seen the numbers below e decided, also after one went on that had.
LEMMA SaSeenKept ==
  ASSUME SaTypes, SaPlaces, NEW p \in SaParts, SaStep(p), NEW e, SaUpTo(e),
         saAt'[p] = saAt[p] \/ SaNumber(p) < e
  PROVE  \A q \in SaParts : \A i \in DOMAIN saSet.feeds[q] :
           i < saAt'[q] => saSet.feeds[q][i] < e
<1> SUFFICES ASSUME NEW q \in SaParts, NEW i \in DOMAIN saSet.feeds[q], i < saAt'[q]
             PROVE  saSet.feeds[q][i] < e
  OBVIOUS
<1>1. CASE i < saAt[q]
  BY <1>1 DEF SaUpTo
<1>2. CASE ~(i < saAt[q])
  <2>1. saAt' = [saAt EXCEPT ![p] = @ + 1] /\ saAt \in [SaParts -> Nat \ {0}]
    BY <1>2, SaAdvances DEF SaTypes
  <2>2. i \in Nat /\ DOMAIN saSet.feeds[q] = 1..Len(saSet.feeds[q]) /\ Len(saSet.feeds[q]) \in Nat
    BY SaFeeds
  <2>3. q = p /\ i = saAt[p] /\ saAt'[p] # saAt[p]
    BY <1>2, <2>1, <2>2
  <2> QED BY <2>3 DEF SaNumber
<1> QED BY <1>1, <1>2

\* Steps that neither take nor give up SaBusy.
LEMMA SaOthersProgress ==
  ASSUME SaTypes, SaPlaces, SaProgress, NEW p \in SaParts, SaStep(p),
         ~SaHolds(p), ~SaHolds(p)', saSeq' = saSeq, saHits' = saHits, saGaps' = saGaps
  PROVE  SaProgress'
<1>0. ~SaHit(p)
  BY DEF SaHit, SaHolds
<1>1. /\ saSet' = saSet /\ SaParts' = SaParts /\ SaEnd' = SaEnd
      /\ \A q \in SaParts \ {p} : saPc'[q] = saPc[q] /\ saAt'[q] = saAt[q] /\ saOld'[q] = saOld[q]
      /\ saAt' = saAt \/ (saSeq # SaBusy /\ SaNumber(p) < saSeq)
  BY <1>0, SaMoves, SaAdvances DEF SaParts, SaEnd, SaLast
<1>2. \A q \in SaParts : SaHolds(q)' <=> SaHolds(q)
  BY <1>1 DEF SaHolds
<1>3. \A q \in SaParts : SaHolds(q) => SaExpected(q)' = SaExpected(q) /\ saSeq = SaBusy
  BY <1>1 DEF SaExpected, SaHolds, SaNumber, SaProgress
<1>4. CASE saSeq = SaBusy
  <2>1. saAt' = saAt
    BY <1>1, <1>4
  <2>2. \A q \in SaParts : SaHolds(q) => SaUpTo(SaExpected(q))'
    BY <1>1, <1>3, <2>1 DEF SaProgress, SaUpTo
  <2> QED BY <1>1, <1>2, <1>4, <2>2 DEF SaProgress
<1>5. CASE saSeq # SaBusy
  <2>1. SaUpTo(saSeq) /\ \A q \in SaParts : ~SaHolds(q)
    BY <1>5 DEF SaProgress
  <2>2. saAt'[p] = saAt[p] \/ SaNumber(p) < saSeq
    BY <1>1
  <2>3. \A q \in SaParts : \A i \in DOMAIN saSet.feeds[q] :
          i < saAt'[q] => saSet.feeds[q][i] < saSeq
    BY <2>1, <2>2, SaSeenKept
  <2>4. SaUpTo(saSeq)'
    BY <1>1, <2>1, <2>3 DEF SaUpTo
  <2> QED BY <1>1, <1>2, <1>5, <2>1, <2>4 DEF SaProgress
<1> QED BY <1>4, <1>5

\* Steps that put SaBusy in the place of the number expected.
LEMMA SaTakesProgress ==
  ASSUME SaTypes, SaPlaces, SaProgress, NEW p \in SaParts, SaStep(p),
         saSeq # SaBusy, saSeq' = SaBusy, SaExpected(p)' = saSeq,
         saAt' = saAt, saHits' = saHits, saGaps' = saGaps
  PROVE  SaProgress'
<1>1. /\ saSet' = saSet /\ SaParts' = SaParts /\ SaEnd' = SaEnd
      /\ \A q \in SaParts \ {p} : saPc'[q] = saPc[q]
  BY SaMoves DEF SaParts, SaEnd, SaLast
<1>2. SaUpTo(saSeq) /\ \A q \in SaParts : ~SaHolds(q)
  BY DEF SaProgress
<1>3. \A q \in SaParts \ {p} : ~SaHolds(q)'
  BY <1>1, <1>2 DEF SaHolds
<1>4. SaUpTo(SaExpected(p))'
  BY <1>1, <1>2 DEF SaUpTo
<1> QED BY <1>1, <1>3, <1>4 DEF SaProgress

\* What an append adds to a sequence.
LEMMA SaAppended ==
  ASSUME NEW s \in Seq(Nat), NEW e \in Nat
  PROVE  /\ Range(Append(s, e)) = Range(s) \cup {e} /\ Len(Append(s, e)) = Len(s) + 1
         /\ Len(s) \in Nat /\ \A i \in 1..Len(s) : Append(s, e)[i] = s[i] /\ s[i] \in Range(s)
         /\ Append(s, e)[Len(s) + 1] = e
<1> DEFINE t == Append(s, e)
<1>1. /\ Len(t) = Len(s) + 1 /\ Len(s) \in Nat /\ \A i \in 1..Len(s) : t[i] = s[i]
      /\ t[Len(s) + 1] = e /\ DOMAIN s = 1..Len(s) /\ DOMAIN t = 1..(Len(s) + 1)
  OBVIOUS
<1> HIDE DEF t
<1>2. Range(t) \subseteq Range(s) \cup {e}
  <2> SUFFICES ASSUME NEW i \in DOMAIN t PROVE t[i] \in Range(s) \cup {e}
    BY DEF Range
  <2>1. i \in 1..Len(s) \/ i = Len(s) + 1
    BY <1>1
  <2> QED BY <1>1, <2>1 DEF Range
<1>3. Range(s) \cup {e} \subseteq Range(t)
  <2>1. \A i \in DOMAIN s : i \in DOMAIN t /\ t[i] = s[i]
    BY <1>1
  <2>2. Len(s) + 1 \in DOMAIN t
    BY <1>1
  <2> QED BY <1>1, <2>1, <2>2 DEF Range
<1> QED BY <1>1, <1>2, <1>3 DEF t, Range

\* A hit appends the number expected, a gap function all numbers up to low.
LEMMA SaHitProgress ==
  ASSUME SaTypes, SaPlaces, SaProgress, NEW p \in SaParts, SaHit(p)
  PROVE  /\ SaProgress' /\ saGaps' = saGaps
         /\ saHits' = Append(saHits, SaNumber(p)) /\ SaUpTo(SaNumber(p))
<1>0. SaStep(p) /\ saPc[p] = "hit" /\ SaHolds(p)
  BY DEF SaStep, SaHit, SaHolds
<1> DEFINE e == SaNumber(p)
<1>1. /\ saSet' = saSet /\ SaParts' = SaParts /\ SaEnd' = SaEnd
      /\ \A q \in SaParts \ {p} : saPc'[q] = saPc[q]
  BY <1>0, SaMoves DEF SaParts, SaEnd, SaLast
<1>2. /\ saHits' = Append(saHits, e) /\ saGaps' = saGaps /\ saSeq' = e + 1 /\ saPc'[p] = "call"
      /\ saAt' = [saAt EXCEPT ![p] = @ + 1]
  BY DEF SaHit, SaReturns, SaTo, SaAfter, SaTypes
<1>3. SaUpTo(e) /\ \A q \in SaParts \ {p} : ~SaHolds(q)
  BY <1>0 DEF SaProgress, SaExpected
<1>4. e \in Nat /\ e <= SaLast /\ saHits \in Seq(Nat) /\ saGaps \in Seq(Nat)
      /\ saSet.start \in Nat /\ SaLast \in Nat /\ SaEnd \in Nat /\ SaLast < SaEnd
      /\ saSet.start <= e
  <2>1. saAt[p] \in DOMAIN saSet.feeds[p]
    <3>1. saAt[p] <= Len(saSet.feeds[p]) /\ saAt[p] \in Nat \ {0}
      BY <1>0 DEF SaPlaces, SaFed, SaTypes
    <3> QED BY <3>1, SaFeeds
  <2>2. saHits \in Seq(Nat) /\ saGaps \in Seq(Nat)
    BY DEF SaTypes
  <2>3. e \in Nat /\ e <= SaLast /\ saSet.start \in Nat /\ SaLast \in Nat /\ SaEnd \in Nat /\ SaLast < SaEnd
    BY <2>1, SaFeeds DEF SaNumber
  <2>4. saSet.start <= e
    BY <1>3, <2>3 DEF SaUpTo
  <2> QED BY <2>2, <2>3, <2>4
<1>5. \A q \in SaParts : \A i \in DOMAIN saSet.feeds[q] : i < saAt'[q] => saSet.feeds[q][i] < e + 1
  <2>1. SaUpTo(e) => \A q \in SaParts : \A i \in DOMAIN saSet.feeds[q] :
          i < saAt[q] => saSet.feeds[q][i] < e
    BY DEF SaUpTo
  <2> SUFFICES ASSUME NEW q \in SaParts, NEW i \in DOMAIN saSet.feeds[q], i < saAt'[q]
               PROVE  saSet.feeds[q][i] < e + 1
    OBVIOUS
  <2>2. /\ saSet.feeds[q][i] \in Nat /\ i \in Nat /\ saAt[q] \in Nat
        /\ saAt'[q] = IF q = p THEN saAt[q] + 1 ELSE saAt[q]
    <3>1. /\ DOMAIN saSet.feeds[q] = 1..Len(saSet.feeds[q]) /\ Len(saSet.feeds[q]) \in Nat
          /\ saSet.feeds[q][i] \in Nat
      BY SaFeeds
    <3>2. saAt \in [SaParts -> Nat \ {0}] /\ i \in Nat
      BY <3>1 DEF SaTypes
    <3> QED BY <3>1, <3>2, <1>2
  <2>3. CASE i < saAt[q]
    BY <1>3, <1>4, <2>1, <2>2, <2>3
  <2>4. CASE ~(i < saAt[q])
    <3>1. q = p /\ i = saAt[p]
      BY <2>2, <2>4
    <3> QED BY <1>4, <3>1 DEF SaNumber
  <2> QED BY <2>3, <2>4
<1>6. Range(saHits') \cup Range(saGaps') = saSet.start..((e + 1) - 1)
  <2>1. Range(saHits') = Range(saHits) \cup {e}
    BY <1>2, <1>4, SaAppended
  <2>2. Range(saHits) \cup Range(saGaps) = saSet.start..(e - 1)
    BY <1>3 DEF SaUpTo
  <2>3. saSet.start..((e + 1) - 1) = (saSet.start..(e - 1)) \cup {e}
    BY <1>4
  <2> QED BY <1>2, <2>1, <2>2, <2>3
<1>7. Len(saHits') + Len(saGaps') = (e + 1) - saSet.start
  <2>1. Len(saHits') = Len(saHits) + 1 /\ Len(saHits) \in Nat /\ Len(saGaps) \in Nat
    BY <1>2, <1>4
  <2>2. Len(saHits) + Len(saGaps) = e - saSet.start /\ e \in Nat /\ saSet.start \in Nat
    BY <1>3, <1>4 DEF SaUpTo
  <2>3. saGaps' = saGaps
    BY <1>2
  <2> HIDE DEF e
  <2> QED BY <2>1, <2>2, <2>3
<1> HIDE DEF e
<1>8. e + 1 \in saSet.start..SaEnd
  BY <1>4
<1>9. SaUpTo(saSeq)' /\ saSeq' # SaBusy
  <2>1. saSeq' # SaBusy
    BY <1>2, <1>4 DEF SaBusy
  <2>2. SaUpTo(saSeq)'
    BY <1>1, <1>2, <1>5, <1>6, <1>7, <1>8 DEF SaUpTo
  <2> QED BY <2>1, <2>2
<1>10. \A q \in SaParts : ~SaHolds(q)'
  BY <1>1, <1>2, <1>3 DEF SaHolds
<1> QED BY <1>1, <1>2, <1>3, <1>9, <1>10 DEF SaProgress, e

\* What a gap from e up to low adds to a sequence.
LEMMA SaConcatenated ==
  ASSUME NEW s \in Seq(Nat), NEW e \in Nat, NEW low \in Nat, e <= low
  PROVE  LET gap == [i \in 1..(low - e) |-> e + i - 1]
         IN  /\ Range(s \o gap) = Range(s) \cup (e..(low - 1))
             /\ Len(s \o gap) = Len(s) + (low - e) /\ Len(s) \in Nat
<1> DEFINE gap == [i \in 1..(low - e) |-> e + i - 1]
<1>1. gap \in Seq(Nat) /\ Len(gap) = low - e
  OBVIOUS
<1>2. Range(gap) = e..(low - 1)
  <2>1. \A i \in 1..(low - e) : gap[i] = e + i - 1
    OBVIOUS
  <2>2. DOMAIN gap = 1..(low - e)
    OBVIOUS
  <2> HIDE DEF gap
  <2>3. \A n \in e..(low - 1) : (n - e) + 1 \in 1..(low - e) /\ n = e + ((n - e) + 1) - 1
    OBVIOUS
  <2>4. e..(low - 1) \subseteq Range(gap)
    <3> SUFFICES ASSUME NEW n \in e..(low - 1) PROVE n \in Range(gap)
      OBVIOUS
    <3>1. (n - e) + 1 \in DOMAIN gap /\ gap[(n - e) + 1] = n
      BY <2>1, <2>2, <2>3
    <3> QED BY <3>1 DEF Range
  <2>5. Range(gap) \subseteq e..(low - 1)
    BY <2>1, <2>2 DEF Range
  <2> QED BY <2>4, <2>5
<1> HIDE DEF gap
<1>3. Range(s \o gap) = Range(s) \cup Range(gap)
  BY <1>1, RangeConcatenation
<1>4. Len(s \o gap) = Len(s) + Len(gap) /\ Len(s) \in Nat
  BY <1>1
<1> QED BY <1>1, <1>2, <1>3, <1>4 DEF gap

\* A gap function reports the numbers from the one expected up to low, and none of them
\* is in a feed: every participant has passed them, and passes only what is decided.
LEMMA SaGapProgress ==
  ASSUME SaTypes, SaPlaces, SaLows, SaProgress, NEW p \in SaParts, SaGap(p)
  PROVE  /\ SaProgress' /\ saHits' = saHits
         /\ \E new \in SUBSET Nat : /\ Range(saGaps') = Range(saGaps) \cup new
                                    /\ new \cap SaFeedNumbers = {}
<1>0. SaStep(p) /\ saPc[p] = "gap" /\ SaHolds(p)
  BY DEF SaStep, SaGap, SaHolds
<1> DEFINE e == saOld[p]
           low == saLow[p][1]
<1>1. /\ saSet' = saSet /\ SaParts' = SaParts /\ SaEnd' = SaEnd
      /\ \A q \in SaParts \ {p} : saPc'[q] = saPc[q]
  BY <1>0, SaMoves DEF SaParts, SaEnd, SaLast
<1>2. /\ saGaps' = saGaps \o [i \in 1..(low - e) |-> e + i - 1] /\ saHits' = saHits
      /\ saSeq' = low /\ saPc'[p] = "call" /\ saAt' = saAt
  BY DEF SaGap, SaReturns, SaTo, SaGapEnd, SaTypes
<1>3. SaUpTo(e) /\ \A q \in SaParts \ {p} : ~SaHolds(q)
  BY <1>0 DEF SaProgress, SaExpected
<1>4. /\ e \in Nat /\ low \in Nat /\ saHits \in Seq(Nat) /\ saGaps \in Seq(Nat)
      /\ saSet.start \in Nat /\ SaLast \in Nat /\ SaEnd \in Nat /\ SaLast < SaEnd
      /\ saSet.start <= e /\ e < low /\ low <= SaLast
      /\ \A q \in SaParts : SaPassed(q, low)
  <2>1. e \in Nat /\ low \in Nat /\ saHits \in Seq(Nat) /\ saGaps \in Seq(Nat)
    BY DEF SaTypes
  <2>2. saSet.start \in Nat /\ SaLast \in Nat /\ SaEnd \in Nat /\ SaLast < SaEnd
        /\ SaParts = 1..Cardinality(SaParts) /\ Cardinality(SaParts) \in Nat
    BY SaFeeds
  <2>3. e < low /\ low <= SaLast /\ \A q \in SaParts : SaPassed(q, low)
    <3>1. saLow[p][2] = Cardinality(SaParts) /\ low > e /\ SaLowOf(p) /\ p \in 1..Cardinality(SaParts)
      BY <1>0, <2>2 DEF SaLows, SaLowOf
    <3> QED BY <2>1, <2>2, <3>1 DEF SaLowOf
  <2>4. saSet.start <= e
    BY <1>3, <2>1, <2>2 DEF SaUpTo
  <2> QED BY <2>1, <2>2, <2>3, <2>4
<1> HIDE DEF e, low
<1>5. Range(saGaps') = Range(saGaps) \cup (e..(low - 1))
      /\ Len(saGaps') = Len(saGaps) + (low - e) /\ Len(saGaps) \in Nat /\ Len(saHits) \in Nat
  <2>1. e <= low /\ Len(saHits) \in Nat
    BY <1>4
  <2> QED BY <1>2, <1>4, <2>1, SaConcatenated
<1>6. Range(saHits') \cup Range(saGaps') = saSet.start..(low - 1)
  <2>1. Range(saHits) \cup Range(saGaps) = saSet.start..(e - 1)
    BY <1>3 DEF SaUpTo
  <2>2. saSet.start..(low - 1) = (saSet.start..(e - 1)) \cup (e..(low - 1))
    BY <1>4
  <2> QED BY <1>2, <1>5, <2>1, <2>2
<1>7. Len(saHits') + Len(saGaps') = low - saSet.start
  <2>1. Len(saHits) + Len(saGaps) = e - saSet.start /\ saHits' = saHits
    BY <1>2, <1>3 DEF SaUpTo
  <2>2. e \in Nat /\ low \in Nat /\ saSet.start \in Nat
    BY <1>4
  <2>3. Len(saGaps') = Len(saGaps) + (low - e) /\ Len(saGaps) \in Nat /\ Len(saHits) \in Nat
    BY <1>5
  <2> QED BY <2>1, <2>2, <2>3
<1>8. \A q \in SaParts : \A i \in DOMAIN saSet.feeds[q] : i < saAt[q] => saSet.feeds[q][i] < low
  <2> SUFFICES ASSUME NEW q \in SaParts, NEW i \in DOMAIN saSet.feeds[q], i < saAt[q]
               PROVE  saSet.feeds[q][i] < low
    OBVIOUS
  <2>1. saSet.feeds[q][i] < e /\ saSet.feeds[q][i] \in Nat
    BY <1>3, SaFeeds DEF SaUpTo
  <2> QED BY <1>4, <2>1
<1>9. SaUpTo(saSeq)' /\ saSeq' # SaBusy
  <2>1. saSeq' # SaBusy /\ low \in saSet.start..SaEnd
    BY <1>2, <1>4 DEF SaBusy
  <2> QED BY <1>1, <1>2, <1>6, <1>7, <1>8, <2>1 DEF SaUpTo
<1>10. \A q \in SaParts : ~SaHolds(q)'
  BY <1>1, <1>2, <1>3 DEF SaHolds
<1>11. (e..(low - 1)) \cap SaFeedNumbers = {}
  <2> SUFFICES ASSUME NEW q \in SaParts, NEW i \in DOMAIN saSet.feeds[q],
                      saSet.feeds[q][i] \in e..(low - 1)
               PROVE  FALSE
    BY DEF SaFeedNumbers, Range
  <2>0. saSet.feeds[q][i] \in Nat /\ e \in Nat /\ low \in Nat
    BY <1>4, SaFeeds
  <2>1. saSet.feeds[q][i] < low /\ ~(saSet.feeds[q][i] < e)
    BY <2>0
  <2>2. i < saAt[q]
    BY <1>4, <2>1 DEF SaPassed
  <2> QED BY <1>3, <2>1, <2>2 DEF SaUpTo
<1>12. e..(low - 1) \in SUBSET Nat
  BY <1>4
<1> QED BY <1>1, <1>2, <1>5, <1>9, <1>10, <1>11, <1>12 DEF SaProgress

\* What comes before and after a step of the arbiter.
LEMMA SaStepKeeps == ASSUME SaArbInv, NEW p \in SaParts, SaStep(p) PROVE SaArbInv'
<1>0. SaTypes /\ SaPlaces /\ SaEntries /\ SaLows /\ SaProgress /\ SaOnceInOrder /\ SaNoFalseGap
  BY DEF SaArbInv
<1>1. SaTypes' /\ SaPlaces' /\ SaEntries' /\ SaLows'
  BY <1>0, SaMoves, SaPlacesKept, SaEntriesKept, SaLowsKept
<1>2. /\ saPc \in [SaParts -> {"call", "swap", "hit", "low", "again", "gap"}]
      /\ saOld \in [SaParts -> Nat] /\ saSeq \in Nat \cup {SaBusy}
      /\ saSet' = saSet /\ SaParts' = SaParts /\ SaFeedNumbers' = SaFeedNumbers
  <2>1. saSet' = saSet
    BY <1>0, SaMoves
  <2>2. SaParts' = SaParts /\ SaFeedNumbers' = SaFeedNumbers
    BY <2>1 DEF SaParts, SaFeedNumbers
  <2> QED BY <1>0, <2>1, <2>2 DEF SaTypes
<1>3. CASE SaHit(p)
  <2>1. /\ SaProgress' /\ saGaps' = saGaps /\ saHits' = Append(saHits, SaNumber(p))
        /\ SaUpTo(SaNumber(p))
    BY <1>0, <1>3, SaHitProgress
  <2>2. SaNoFalseGap'
    BY <1>0, <1>2, <2>1 DEF SaNoFalseGap
  <2>3. SaOnceInOrder'
    <3> DEFINE e == SaNumber(p)
    <3>1. e \in Nat
      <4>1. saAt[p] \in Nat \ {0} /\ saAt[p] <= Len(saSet.feeds[p])
        BY <1>0, <1>3 DEF SaHit, SaPlaces, SaFed, SaTypes
      <4> QED BY <1>0, <4>1, SaFeeds DEF SaNumber
    <3>2. \A n \in Range(saHits) : n < e
      BY <1>0, <2>1, <3>1, SaFeeds DEF SaUpTo
    <3> HIDE DEF e
    <3>3. /\ Len(saHits') = Len(saHits) + 1 /\ Len(saHits) \in Nat
          /\ \A i \in 1..Len(saHits) : saHits'[i] = saHits[i] /\ saHits[i] \in Range(saHits)
          /\ saHits'[Len(saHits) + 1] = e
      <4>1. saHits \in Seq(Nat) /\ saHits' = Append(saHits, e)
        BY <1>0, <2>1 DEF SaTypes, e
      <4> QED BY <3>1, <4>1, SaAppended
    <3> SUFFICES ASSUME NEW i \in 2..Len(saHits') PROVE saHits'[i - 1] < saHits'[i]
      BY DEF SaOnceInOrder
    <3>4. CASE i = Len(saHits) + 1
      <4>1. i - 1 = Len(saHits) /\ i - 1 \in 1..Len(saHits)
        BY <3>3, <3>4
      <4> QED BY <3>2, <3>3, <3>4, <4>1
    <3>5. CASE i # Len(saHits) + 1
      <4>1. i \in 2..Len(saHits) /\ i \in 1..Len(saHits) /\ i - 1 \in 1..Len(saHits)
        BY <3>3, <3>5
      <4>2. saHits[i - 1] < saHits[i]
        BY <1>0, <4>1 DEF SaOnceInOrder
      <4> QED BY <3>3, <4>1, <4>2
    <3> QED BY <3>4, <3>5
  <2> QED BY <1>1, <2>1, <2>2, <2>3 DEF SaArbInv
<1>4. CASE SaGap(p)
  <2>1. /\ SaProgress' /\ saHits' = saHits
        /\ \E new \in SUBSET Nat : /\ Range(saGaps') = Range(saGaps) \cup new
                                   /\ new \cap SaFeedNumbers = {}
    BY <1>0, <1>4, SaGapProgress
  <2>2. SaNoFalseGap' /\ SaOnceInOrder'
    BY <1>0, <1>2, <2>1 DEF SaNoFalseGap, SaOnceInOrder
  <2> QED BY <1>1, <2>1, <2>2 DEF SaArbInv
<1>5. CASE ~SaHit(p) /\ ~SaGap(p)
  <2>1. saHits' = saHits /\ saGaps' = saGaps
    BY <1>5 DEF SaStep, SaCall, SaSwap, SaReadLow, SaCheck, SaSwapAgain
  <2>2. SaNoFalseGap' /\ SaOnceInOrder'
    BY <1>0, <1>2, <2>1 DEF SaNoFalseGap, SaOnceInOrder
  <2>3. \/ ~SaHolds(p) /\ ~SaHolds(p)' /\ saSeq' = saSeq
        \/ saSeq # SaBusy /\ saSeq' = SaBusy /\ SaExpected(p)' = saSeq /\ saAt' = saAt
    <3>1. CASE SaSwap(p)
      <4>1. CASE saSeq = SaNumber(p)
        <5>1. SaNumber(p) # SaBusy
          <6>1. saAt[p] \in Nat \ {0} /\ saAt[p] <= Len(saSet.feeds[p])
            BY <1>0, <3>1 DEF SaSwap, SaPlaces, SaFed, SaTypes
          <6>2. SaNumber(p) \in Nat
            BY <1>0, <6>1, SaFeeds DEF SaNumber
          <6> QED BY <6>2 DEF SaBusy
        <5>2. saSeq' = SaBusy /\ saPc'[p] = "hit" /\ saAt' = saAt
          BY <1>2, <3>1, <4>1, <5>1 DEF SaSwap, SaTo
        <5>3. SaExpected(p)' = saSeq
          BY <1>2, <4>1, <5>2 DEF SaExpected, SaNumber
        <5> QED BY <4>1, <5>1, <5>2, <5>3
      <4>2. CASE saSeq # SaNumber(p)
        BY <1>2, <3>1, <4>2 DEF SaSwap, SaTo, SaReturns, SaHolds
      <4> QED BY <4>1, <4>2
    <3>2. CASE SaSwapAgain(p)
      <4>1. CASE SaStillOld(p)
        <5>1. saSeq # SaBusy
          BY <1>2, <4>1 DEF SaStillOld, SaBusy
        <5>2. saSeq' = SaBusy /\ saPc'[p] = "gap" /\ saAt' = saAt /\ saOld' = saOld
          BY <1>2, <3>2, <4>1 DEF SaSwapAgain, SaTo
        <5>3. SaExpected(p)' = saSeq
          BY <4>1, <5>2 DEF SaExpected, SaStillOld
        <5> QED BY <5>1, <5>2, <5>3
      <4>2. CASE ~SaStillOld(p)
        BY <1>2, <3>2, <4>2 DEF SaSwapAgain, SaTo, SaReturns, SaHolds
      <4> QED BY <4>1, <4>2
    <3>3. CASE SaCall(p) \/ SaReadLow(p) \/ SaCheck(p)
      BY <1>2, <3>3 DEF SaCall, SaReadLow, SaCheck, SaTo, SaReturns, SaHolds
    <3> QED BY <1>5, <3>1, <3>2, <3>3 DEF SaStep
  <2>4. SaProgress'
    BY <1>0, <2>1, <2>3, SaOthersProgress, SaTakesProgress
  <2> QED BY <1>1, <2>2, <2>4 DEF SaArbInv
<1> QED BY <1>3, <1>4, <1>5

\* Before the first call.
LEMMA SaStarts == ASSUME SaInit PROVE SaArbInv
<1>1. SaTypes
  <2>1. saSet.start \in Nat
    BY SaAssumption DEF SaInit
  <2> QED BY <2>1 DEF SaInit, SaTypes
<1>2. /\ \A p \in SaParts : /\ saAt[p] = 1 /\ saPc[p] = "call" /\ saLow[p] = <<0, 0>> /\ saJ[p] = 0
                            /\ ~SaHolds(p)
      /\ saHits = <<>> /\ saGaps = <<>> /\ saSeq = saSet.start
  BY DEF SaInit, SaHolds
<1>3. SaPlaces /\ SaLows
  BY <1>1, <1>2, SaFeeds DEF SaPlaces, SaLows, SaLowOf
<1>4. SaEntries
  <2>1. \A p \in SaParts : \A i \in DOMAIN saSet.feeds[p] : ~(saSet.feeds[p][i] < 0)
    BY <1>1, SaFeeds
  <2>2. 0 <= SaLast
    BY <1>1, SaFeeds
  <2> QED BY <1>2, <2>1, <2>2 DEF SaEntries, SaPassed
<1>5. Range(saHits) = {} /\ Range(saGaps) = {} /\ Len(saHits) = 0 /\ Len(saGaps) = 0
  BY <1>2 DEF Range
<1>6. SaProgress
  <2>1. saSet.start \in Nat /\ SaEnd \in Nat /\ saSet.start <= SaEnd
    BY <1>1, SaFeeds
  <2>2. \A p \in SaParts : \A i \in DOMAIN saSet.feeds[p] : ~(i < saAt[p])
    <3> SUFFICES ASSUME NEW p \in SaParts, NEW i \in DOMAIN saSet.feeds[p] PROVE ~(i < 1)
      BY <1>2
    <3>1. DOMAIN saSet.feeds[p] = 1..Len(saSet.feeds[p]) /\ Len(saSet.feeds[p]) \in Nat
      BY <1>1, SaFeeds
    <3> QED BY <3>1
  <2>3. SaUpTo(saSeq)
    BY <1>2, <1>5, <2>1, <2>2 DEF SaUpTo
  <2> QED BY <1>2, <2>3 DEF SaProgress
<1>7. SaOnceInOrder /\ SaNoFalseGap
  BY <1>5 DEF SaOnceInOrder, SaNoFalseGap
<1> QED BY <1>1, <1>3, <1>4, <1>6, <1>7 DEF SaArbInv

\* What the arbiter keeps, whatever is in the feeds and however their participants
\* interleave: every number is hit once and in order (SeqArb.hpp:69), reported missing
\* only when it is in no feed (SeqArb.hpp:81), and none is skipped (SeqArb.hpp:74, 86).
THEOREM SaArbitrates == SaSpec => []SaSafety
<1>1. SaInit => SaArbInv
  BY SaStarts
<1>2. SaArbInv /\ [SaNext]_saVars => SaArbInv'
  <2> SUFFICES ASSUME SaArbInv, [SaNext]_saVars PROVE SaArbInv'
    OBVIOUS
  <2>1. CASE UNCHANGED saVars
    <3>1. UNCHANGED <<saSet, saAt, saPc, saOld, saLow, saSeq, saJ, saHits, saGaps>>
      BY <2>1 DEF saVars, saLocal
    <3>2. SaTypes' /\ SaPlaces' /\ SaEntries'
      BY <3>1 DEF SaArbInv, SaTypes, SaPlaces, SaEntries, SaPassed, SaFed, SaParts, SaLast
    <3>3. SaLows'
      BY <3>1 DEF SaArbInv, SaLows, SaLowOf, SaPassed, SaParts, SaLast
    <3>4. SaProgress'
      BY <3>1 DEF SaArbInv, SaProgress, SaUpTo, SaHolds, SaExpected, SaNumber, SaParts, SaLast, SaEnd
    <3>5. SaOnceInOrder' /\ SaNoFalseGap'
      BY <3>1 DEF SaArbInv, SaOnceInOrder, SaNoFalseGap, SaFeedNumbers, SaParts
    <3> QED BY <3>2, <3>3, <3>4, <3>5 DEF SaArbInv
  <2> QED BY <2>1, SaStepKeeps DEF SaNext
<1>3. SaArbInv => SaSafety
  <2> SUFFICES ASSUME SaArbInv PROVE SaSafety
    OBVIOUS
  <2>0. SaTypes /\ SaPlaces /\ SaLows /\ SaProgress /\ SaOnceInOrder /\ SaNoFalseGap
    BY DEF SaArbInv
  <2>1. SaTypeOK
    <3>1. saSeq \in {SaBusy} \cup saSet.start..SaEnd
      BY <2>0 DEF SaProgress, SaUpTo
    <3>2. ASSUME NEW p \in SaParts
          PROVE  /\ saAt[p] \in 1..(Len(saSet.feeds[p]) + 1)
                 /\ saPc[p] \in {"call", "swap", "hit", "low", "again", "gap"}
                 /\ saLow[p][2] \in 0..Cardinality(SaParts)
      <4>1. /\ saAt[p] \in Nat \ {0} /\ saLow[p][2] \in Nat
            /\ saPc[p] \in {"call", "swap", "hit", "low", "again", "gap"}
        BY <2>0 DEF SaTypes
      <4>2. saAt[p] <= Len(saSet.feeds[p]) + 1 /\ saLow[p][2] <= Cardinality(SaParts)
        BY <2>0 DEF SaPlaces, SaLows, SaLowOf
      <4>3. Len(saSet.feeds[p]) \in Nat /\ Cardinality(SaParts) \in Nat
        BY <2>0, SaFeeds
      <4> QED BY <4>1, <4>2, <4>3
    <3> QED BY <3>1, <3>2 DEF SaTypeOK
  <2>2. SaAccounted
    BY <2>0 DEF SaProgress, SaUpTo, SaAccounted
  <2> QED BY <2>0, <2>1, <2>2 DEF SaSafety
<1> QED BY <1>1, <1>2, <1>3, PTL DEF SaSpec

-----------------------------------------------------------------------------
(* PingPong.                                                               *)

PpPoints == {"none", "handle", "more", "try", "answer", "done"}
PpReplies == [by : PpNodes, ping : Nat]

PpTypes ==
  /\ ppSet \in PpSettings
  /\ ppPc \in [PpNodes -> PpPoints]
  /\ ppTurn \in [PpNodes -> Nat] /\ ppSkipped \in [PpNodes -> Nat] /\ ppSamples \in [PpNodes -> Nat]
  /\ ppCount \in Nat /\ ppTried \in Nat /\ ppGot \in Seq(PpReplies)
  /\ ppQueue \in [PpNodes -> Seq(Nat) \cup Seq(PpReplies)]
  /\ \A n \in PpNodes : /\ n[2] = "ping" => ppQueue[n] \in Seq(PpReplies)
                        /\ n[2] = "pong" => ppQueue[n] \in Seq(Nat)

PpBounds ==
  /\ ppTried <= PpMaxPings /\ ppCount <= ppTried
  /\ \A n \in PpNodes : /\ Len(ppQueue[n]) <= ppSet.room /\ ppSkipped[n] <= ppSet.skip
                        /\ n[2] = "ping" => ppTurn[n] = 0

\* The pings that wait at a ponger, and the one it answers, are in order and published.
PpPongerOf(m) ==
  /\ \A k \in 1..Len(ppQueue[m]) : ppQueue[m][k] \in 1..ppTried
  /\ \A k, l \in 1..Len(ppQueue[m]) : k < l => ppQueue[m][k] < ppQueue[m][l]
  /\ ppTurn[m] <= ppTried
  /\ ppPc[m] = "answer" =>
       ppTurn[m] > 0 /\ \A k \in 1..Len(ppQueue[m]) : ppTurn[m] < ppQueue[m][k]
PpPongersInOrder == \A m \in PpPongers : PpPongerOf(m)

\* All that ponger m has answered is older than ping x.
PpAnsweredBefore(m, x) ==
  /\ \A k \in 1..Len(ppGot) : ppGot[k].by = m => ppGot[k].ping < x
  /\ \A n \in PpNodes : n[2] = "ping" =>
       \A k \in 1..Len(ppQueue[n]) : ppQueue[n][k].by = m => ppQueue[n][k].ping < x
\* ... and is so after the step.
PpStillBefore(m, x) ==
  /\ \A k \in 1..Len(ppGot') : ppGot'[k].by = m => ppGot'[k].ping < x
  /\ \A n \in PpNodes : n[2] = "ping" =>
       \A k \in 1..Len(ppQueue'[n]) : ppQueue'[n][k].by = m => ppQueue'[n][k].ping < x
PpAnswersInOrder ==
  \A m \in PpPongers :
    /\ PpAnsweredBefore(m, ppTried + 1)
    /\ \A k \in 1..Len(ppQueue[m]) : PpAnsweredBefore(m, ppQueue[m][k])
    /\ ppPc[m] = "answer" => PpAnsweredBefore(m, ppTurn[m])

\* Replies in a sequence are of each ponger in the order of the pings, and those in one
\* come before those in the other.
PpOrdered(s) ==
  \A k, l \in 1..Len(s) : k < l /\ s[k].by = s[l].by => s[k].ping < s[l].ping
PpBefore(s, t) ==
  \A k \in 1..Len(s), l \in 1..Len(t) : s[k].by = t[l].by => s[k].ping < t[l].ping
PpRepliesInOrder ==
  /\ PpOrdered(ppGot)
  /\ \A n \in PpNodes : n[2] = "ping" => PpOrdered(ppQueue[n]) /\ PpBefore(ppGot, ppQueue[n])

\* The results of the pinger's statistics; and only a pinger publishes.
PpCounted ==
  /\ \A n \in PpNodes :
       n[2] = "ping" => ppSamples[n] + (ppSet.skip - ppSkipped[n]) = Len(ppGot)
  /\ \A n \in PpNodes : ppPc[n] = "try" => n[2] = "ping" /\ ppTried < PpMaxPings
  /\ ppTried > 0 => \E n \in PpNodes : n[2] = "ping"

PpToolInv ==
  /\ PpTypes /\ PpBounds /\ PpPongersInOrder /\ PpAnswersInOrder /\ PpRepliesInOrder
  /\ PpCounted

\* There is one pinger.
LEMMA PpOnePinger ==
  ASSUME ppSet \in PpSettings
  PROVE  /\ \A n, m \in PpNodes : n[2] = "ping" /\ m[2] = "ping" => n = m
         /\ \A n \in PpNodes : n[2] \in {"ping", "pong"} /\ (n[2] = "ping" => n = PpPinger)
         /\ \A n \in PpNodes : n[2] = "pong" <=> n \in PpPongers
         /\ ppSet.room \in Nat \ {0} /\ ppSet.skip \in Nat /\ PpMaxPings \in Nat
<1>1. /\ \A i, j \in DOMAIN ppSet.procs :
            ppSet.procs[i].role # "pong" /\ ppSet.procs[j].role # "pong" => i = j
      /\ ppSet.room \in Nat \ {0} /\ ppSet.skip \in Nat /\ PpMaxPings \in Nat
  BY PpAssumption
<1>2. ASSUME NEW n \in PpNodes
      PROVE  /\ n = <<n[1], n[2]>> /\ n[1] \in DOMAIN ppSet.procs /\ n[2] \in {"ping", "pong"}
             /\ ppSet.procs[n[1]].role \in {n[2], "both"}
  BY DEF PpNodes
<1>3. \A n, m \in PpNodes : n[2] = "ping" /\ m[2] = "ping" => n = m
  <2> SUFFICES ASSUME NEW n \in PpNodes, NEW m \in PpNodes, n[2] = "ping", m[2] = "ping"
               PROVE  n = m
    OBVIOUS
  <2>1. n[1] = m[1]
    BY <1>1, <1>2
  <2> QED BY <1>2, <2>1
<1>4. ASSUME NEW n \in PpNodes, n[2] = "ping" PROVE n = PpPinger
  <2>1. \E m \in PpNodes : m[2] = "ping"
    BY <1>4
  <2>2. PpPinger \in PpNodes /\ PpPinger[2] = "ping"
    BY <2>1 DEF PpPinger
  <2> QED BY <1>3, <1>4, <2>2
<1> QED BY <1>1, <1>2, <1>3, <1>4 DEF PpPongers

\* Steps that leave queues and results alone, and make no ponger answer.
LEMMA PpQuietKeeps ==
  ASSUME PpToolInv, UNCHANGED <<ppSet, ppQueue, ppTurn, ppSkipped, ppSamples, ppCount, ppTried, ppGot>>,
         ppPc' \in [PpNodes -> PpPoints],
         \A n \in PpNodes : /\ ppPc'[n] = "answer" => ppPc[n] = "answer"
                            /\ ppPc'[n] = "try" =>
                                 ppPc[n] = "try" \/ (n[2] = "ping" /\ ppTried < PpMaxPings)
  PROVE  PpToolInv'
<1>0. PpTypes /\ PpBounds /\ PpPongersInOrder /\ PpAnswersInOrder /\ PpRepliesInOrder /\ PpCounted
  BY DEF PpToolInv
<1>1. PpNodes' = PpNodes /\ PpPongers' = PpPongers /\ PpReplies' = PpReplies
      /\ PpPongers \subseteq PpNodes
  BY DEF PpNodes, PpPongers, PpReplies
<1>2. PpTypes' /\ PpBounds' /\ PpCounted'
  BY <1>0, <1>1 DEF PpTypes, PpBounds, PpCounted
<1>3. PpPongersInOrder'
  BY <1>0, <1>1 DEF PpPongersInOrder, PpPongerOf
<1>4. PpAnswersInOrder'
  BY <1>0, <1>1 DEF PpAnswersInOrder, PpAnsweredBefore
<1>5. PpRepliesInOrder'
  BY <1>0, <1>1 DEF PpRepliesInOrder, PpOrdered, PpBefore
<1> QED BY <1>2, <1>3, <1>4, <1>5 DEF PpToolInv

\* What Tail does to a queue: every entry moves up by one.
LEMMA PpTail ==
  ASSUME NEW S, NEW s \in Seq(S), s # <<>>
  PROVE  /\ Tail(s) \in Seq(S) /\ Len(Tail(s)) = Len(s) - 1 /\ Len(s) \in Nat \ {0}
         /\ Head(s) = s[1] /\ s[1] \in S
         /\ \A k \in 1..Len(Tail(s)) : Tail(s)[k] = s[k + 1] /\ k + 1 \in 2..Len(s)
<1>1. Tail(s) \in Seq(S) /\ Len(Tail(s)) = Len(s) - 1 /\ Len(s) \in Nat \ {0} /\ Head(s) = s[1]
  OBVIOUS
<1>2. \A k \in 1..Len(Tail(s)) : Tail(s)[k] = s[k + 1] /\ k + 1 \in 2..Len(s)
  BY <1>1
<1> QED BY <1>1, <1>2

\* ... and Append: the entries that were there stay where they are.
LEMMA PpAppend ==
  ASSUME NEW S, NEW s \in Seq(S), NEW e \in S
  PROVE  /\ Append(s, e) \in Seq(S) /\ Len(Append(s, e)) = Len(s) + 1 /\ Len(s) \in Nat
         /\ Append(s, e)[Len(s) + 1] = e
         /\ \A k \in 1..Len(s) : Append(s, e)[k] = s[k]
         /\ \A k \in 1..Len(Append(s, e)) : k = Len(s) + 1 \/ k \in 1..Len(s)
  OBVIOUS

\* A node that leaves drops what is in its queue.
LEMMA PpLeaveKeeps == ASSUME PpToolInv, NEW n \in PpNodes, PpLeave(n) PROVE PpToolInv'
<1>0. PpTypes /\ PpBounds /\ PpPongersInOrder /\ PpAnswersInOrder /\ PpRepliesInOrder /\ PpCounted
  BY DEF PpToolInv
<1>1. /\ ppSet' = ppSet /\ UNCHANGED <<ppTurn, ppSkipped, ppSamples, ppCount, ppTried, ppGot>>
      /\ ppPc' = [ppPc EXCEPT ![n] = "done"] /\ ppQueue' = [ppQueue EXCEPT ![n] = <<>>]
  BY DEF PpLeave, PpTo, ppStats
<1>2. PpNodes' = PpNodes /\ PpPongers' = PpPongers /\ PpReplies' = PpReplies
      /\ PpPongers \subseteq PpNodes
  BY <1>1 DEF PpNodes, PpPongers, PpReplies
<1>3. /\ <<>> \in Seq(Nat) /\ <<>> \in Seq(PpReplies) /\ Len(<<>>) = 0 /\ 1..0 = {}
  OBVIOUS
<1>4. /\ ppQueue'[n] = <<>> /\ Len(ppQueue'[n]) = 0 /\ 1..Len(ppQueue'[n]) = {} /\ ppPc'[n] = "done"
      /\ \A m \in PpNodes \ {n} : ppQueue'[m] = ppQueue[m] /\ ppPc'[m] = ppPc[m]
  BY <1>0, <1>1, <1>3 DEF PpTypes
<1>5. PpTypes' /\ PpBounds' /\ PpCounted'
  <2>1. PpTypes'
    BY <1>0, <1>1, <1>2, <1>3, <1>4 DEF PpTypes, PpPoints
  <2>2. PpBounds'
    <3>1. ppSet.room \in Nat \ {0}
      BY <1>0, PpOnePinger DEF PpTypes
    <3> QED BY <1>0, <1>1, <1>2, <1>4, <3>1 DEF PpBounds
  <2>3. PpCounted'
    BY <1>0, <1>1, <1>2 DEF PpCounted
  <2> QED BY <2>1, <2>2, <2>3
<1>6. PpPongersInOrder'
  <2> SUFFICES ASSUME NEW m \in PpPongers PROVE PpPongerOf(m)'
    BY <1>2 DEF PpPongersInOrder
  <2>1. PpPongerOf(m) /\ m \in PpNodes
    BY <1>0, <1>2 DEF PpPongersInOrder
  <2>2. CASE m = n
    BY <1>1, <1>4, <2>1, <2>2 DEF PpPongerOf
  <2>3. CASE m # n
    BY <1>1, <1>4, <2>1, <2>3 DEF PpPongerOf
  <2> QED BY <2>2, <2>3
<1>7. ASSUME NEW m, NEW x, PpAnsweredBefore(m, x)
      PROVE  /\ \A k \in 1..Len(ppGot') : ppGot'[k].by = m => ppGot'[k].ping < x
             /\ \A i \in PpNodes : i[2] = "ping" =>
                  \A k \in 1..Len(ppQueue'[i]) : ppQueue'[i][k].by = m => ppQueue'[i][k].ping < x
  BY <1>1, <1>4, <1>7 DEF PpAnsweredBefore
<1>8. PpAnswersInOrder'
  <2> SUFFICES ASSUME NEW m \in PpPongers
               PROVE  /\ PpAnsweredBefore(m, ppTried + 1)'
                      /\ \A k \in 1..Len(ppQueue'[m]) : PpAnsweredBefore(m, ppQueue[m][k])'
                      /\ ppPc'[m] = "answer" => PpAnsweredBefore(m, ppTurn[m])'
    BY <1>2 DEF PpAnswersInOrder, PpAnsweredBefore
  <2>1. /\ PpAnsweredBefore(m, ppTried + 1)
        /\ \A k \in 1..Len(ppQueue[m]) : PpAnsweredBefore(m, ppQueue[m][k])
        /\ ppPc[m] = "answer" => PpAnsweredBefore(m, ppTurn[m])
        /\ m \in PpNodes
    BY <1>0, <1>2 DEF PpAnswersInOrder
  <2>2. PpAnsweredBefore(m, ppTried + 1)'
    BY <1>1, <1>2, <1>7, <2>1 DEF PpAnsweredBefore
  <2>3. ppPc'[m] = "answer" => PpAnsweredBefore(m, ppTurn[m])'
    BY <1>1, <1>2, <1>4, <1>7, <2>1 DEF PpAnsweredBefore
  <2>4. ASSUME NEW k \in 1..Len(ppQueue'[m]) PROVE PpAnsweredBefore(m, ppQueue[m][k])'
    <3>1. m # n
      BY <1>4, <2>4
    <3>2. ppQueue'[m] = ppQueue[m] /\ PpAnsweredBefore(m, ppQueue[m][k])
      BY <1>4, <2>1, <2>4, <3>1
    <3> QED BY <1>2, <1>7, <3>2 DEF PpAnsweredBefore
  <2> QED BY <2>2, <2>3, <2>4
<1>9. PpRepliesInOrder'
  <2>1. PpOrdered(ppGot)'
    BY <1>0, <1>1 DEF PpRepliesInOrder, PpOrdered
  <2>2. ASSUME NEW m \in PpNodes, m[2] = "ping" PROVE PpOrdered(ppQueue[m])' /\ PpBefore(ppGot, ppQueue[m])'
    <3>1. CASE m = n
      BY <1>4, <3>1 DEF PpOrdered, PpBefore
    <3>2. CASE m # n
      BY <1>0, <1>1, <1>4, <2>2, <3>2 DEF PpRepliesInOrder, PpOrdered, PpBefore
    <3> QED BY <3>1, <3>2
  <2> QED BY <1>2, <2>1, <2>2 DEF PpRepliesInOrder
<1> QED BY <1>5, <1>6, <1>8, <1>9 DEF PpToolInv

\* A result is either skipped or sampled.
LEMMA PpResultCounts ==
  ASSUME PpTypes, PpBounds, NEW n \in PpNodes, PpResult(n)
  PROVE  /\ ppSkipped' \in [PpNodes -> Nat] /\ ppSamples' \in [PpNodes -> Nat]
         /\ \A m \in PpNodes \ {n} : ppSkipped'[m] = ppSkipped[m] /\ ppSamples'[m] = ppSamples[m]
         /\ ppSkipped'[n] <= ppSkipped[n]
         /\ ppSamples'[n] + (ppSet.skip - ppSkipped'[n]) = ppSamples[n] + (ppSet.skip - ppSkipped[n]) + 1
<1>1. /\ ppSkipped \in [PpNodes -> Nat] /\ ppSamples \in [PpNodes -> Nat] /\ ppSet.skip \in Nat
      /\ ppSkipped[n] \in Nat /\ ppSamples[n] \in Nat
  BY PpOnePinger DEF PpTypes
<1>2. CASE ppSkipped[n] = 0
  <2>1. ppSamples' = [ppSamples EXCEPT ![n] = @ + 1] /\ ppSkipped' = ppSkipped
    BY <1>2 DEF PpResult
  <2> QED BY <1>1, <2>1
<1>3. CASE ppSkipped[n] # 0
  <2>1. ppSkipped' = [ppSkipped EXCEPT ![n] = @ - 1] /\ ppSamples' = ppSamples
    BY <1>3 DEF PpResult
  <2>2. ppSkipped[n] - 1 \in Nat
    BY <1>1, <1>3
  <2> QED BY <1>1, <2>1, <2>2
<1> QED BY <1>2, <1>3

\* The pinger takes a reply from its queue and counts it.
LEMMA PpHandlePongKeeps == ASSUME PpToolInv, NEW n \in PpNodes, PpHandlePong(n) PROVE PpToolInv'
<1>0. PpTypes /\ PpBounds /\ PpPongersInOrder /\ PpAnswersInOrder /\ PpRepliesInOrder /\ PpCounted
  BY DEF PpToolInv
<1> DEFINE q == ppQueue[n]
<1>1. /\ ppSet' = ppSet /\ UNCHANGED <<ppTurn, ppCount, ppTried>> /\ n[2] = "ping" /\ q # <<>>
      /\ ppGot' = Append(ppGot, Head(q)) /\ ppQueue' = [ppQueue EXCEPT ![n] = Tail(q)]
      /\ ppPc' = [ppPc EXCEPT ![n] = "more"] /\ PpResult(n)
  BY DEF PpHandlePong, PpTo, PpHandled
<1>2. PpNodes' = PpNodes /\ PpPongers' = PpPongers /\ PpReplies' = PpReplies
      /\ PpPongers \subseteq PpNodes /\ n \notin PpPongers
  BY <1>1 DEF PpNodes, PpPongers, PpReplies
<1>3. /\ q \in Seq(PpReplies) /\ ppGot \in Seq(PpReplies)
      /\ ppQueue'[n] = Tail(q) /\ ppPc'[n] = "more"
      /\ \A m \in PpNodes \ {n} : ppQueue'[m] = ppQueue[m] /\ ppPc'[m] = ppPc[m]
  BY <1>0, <1>1 DEF PpTypes
<1>4. /\ Tail(q) \in Seq(PpReplies) /\ Len(Tail(q)) = Len(q) - 1 /\ Len(q) \in Nat \ {0}
      /\ Head(q) = q[1] /\ q[1] \in PpReplies /\ 1 \in 1..Len(q)
      /\ \A k \in 1..Len(Tail(q)) : Tail(q)[k] = q[k + 1] /\ k + 1 \in 1..Len(q) /\ 1 < k + 1
      /\ \A k, l \in 1..Len(Tail(q)) : k < l => k + 1 < l + 1
  <2>1. /\ Tail(q) \in Seq(PpReplies) /\ Len(Tail(q)) = Len(q) - 1 /\ Len(q) \in Nat \ {0}
        /\ Head(q) = q[1] /\ q[1] \in PpReplies
        /\ \A k \in 1..Len(Tail(q)) : Tail(q)[k] = q[k + 1] /\ k + 1 \in 2..Len(q)
    BY <1>1, <1>3, PpTail
  <2> HIDE DEF q
  <2> QED BY <2>1
<1>5. /\ ppGot' \in Seq(PpReplies) /\ Len(ppGot') = Len(ppGot) + 1 /\ Len(ppGot) \in Nat
      /\ ppGot'[Len(ppGot) + 1] = q[1]
      /\ \A k \in 1..Len(ppGot) : ppGot'[k] = ppGot[k]
      /\ \A k \in 1..Len(ppGot') : k = Len(ppGot) + 1 \/ k \in 1..Len(ppGot)
  BY <1>1, <1>3, <1>4, PpAppend
<1> HIDE DEF q
<1>6. PpTypes' /\ PpBounds' /\ PpCounted'
  <2>1. /\ ppSkipped' \in [PpNodes -> Nat] /\ ppSamples' \in [PpNodes -> Nat]
        /\ \A m \in PpNodes \ {n} : ppSkipped'[m] = ppSkipped[m] /\ ppSamples'[m] = ppSamples[m]
        /\ ppSkipped'[n] <= ppSkipped[n]
        /\ ppSamples'[n] + (ppSet.skip - ppSkipped'[n]) = ppSamples[n] + (ppSet.skip - ppSkipped[n]) + 1
    BY <1>0, <1>1, PpResultCounts
  <2>2. ppQueue' \in [PpNodes -> Seq(Nat) \cup Seq(PpReplies)]
    BY <1>0, <1>1, <1>4 DEF PpTypes, q
  <2>3. PpTypes'
    BY <1>0, <1>1, <1>2, <1>3, <1>4, <1>5, <2>1, <2>2 DEF PpTypes, PpPoints
  <2>4. PpBounds'
    <3>1. Len(ppQueue'[n]) <= ppSet.room
      <4>1. Len(q) <= ppSet.room /\ ppSet.room \in Nat
        BY <1>0, PpOnePinger DEF PpBounds, PpTypes, q
      <4> QED BY <1>3, <1>4, <4>1
    <3>2. ppSkipped'[n] <= ppSet.skip
      <4>1. ppSkipped[n] <= ppSet.skip /\ ppSet.skip \in Nat /\ ppSkipped[n] \in Nat /\ ppSkipped'[n] \in Nat
        BY <1>0, <2>1, PpOnePinger DEF PpBounds, PpTypes
      <4> QED BY <2>1, <4>1
    <3> QED BY <1>0, <1>1, <1>2, <1>3, <2>1, <3>1, <3>2 DEF PpBounds
  <2>5. PpCounted'
    <3>1. \A m \in PpNodes : m[2] = "ping" => m = n
      BY <1>0, <1>1, PpOnePinger DEF PpTypes
    <3>2. ppSamples[n] + (ppSet.skip - ppSkipped[n]) = Len(ppGot)
      BY <1>0, <1>1 DEF PpCounted
    <3> QED BY <1>0, <1>1, <1>2, <1>5, <2>1, <3>1, <3>2 DEF PpCounted
  <2> QED BY <2>3, <2>4, <2>5
<1>7. PpPongersInOrder'
  BY <1>0, <1>1, <1>2, <1>3 DEF PpPongersInOrder, PpPongerOf
<1>8. ASSUME NEW m, NEW x, PpAnsweredBefore(m, x)
      PROVE  PpStillBefore(m, x)
  <2>1. \A k \in 1..Len(q) : q[k].by = m => q[k].ping < x
    BY <1>1, <1>8 DEF PpAnsweredBefore, q
  <2>2. \A k \in 1..Len(ppGot') : ppGot'[k].by = m => ppGot'[k].ping < x
    BY <1>4, <1>5, <1>8, <2>1 DEF PpAnsweredBefore
  <2>3. \A k \in 1..Len(ppQueue'[n]) : ppQueue'[n][k].by = m => ppQueue'[n][k].ping < x
    BY <1>3, <1>4, <2>1
  <2> QED BY <1>3, <1>8, <2>2, <2>3 DEF PpAnsweredBefore, PpStillBefore
<1>9. PpAnswersInOrder'
  <2> SUFFICES ASSUME NEW m \in PpPongers
               PROVE  /\ PpAnsweredBefore(m, ppTried + 1)'
                      /\ \A k \in 1..Len(ppQueue'[m]) : PpAnsweredBefore(m, ppQueue[m][k])'
                      /\ ppPc'[m] = "answer" => PpAnsweredBefore(m, ppTurn[m])'
    BY <1>2 DEF PpAnswersInOrder, PpAnsweredBefore
  <2>1. /\ PpAnsweredBefore(m, ppTried + 1)
        /\ \A k \in 1..Len(ppQueue[m]) : PpAnsweredBefore(m, ppQueue[m][k])
        /\ ppPc[m] = "answer" => PpAnsweredBefore(m, ppTurn[m])
        /\ ppQueue'[m] = ppQueue[m] /\ ppPc'[m] = ppPc[m]
    BY <1>0, <1>2, <1>3 DEF PpAnswersInOrder
  <2>2. /\ PpStillBefore(m, ppTried + 1)
        /\ \A k \in 1..Len(ppQueue[m]) : PpStillBefore(m, ppQueue[m][k])
        /\ ppPc[m] = "answer" => PpStillBefore(m, ppTurn[m])
    BY <1>8, <2>1
  <2> QED BY <1>1, <1>2, <2>1, <2>2 DEF PpAnsweredBefore, PpStillBefore
<1>10. PpRepliesInOrder'
  <2>1. PpOrdered(ppGot) /\ PpOrdered(q) /\ PpBefore(ppGot, q)
    BY <1>0, <1>1 DEF PpRepliesInOrder, q
  <2>2. PpOrdered(ppGot)'
    <3> SUFFICES ASSUME NEW k \in 1..Len(ppGot'), NEW l \in 1..Len(ppGot'), k < l,
                        ppGot'[k].by = ppGot'[l].by
                 PROVE  ppGot'[k].ping < ppGot'[l].ping
      BY DEF PpOrdered
    <3>1. k \in 1..Len(ppGot)
      BY <1>5
    <3>2. CASE l \in 1..Len(ppGot)
      BY <1>5, <2>1, <3>1, <3>2 DEF PpOrdered
    <3>3. CASE l = Len(ppGot) + 1
      BY <1>4, <1>5, <2>1, <3>1, <3>3 DEF PpBefore
    <3> QED BY <1>5, <3>2, <3>3
  <2>3. PpOrdered(ppQueue[n])'
    BY <1>3, <1>4, <2>1 DEF PpOrdered
  <2>4. PpBefore(ppGot, ppQueue[n])'
    <3> SUFFICES ASSUME NEW k \in 1..Len(ppGot'), NEW l \in 1..Len(Tail(q)),
                        ppGot'[k].by = Tail(q)[l].by
                 PROVE  ppGot'[k].ping < Tail(q)[l].ping
      BY <1>3 DEF PpBefore
    <3>1. Tail(q)[l] = q[l + 1] /\ l + 1 \in 1..Len(q) /\ 1 < l + 1
      BY <1>4
    <3>2. CASE k \in 1..Len(ppGot)
      BY <1>5, <2>1, <3>1, <3>2 DEF PpBefore
    <3>3. CASE k = Len(ppGot) + 1
      BY <1>4, <1>5, <2>1, <3>1, <3>3 DEF PpOrdered
    <3> QED BY <1>5, <3>2, <3>3
  <2>5. \A m \in PpNodes : m[2] = "ping" => m = n
    BY <1>0, <1>1, PpOnePinger DEF PpTypes
  <2> QED BY <1>2, <2>2, <2>3, <2>4, <2>5 DEF PpRepliesInOrder
<1> QED BY <1>6, <1>7, <1>9, <1>10 DEF PpToolInv

\* A ponger takes a ping from its queue.
LEMMA PpHandlePingKeeps == ASSUME PpToolInv, NEW n \in PpNodes, PpHandlePing(n) PROVE PpToolInv'
<1>0. PpTypes /\ PpBounds /\ PpPongersInOrder /\ PpAnswersInOrder /\ PpRepliesInOrder /\ PpCounted
  BY DEF PpToolInv
<1> DEFINE q == ppQueue[n]
<1>1. /\ UNCHANGED <<ppSet, ppSkipped, ppSamples, ppCount, ppTried, ppGot>> /\ n[2] = "pong"
      /\ q # <<>> /\ ppQueue' = [ppQueue EXCEPT ![n] = Tail(q)]
      /\ ppTurn' = [ppTurn EXCEPT ![n] = Head(q)] /\ ppPc' = [ppPc EXCEPT ![n] = "answer"]
  BY DEF PpHandlePing, PpTo, PpHandled, ppStats
<1>2. PpNodes' = PpNodes /\ PpPongers' = PpPongers /\ PpReplies' = PpReplies
      /\ PpPongers \subseteq PpNodes /\ n \in PpPongers
  BY <1>1 DEF PpNodes, PpPongers, PpReplies
<1>3. /\ q \in Seq(Nat) /\ ppQueue'[n] = Tail(q) /\ ppPc'[n] = "answer" /\ ppTurn'[n] = Head(q)
      /\ \A m \in PpNodes \ {n} :
           ppQueue'[m] = ppQueue[m] /\ ppPc'[m] = ppPc[m] /\ ppTurn'[m] = ppTurn[m]
  BY <1>0, <1>1 DEF PpTypes
<1>4. /\ Tail(q) \in Seq(Nat) /\ Len(Tail(q)) = Len(q) - 1 /\ Len(q) \in Nat \ {0}
      /\ Head(q) = q[1] /\ q[1] \in Nat /\ 1 \in 1..Len(q)
      /\ \A k \in 1..Len(Tail(q)) : Tail(q)[k] = q[k + 1] /\ k + 1 \in 1..Len(q) /\ 1 < k + 1
      /\ \A k, l \in 1..Len(Tail(q)) : k < l => k + 1 < l + 1
  <2>1. /\ Tail(q) \in Seq(Nat) /\ Len(Tail(q)) = Len(q) - 1 /\ Len(q) \in Nat \ {0}
        /\ Head(q) = q[1] /\ q[1] \in Nat
        /\ \A k \in 1..Len(Tail(q)) : Tail(q)[k] = q[k + 1] /\ k + 1 \in 2..Len(q)
    BY <1>1, <1>3, PpTail
  <2> HIDE DEF q
  <2> QED BY <2>1
<1>5. PpPongerOf(n) /\ \A k \in 1..Len(q) : PpAnsweredBefore(n, q[k])
  BY <1>0, <1>2 DEF PpPongersInOrder, PpAnswersInOrder
<1> HIDE DEF q
<1>6. PpTypes' /\ PpBounds' /\ PpCounted'
  <2>1. ppQueue' \in [PpNodes -> Seq(Nat) \cup Seq(PpReplies)] /\ ppTurn' \in [PpNodes -> Nat]
    BY <1>0, <1>1, <1>4 DEF PpTypes, q
  <2>2. PpTypes'
    BY <1>0, <1>1, <1>2, <1>3, <1>4, <2>1 DEF PpTypes, PpPoints
  <2>3. Len(ppQueue'[n]) <= ppSet.room
    <3>1. Len(q) <= ppSet.room /\ ppSet.room \in Nat
      BY <1>0, PpOnePinger DEF PpBounds, PpTypes, q
    <3> QED BY <1>3, <1>4, <3>1
  <2> QED BY <1>0, <1>1, <1>2, <1>3, <2>2, <2>3 DEF PpBounds, PpCounted
<1>7. PpPongersInOrder'
  <2>1. PpPongerOf(n)'
    <3>1. /\ \A k \in 1..Len(q) : q[k] \in 1..ppTried
          /\ \A k, l \in 1..Len(q) : k < l => q[k] < q[l]
      BY <1>5 DEF PpPongerOf, q
    <3>2. ppTried \in Nat /\ q[1] <= ppTried /\ q[1] > 0
      BY <1>0, <1>4, <3>1 DEF PpTypes
    <3>3. ASSUME NEW k \in 1..Len(Tail(q))
          PROVE  ppQueue'[n][k] \in 1..ppTried' /\ ppTurn'[n] < ppQueue'[n][k]
      <4>1. Tail(q)[k] = q[k + 1] /\ k + 1 \in 1..Len(q) /\ 1 < k + 1
        BY <1>4
      <4>2. q[k + 1] \in 1..ppTried /\ q[1] < q[k + 1]
        BY <1>4, <3>1, <4>1
      <4> QED BY <1>1, <1>3, <1>4, <4>1, <4>2
    <3>4. \A k, l \in 1..Len(ppQueue'[n]) : k < l => ppQueue'[n][k] < ppQueue'[n][l]
      BY <1>3, <1>4, <3>1
    <3> QED BY <1>1, <1>3, <1>4, <3>2, <3>3, <3>4 DEF PpPongerOf
  <2>2. \A m \in PpPongers \ {n} : PpPongerOf(m)'
    BY <1>0, <1>1, <1>2, <1>3 DEF PpPongersInOrder, PpPongerOf
  <2> QED BY <1>2, <2>1, <2>2 DEF PpPongersInOrder
<1>8. \A i \in PpNodes : i[2] = "ping" => ppQueue'[i] = ppQueue[i]
  BY <1>1, <1>3
<1>9. PpAnswersInOrder'
  <2> SUFFICES ASSUME NEW m \in PpPongers
               PROVE  /\ PpAnsweredBefore(m, ppTried + 1)'
                      /\ \A k \in 1..Len(ppQueue'[m]) : PpAnsweredBefore(m, ppQueue[m][k])'
                      /\ ppPc'[m] = "answer" => PpAnsweredBefore(m, ppTurn[m])'
    BY <1>2 DEF PpAnswersInOrder, PpAnsweredBefore
  <2>1. /\ PpAnsweredBefore(m, ppTried + 1)
        /\ \A k \in 1..Len(ppQueue[m]) : PpAnsweredBefore(m, ppQueue[m][k])
        /\ ppPc[m] = "answer" => PpAnsweredBefore(m, ppTurn[m])
        /\ m \in PpNodes
    BY <1>0, <1>2 DEF PpAnswersInOrder
  <2>2. PpAnsweredBefore(m, ppTried + 1)'
    BY <1>1, <1>2, <1>8, <2>1 DEF PpAnsweredBefore
  <2>3. CASE m # n
    BY <1>1, <1>2, <1>3, <1>8, <2>1, <2>2, <2>3 DEF PpAnsweredBefore
  <2>4. CASE m = n
    <3>1. PpAnsweredBefore(m, q[1])
      BY <1>4, <1>5, <2>4
    <3>2. PpAnsweredBefore(m, ppTurn[m])'
      BY <1>1, <1>2, <1>3, <1>4, <1>8, <2>4, <3>1 DEF PpAnsweredBefore
    <3>3. ASSUME NEW k \in 1..Len(ppQueue'[m]) PROVE PpAnsweredBefore(m, ppQueue[m][k])'
      <4>1. ppQueue'[m][k] = q[k + 1] /\ PpAnsweredBefore(m, q[k + 1])
        BY <1>3, <1>4, <1>5, <2>4, <3>3
      <4> QED BY <1>1, <1>2, <1>8, <4>1 DEF PpAnsweredBefore
    <3> QED BY <2>2, <3>2, <3>3
  <2> QED BY <2>3, <2>4
<1>10. PpRepliesInOrder'
  BY <1>0, <1>1, <1>2, <1>8 DEF PpRepliesInOrder, PpOrdered, PpBefore
<1> QED BY <1>6, <1>7, <1>9, <1>10 DEF PpToolInv

\* A ping goes to all pongers that are running, or to none.
LEMMA PpPingKeeps == ASSUME PpToolInv, NEW n \in PpNodes, PpPing(n) PROVE PpToolInv'
<1>0. PpTypes /\ PpBounds /\ PpPongersInOrder /\ PpAnswersInOrder /\ PpRepliesInOrder /\ PpCounted
  BY DEF PpToolInv
<1>1. /\ ppPc' = [ppPc EXCEPT ![n] = "handle"] /\ ppPc[n] = "try"
      /\ UNCHANGED <<ppSet, ppTurn, ppSkipped, ppSamples, ppGot>>
  BY DEF PpPing, PpTo
<1>2. CASE UNCHANGED <<ppQueue, ppTried, ppCount>>
  <2>1. ppPc' \in [PpNodes -> PpPoints] /\ \A m \in PpNodes : ppPc'[m] \in {ppPc[m], "handle"}
    BY <1>0, <1>1 DEF PpTypes, PpPoints
  <2> QED BY <1>1, <1>2, <2>1, PpQuietKeeps
<1>3. CASE ~UNCHANGED <<ppQueue, ppTried, ppCount>>
  <2>1. /\ \A m \in PpTargets : PpHasRoom(m)
        /\ ppTried' = ppTried + 1
        /\ ppQueue' = [m \in PpNodes |->
                         IF m \in PpTargets THEN Append(ppQueue[m], ppTried') ELSE ppQueue[m]]
        /\ ppCount' \in {ppCount, ppCount + 1}
    BY <1>3 DEF PpPing
  <2>2. /\ PpNodes' = PpNodes /\ PpPongers' = PpPongers /\ PpReplies' = PpReplies
        /\ PpPongers \subseteq PpNodes /\ PpTargets \subseteq PpPongers
        /\ \A m \in PpPongers : m[2] = "pong"
        /\ ppTried \in Nat /\ ppTried' \in Nat /\ PpMaxPings \in Nat /\ ppSet.room \in Nat
        /\ n[2] = "ping" /\ ppTried < PpMaxPings
        /\ \A m \in PpNodes : m[2] = "ping" => m = n
    <3>1. ppTried \in Nat /\ n[2] = "ping" /\ ppTried < PpMaxPings /\ ppSet \in PpSettings
      BY <1>0, <1>1 DEF PpTypes, PpCounted
    <3>2. PpMaxPings \in Nat /\ ppSet.room \in Nat /\ (\A m \in PpPongers : m[2] = "pong")
          /\ \A m \in PpNodes : m[2] = "ping" => m = n
      BY <3>1, PpOnePinger DEF PpPongers
    <3>3. PpNodes' = PpNodes /\ PpPongers' = PpPongers /\ PpReplies' = PpReplies
          /\ PpPongers \subseteq PpNodes /\ PpTargets \subseteq PpPongers
      BY <1>1 DEF PpNodes, PpPongers, PpReplies, PpTargets
    <3> QED BY <2>1, <3>1, <3>2, <3>3
  <2>3. \A m \in PpNodes \ PpTargets : ppQueue'[m] = ppQueue[m]
    BY <2>1
  <2>4. ASSUME NEW m \in PpTargets
        PROVE  /\ ppQueue'[m] = Append(ppQueue[m], ppTried + 1) /\ ppQueue'[m] \in Seq(Nat)
               /\ Len(ppQueue'[m]) = Len(ppQueue[m]) + 1 /\ Len(ppQueue[m]) \in Nat
               /\ Len(ppQueue[m]) < ppSet.room
               /\ ppQueue'[m][Len(ppQueue[m]) + 1] = ppTried + 1
               /\ \A k \in 1..Len(ppQueue[m]) : ppQueue'[m][k] = ppQueue[m][k]
               /\ \A k \in 1..Len(ppQueue'[m]) : k = Len(ppQueue[m]) + 1 \/ k \in 1..Len(ppQueue[m])
    <3>1. m \in PpNodes /\ ppQueue[m] \in Seq(Nat) /\ ppQueue'[m] = Append(ppQueue[m], ppTried + 1)
          /\ ppTried + 1 \in Nat /\ Len(ppQueue[m]) < ppSet.room
      BY <1>0, <2>1, <2>2 DEF PpTypes, PpHasRoom
    <3> QED BY <3>1, PpAppend
  <2>5. \A m \in PpNodes : ppPc'[m] \in {ppPc[m], "handle"}
    BY <1>0, <1>1 DEF PpTypes
  <2>6. PpTypes'
    <3>1. ppPc' \in [PpNodes -> PpPoints]
      BY <1>0, <1>1 DEF PpTypes, PpPoints
    <3>2. \A m \in PpNodes : /\ ppQueue'[m] \in Seq(Nat) \cup Seq(PpReplies)
                             /\ m[2] = "ping" => ppQueue'[m] \in Seq(PpReplies)
                             /\ m[2] = "pong" => ppQueue'[m] \in Seq(Nat)
      BY <1>0, <2>2, <2>3, <2>4 DEF PpTypes
    <3>3. ppQueue' \in [PpNodes -> Seq(Nat) \cup Seq(PpReplies)] /\ ppCount' \in Nat
      BY <1>0, <2>1, <3>2 DEF PpTypes
    <3> QED BY <1>0, <1>1, <2>2, <3>1, <3>2, <3>3 DEF PpTypes
  <2>7. PpBounds'
    <3>1. ppTried' <= PpMaxPings /\ ppCount' <= ppTried'
      BY <1>0, <2>1, <2>2 DEF PpBounds, PpTypes
    <3>2. \A m \in PpNodes : Len(ppQueue'[m]) <= ppSet.room
      <4>1. \A m \in PpTargets : Len(ppQueue'[m]) <= ppSet.room
        BY <2>2, <2>4
      <4> QED BY <1>0, <2>3, <4>1 DEF PpBounds
    <3> QED BY <1>0, <1>1, <2>2, <3>1, <3>2 DEF PpBounds
  <2>8. PpCounted'
    <3>1. \A m \in PpNodes : ppPc'[m] # "try"
      <4>1. ppPc'[n] # "try"
        BY <1>0, <1>1 DEF PpTypes
      <4> QED BY <1>0, <2>2, <2>5, <4>1 DEF PpCounted
    <3>2. \A m \in PpNodes : m[2] = "ping" =>
            ppSamples'[m] + (ppSet'.skip - ppSkipped'[m]) = Len(ppGot')
      BY <1>0, <1>1 DEF PpCounted
    <3> QED BY <2>2, <3>1, <3>2 DEF PpCounted
  <2>9. PpPongersInOrder'
    <3> SUFFICES ASSUME NEW m \in PpPongers PROVE PpPongerOf(m)'
      BY <2>2 DEF PpPongersInOrder
    <3>1. PpPongerOf(m) /\ m \in PpNodes /\ ppTurn[m] \in Nat /\ ppTurn'[m] = ppTurn[m]
          /\ (ppPc'[m] = "answer" => ppPc[m] = "answer")
      BY <1>0, <1>1, <2>2, <2>5 DEF PpPongersInOrder, PpTypes
    <3>2. \A k \in 1..Len(ppQueue[m]) : ppQueue[m][k] \in 1..ppTried /\ ppQueue[m][k] \in 1..ppTried'
      BY <2>1, <2>2, <3>1 DEF PpPongerOf
    <3>3. ppTurn'[m] <= ppTried' /\ ppTurn'[m] < ppTried + 1
      BY <2>1, <2>2, <3>1 DEF PpPongerOf
    <3>4. CASE m \in PpTargets
      <4>1. \A k \in 1..Len(ppQueue'[m]) : ppQueue'[m][k] \in 1..ppTried'
        BY <2>1, <2>2, <2>4, <3>2, <3>4
      <4>2. ASSUME NEW k \in 1..Len(ppQueue'[m]), NEW l \in 1..Len(ppQueue'[m]), k < l
            PROVE  ppQueue'[m][k] < ppQueue'[m][l]
        <5>0. /\ Len(ppQueue'[m]) = Len(ppQueue[m]) + 1 /\ Len(ppQueue[m]) \in Nat
              /\ (\A j \in 1..Len(ppQueue[m]) : ppQueue'[m][j] = ppQueue[m][j])
          BY <2>4, <3>4
        <5> DEFINE len == Len(ppQueue[m])
        <5>a. k \in 1..len /\ (l = len + 1 \/ l \in 1..len)
          <6>1. k \in 1..(len + 1) /\ l \in 1..(len + 1) /\ k < l /\ len \in Nat
            BY <4>2, <5>0
          <6> HIDE DEF len
          <6> QED BY <6>1
        <5>1. k \in 1..Len(ppQueue[m]) /\ ppQueue'[m][k] = ppQueue[m][k]
          BY <5>0, <5>a
        <5>2. ppQueue[m][k] < ppTried + 1
          BY <2>2, <3>2, <5>1
        <5>3. l = Len(ppQueue[m]) + 1 \/ (l \in 1..Len(ppQueue[m]) /\ ppQueue'[m][l] = ppQueue[m][l])
          BY <5>0, <5>a
        <5> QED BY <2>4, <3>1, <3>4, <4>2, <5>1, <5>2, <5>3 DEF PpPongerOf
      <4>3. ppPc'[m] = "answer" =>
              ppTurn'[m] > 0 /\ \A k \in 1..Len(ppQueue'[m]) : ppTurn'[m] < ppQueue'[m][k]
        BY <2>4, <3>1, <3>3, <3>4 DEF PpPongerOf
      <4> QED BY <3>3, <4>1, <4>2, <4>3 DEF PpPongerOf
    <3>5. CASE m \notin PpTargets
      BY <2>3, <3>1, <3>2, <3>3, <3>5 DEF PpPongerOf
    <3> QED BY <3>4, <3>5
  <2>10. \A i \in PpNodes : i[2] = "ping" => ppQueue'[i] = ppQueue[i]
    BY <2>2, <2>3
  <2>11. ASSUME NEW m, NEW x, PpAnsweredBefore(m, x) PROVE PpStillBefore(m, x)
    BY <1>1, <2>10, <2>11 DEF PpAnsweredBefore, PpStillBefore
  <2>12. PpAnswersInOrder'
    <3> SUFFICES ASSUME NEW m \in PpPongers
                 PROVE  /\ PpStillBefore(m, ppTried' + 1)
                        /\ \A k \in 1..Len(ppQueue'[m]) : PpStillBefore(m, ppQueue'[m][k])
                        /\ ppPc'[m] = "answer" => PpStillBefore(m, ppTurn'[m])
      BY <2>2 DEF PpAnswersInOrder, PpAnsweredBefore, PpStillBefore
    <3>1. /\ PpStillBefore(m, ppTried + 1)
          /\ \A k \in 1..Len(ppQueue[m]) : PpStillBefore(m, ppQueue[m][k])
          /\ ppPc[m] = "answer" => PpStillBefore(m, ppTurn[m])
          /\ m \in PpNodes
      BY <1>0, <2>2, <2>11 DEF PpAnswersInOrder
    <3>2. PpStillBefore(m, ppTried' + 1)
      <4>1. /\ \A k \in 1..Len(ppGot') : ppGot'[k] \in PpReplies
            /\ \A i \in PpNodes : i[2] = "ping" =>
                 \A k \in 1..Len(ppQueue'[i]) : ppQueue'[i][k] \in PpReplies
        <5>1. ppGot' \in Seq(PpReplies)
              /\ \A i \in PpNodes : i[2] = "ping" => ppQueue'[i] \in Seq(PpReplies)
          BY <2>2, <2>6 DEF PpTypes
        <5> QED BY <5>1
      <4>2. \A r \in PpReplies : r.ping < ppTried + 1 => r.ping < ppTried' + 1
        BY <2>1, <2>2 DEF PpReplies
      <4> QED BY <3>1, <4>1, <4>2 DEF PpStillBefore
    <3>3. \A k \in 1..Len(ppQueue'[m]) : PpStillBefore(m, ppQueue'[m][k])
      <4>1. CASE m \in PpTargets
        BY <2>4, <3>1, <4>1
      <4>2. CASE m \notin PpTargets
        BY <2>3, <3>1, <4>2
      <4> QED BY <4>1, <4>2
    <3>4. ppPc'[m] = "answer" => PpStillBefore(m, ppTurn'[m])
      BY <1>1, <2>5, <3>1
    <3> QED BY <3>2, <3>3, <3>4
  <2>13. PpRepliesInOrder'
    <3>1. ppGot' = ppGot
      BY <1>1
    <3>2. PpOrdered(ppGot)'
      BY <1>0, <3>1 DEF PpRepliesInOrder, PpOrdered
    <3>3. ASSUME NEW m \in PpNodes, m[2] = "ping"
          PROVE  PpOrdered(ppQueue[m])' /\ PpBefore(ppGot, ppQueue[m])'
      BY <1>0, <2>10, <3>1, <3>3 DEF PpRepliesInOrder, PpOrdered, PpBefore
    <3> QED BY <2>2, <3>2, <3>3 DEF PpRepliesInOrder
  <2> QED BY <2>6, <2>7, <2>8, <2>9, <2>12, <2>13 DEF PpToolInv
<1> QED BY <1>2, <1>3

\* A ponger answers its ping, when the pinger is still there.
LEMMA PpAnswerKeeps == ASSUME PpToolInv, NEW n \in PpNodes, PpAnswer(n) PROVE PpToolInv'
<1>0. PpTypes /\ PpBounds /\ PpPongersInOrder /\ PpAnswersInOrder /\ PpRepliesInOrder /\ PpCounted
  BY DEF PpToolInv
<1> DEFINE P == PpPinger
           r == [by |-> n, ping |-> ppTurn[n]]
<1>1. /\ UNCHANGED <<ppSet, ppCount, ppTried, ppGot>> /\ n[2] = "pong" /\ ppPc[n] = "answer"
      /\ ppTurn' = [ppTurn EXCEPT ![n] = 0] /\ ppPc' = [ppPc EXCEPT ![n] = "handle"]
      /\ PpResult(n) /\ (PpRunning(P) => PpHasRoom(P))
      /\ ppQueue' = IF PpRunning(P) THEN [ppQueue EXCEPT ![P] = Append(@, r)] ELSE ppQueue
  BY DEF PpAnswer, PpTo
<1>2. /\ PpNodes' = PpNodes /\ PpPongers' = PpPongers /\ PpReplies' = PpReplies
      /\ PpPongers \subseteq PpNodes /\ n \in PpPongers
  BY <1>1 DEF PpNodes, PpPongers, PpReplies
<1>3. /\ PpPongerOf(n) /\ PpAnsweredBefore(n, ppTurn[n])
      /\ ppTurn[n] \in Nat /\ ppTried \in Nat /\ ppTurn[n] > 0 /\ ppTurn[n] <= ppTried
      /\ \A k \in 1..Len(ppQueue[n]) : ppTurn[n] < ppQueue[n][k]
  BY <1>0, <1>1, <1>2 DEF PpPongersInOrder, PpAnswersInOrder, PpPongerOf, PpTypes
<1>4. /\ P \in PpNodes /\ P[2] = "ping" /\ P # n /\ P \notin PpPongers
      /\ \A m \in PpNodes : m[2] = "ping" => m = P
  <2>1. ppSet \in PpSettings /\ ppTried > 0
    BY <1>0, <1>3 DEF PpTypes
  <2>2. PICK m \in PpNodes : m[2] = "ping"
    BY <1>0, <2>1 DEF PpCounted
  <2>3. P = m
    BY <2>1, <2>2, PpOnePinger
  <2>4. \A i \in PpPongers : i[2] = "pong"
    BY DEF PpPongers
  <2>5. \A i \in PpNodes : i[2] = "ping" => i = P
    BY <2>1, PpOnePinger
  <2> QED BY <1>1, <2>2, <2>3, <2>4, <2>5
<1> HIDE DEF P
<1>5. /\ \A m \in PpNodes \ {P} : ppQueue'[m] = ppQueue[m]
      /\ ppQueue'[P] = (IF PpRunning(P) THEN Append(ppQueue[P], r) ELSE ppQueue[P])
      /\ ppQueue[P] \in Seq(PpReplies) /\ r \in PpReplies
      /\ \A m \in PpNodes \ {n} : ppPc'[m] = ppPc[m] /\ ppTurn'[m] = ppTurn[m]
      /\ ppPc'[n] = "handle" /\ ppTurn'[n] = 0
  BY <1>0, <1>1, <1>3, <1>4 DEF PpTypes, PpReplies
<1>6. /\ ppQueue'[P] \in Seq(PpReplies) /\ Len(ppQueue[P]) \in Nat
      /\ Len(ppQueue'[P]) <= ppSet.room
      /\ \A k \in 1..Len(ppQueue'[P]) :
           \/ k \in 1..Len(ppQueue[P]) /\ ppQueue'[P][k] = ppQueue[P][k]
           \/ k = Len(ppQueue[P]) + 1 /\ ppQueue'[P][k] = r
  <2>1. ppSet.room \in Nat /\ Len(ppQueue[P]) \in Nat
    BY <1>0, <1>5, PpOnePinger DEF PpTypes
  <2>2. CASE PpRunning(P)
    <3>1. Len(ppQueue[P]) < ppSet.room /\ ppQueue'[P] = Append(ppQueue[P], r)
      BY <1>1, <1>5, <2>2 DEF PpHasRoom
    <3>2. /\ Append(ppQueue[P], r) \in Seq(PpReplies)
          /\ Len(Append(ppQueue[P], r)) = Len(ppQueue[P]) + 1
          /\ Append(ppQueue[P], r)[Len(ppQueue[P]) + 1] = r
          /\ \A k \in 1..Len(ppQueue[P]) : Append(ppQueue[P], r)[k] = ppQueue[P][k]
          /\ \A k \in 1..Len(Append(ppQueue[P], r)) :
               k = Len(ppQueue[P]) + 1 \/ k \in 1..Len(ppQueue[P])
      BY <1>5, PpAppend
    <3> HIDE DEF r
    <3> QED BY <2>1, <3>1, <3>2
  <2>3. CASE ~PpRunning(P)
    <3>1. Len(ppQueue[P]) <= ppSet.room
      BY <1>0, <1>4 DEF PpBounds
    <3> QED BY <1>5, <2>1, <2>3, <3>1
  <2> QED BY <2>2, <2>3
<1>7. r.by = n /\ r.ping = ppTurn[n]
  OBVIOUS
<1> HIDE DEF r
<1>8. /\ ppSkipped' \in [PpNodes -> Nat] /\ ppSamples' \in [PpNodes -> Nat]
      /\ \A m \in PpNodes \ {n} : ppSkipped'[m] = ppSkipped[m] /\ ppSamples'[m] = ppSamples[m]
      /\ ppSkipped'[n] <= ppSkipped[n]
  BY <1>0, <1>1, PpResultCounts
<1>9. PpTypes'
  <2>1. ppPc' \in [PpNodes -> PpPoints] /\ ppTurn' \in [PpNodes -> Nat]
    BY <1>0, <1>1 DEF PpTypes, PpPoints
  <2>2. \A m \in PpNodes : /\ ppQueue'[m] \in Seq(Nat) \cup Seq(PpReplies)
                           /\ m[2] = "ping" => ppQueue'[m] \in Seq(PpReplies)
                           /\ m[2] = "pong" => ppQueue'[m] \in Seq(Nat)
    BY <1>0, <1>4, <1>5, <1>6 DEF PpTypes
  <2>3. ppQueue' \in [PpNodes -> Seq(Nat) \cup Seq(PpReplies)]
    <3>1. ppQueue' = [m \in PpNodes |-> ppQueue'[m]]
      BY <1>0, <1>1 DEF PpTypes
    <3> QED BY <2>2, <3>1
  <2> QED BY <1>0, <1>1, <1>2, <1>8, <2>1, <2>2, <2>3 DEF PpTypes
<1>10. PpBounds'
  <2>1. \A m \in PpNodes : Len(ppQueue'[m]) <= ppSet.room
    BY <1>0, <1>5, <1>6 DEF PpBounds
  <2>2. \A m \in PpNodes : ppSkipped'[m] <= ppSet.skip
    <3>1. ppSkipped[n] <= ppSet.skip /\ ppSet.skip \in Nat /\ ppSkipped[n] \in Nat /\ ppSkipped'[n] \in Nat
      BY <1>0, <1>8, PpOnePinger DEF PpBounds, PpTypes
    <3> QED BY <1>0, <1>8, <3>1 DEF PpBounds
  <2> QED BY <1>0, <1>1, <1>2, <2>1, <2>2 DEF PpBounds
<1>11. PpCounted'
  <2>1. \A m \in PpNodes : ppPc'[m] = "try" => m[2] = "ping" /\ ppTried < PpMaxPings
    BY <1>0, <1>5 DEF PpCounted
  <2>2. \A m \in PpNodes : m[2] = "ping" =>
          ppSamples'[m] + (ppSet'.skip - ppSkipped'[m]) = Len(ppGot')
    BY <1>0, <1>1, <1>4, <1>8 DEF PpCounted
  <2> QED BY <1>0, <1>1, <1>2, <2>1, <2>2 DEF PpCounted
<1>12. PpPongersInOrder'
  <2> SUFFICES ASSUME NEW m \in PpPongers PROVE PpPongerOf(m)'
    BY <1>2 DEF PpPongersInOrder
  <2>1. PpPongerOf(m) /\ m \in PpNodes /\ m # P /\ ppQueue'[m] = ppQueue[m]
    BY <1>0, <1>2, <1>4, <1>5 DEF PpPongersInOrder
  <2>2. CASE m = n
    BY <1>1, <1>3, <1>5, <2>1, <2>2 DEF PpPongerOf
  <2>3. CASE m # n
    BY <1>1, <1>5, <2>1, <2>3 DEF PpPongerOf
  <2> QED BY <2>2, <2>3
<1>13. ASSUME NEW m, NEW x, PpAnsweredBefore(m, x), m = n => ppTurn[n] < x
       PROVE  PpStillBefore(m, x)
  <2>1. \A k \in 1..Len(ppQueue'[P]) : ppQueue'[P][k].by = m => ppQueue'[P][k].ping < x
    BY <1>4, <1>6, <1>7, <1>13 DEF PpAnsweredBefore
  <2> QED BY <1>1, <1>4, <1>13, <2>1 DEF PpAnsweredBefore, PpStillBefore
<1>14. PpAnswersInOrder'
  <2> SUFFICES ASSUME NEW m \in PpPongers
               PROVE  /\ PpStillBefore(m, ppTried' + 1)
                      /\ \A k \in 1..Len(ppQueue'[m]) : PpStillBefore(m, ppQueue'[m][k])
                      /\ ppPc'[m] = "answer" => PpStillBefore(m, ppTurn'[m])
    BY <1>2 DEF PpAnswersInOrder, PpAnsweredBefore, PpStillBefore
  <2>1. /\ PpAnsweredBefore(m, ppTried + 1)
        /\ \A k \in 1..Len(ppQueue[m]) : PpAnsweredBefore(m, ppQueue[m][k])
        /\ ppPc[m] = "answer" => PpAnsweredBefore(m, ppTurn[m])
        /\ m \in PpNodes /\ m # P
    BY <1>0, <1>2, <1>4 DEF PpAnswersInOrder
  <2>2. PpStillBefore(m, ppTried' + 1)
    <3>1. ppTried' = ppTried /\ ppTurn[n] < ppTried + 1
      BY <1>1, <1>3
    <3> QED BY <1>13, <2>1, <3>1
  <2>3. \A k \in 1..Len(ppQueue'[m]) : PpStillBefore(m, ppQueue'[m][k])
    BY <1>3, <1>5, <1>13, <2>1
  <2>4. ppPc'[m] = "answer" => PpStillBefore(m, ppTurn'[m])
    BY <1>5, <1>13, <2>1
  <2> QED BY <2>2, <2>3, <2>4
<1>15. PpRepliesInOrder'
  <2>1. PpOrdered(ppGot) /\ PpOrdered(ppQueue[P]) /\ PpBefore(ppGot, ppQueue[P]) /\ ppGot' = ppGot
    BY <1>0, <1>1, <1>4 DEF PpRepliesInOrder
  <2>2. PpOrdered(ppGot)'
    BY <2>1 DEF PpOrdered
  <2>3. PpOrdered(ppQueue'[P])
    <3> DEFINE t == ppQueue'[P]
    <3> SUFFICES ASSUME NEW k \in 1..Len(t), NEW l \in 1..Len(t), k < l, t[k].by = t[l].by
                 PROVE  t[k].ping < t[l].ping
      BY DEF PpOrdered
    <3>1. k \in 1..Len(ppQueue[P]) /\ t[k] = ppQueue[P][k]
      BY <1>6
    <3>2. CASE l \in 1..Len(ppQueue[P]) /\ t[l] = ppQueue[P][l]
      BY <2>1, <3>1, <3>2 DEF PpOrdered
    <3>3. CASE t[l] = r
      BY <1>3, <1>4, <1>7, <3>1, <3>3 DEF PpAnsweredBefore
    <3> QED BY <1>6, <3>2, <3>3
  <2>4. PpBefore(ppGot, ppQueue'[P])
    <3> DEFINE t == ppQueue'[P]
    <3> SUFFICES ASSUME NEW k \in 1..Len(ppGot), NEW l \in 1..Len(t), ppGot[k].by = t[l].by
                 PROVE  ppGot[k].ping < t[l].ping
      BY DEF PpBefore
    <3>1. CASE l \in 1..Len(ppQueue[P]) /\ t[l] = ppQueue[P][l]
      BY <2>1, <3>1 DEF PpBefore
    <3>2. CASE t[l] = r
      BY <1>3, <1>7, <3>2 DEF PpAnsweredBefore
    <3> QED BY <1>6, <3>1, <3>2
  <2>5. ASSUME NEW m \in PpNodes, m[2] = "ping" PROVE PpOrdered(ppQueue[m])' /\ PpBefore(ppGot, ppQueue[m])'
    <3>1. m = P
      BY <1>4, <2>5
    <3> QED BY <2>1, <2>3, <2>4, <3>1 DEF PpOrdered, PpBefore
  <2> QED BY <1>2, <2>2, <2>5 DEF PpRepliesInOrder
<1> QED BY <1>9, <1>10, <1>11, <1>12, <1>14, <1>15 DEF PpToolInv

\* Before the processes do anything.
LEMMA PpStarts == ASSUME PpInit PROVE PpToolInv
<1>1. ppSet \in PpSettings /\ ppSet.skip \in Nat /\ ppSet.room \in Nat \ {0} /\ PpMaxPings \in Nat
  BY PpAssumption DEF PpInit
<1>2. /\ <<>> \in Seq(Nat) /\ <<>> \in Seq(PpReplies) /\ Len(<<>>) = 0 /\ 1..0 = {}
  OBVIOUS
<1>3. /\ \A n \in PpNodes : /\ ppQueue[n] = <<>> /\ Len(ppQueue[n]) = 0 /\ ppTurn[n] = 0
                            /\ ppPc[n] = "none" /\ ppSkipped[n] = ppSet.skip /\ ppSamples[n] = 0
      /\ ppGot = <<>> /\ Len(ppGot) = 0 /\ ppTried = 0 /\ ppCount = 0 /\ PpPongers \subseteq PpNodes
  BY <1>2 DEF PpInit, PpPongers
<1>4. PpTypes
  BY <1>1, <1>2 DEF PpInit, PpTypes, PpPoints
<1>5. PpBounds /\ PpCounted
  BY <1>1, <1>3 DEF PpBounds, PpCounted
<1>6. PpPongersInOrder /\ PpAnswersInOrder /\ PpRepliesInOrder
  BY <1>2, <1>3 DEF PpPongersInOrder, PpPongerOf, PpAnswersInOrder, PpAnsweredBefore,
     PpRepliesInOrder, PpOrdered, PpBefore
<1> QED BY <1>4, <1>5, <1>6 DEF PpToolInv

\* The other steps of a node's thread.
LEMMA PpThreadKeeps == ASSUME PpToolInv, NEW n \in PpNodes, PpThread(n) PROVE PpToolInv'
<1>0. PpTypes /\ PpCounted /\ PpBounds
  BY DEF PpToolInv
<1>1. CASE PpInvoked(n) \/ PpNotInvoked(n)
  <2>1. /\ UNCHANGED <<ppSet, ppQueue, ppTurn, ppSkipped, ppSamples, ppCount, ppTried, ppGot>>
        /\ n[2] = "ping"
        /\ \/ ppPc' = [ppPc EXCEPT ![n] = "try"] /\ ppTried < PpMaxPings
           \/ ppPc' = [ppPc EXCEPT ![n] = "handle"]
    BY <1>1 DEF PpInvoked, PpNotInvoked, PpTo, ppStats
  <2>2. ppPc' \in [PpNodes -> PpPoints] /\ \A m \in PpNodes \ {n} : ppPc'[m] = ppPc[m]
    BY <1>0, <2>1 DEF PpTypes, PpPoints
  <2>3. ppPc'[n] # "answer" /\ (ppPc'[n] = "try" => ppTried < PpMaxPings)
    BY <1>0, <2>1 DEF PpTypes
  <2> QED BY <2>1, <2>2, <2>3, PpQuietKeeps
<1> QED BY <1>1, PpLeaveKeeps, PpHandlePongKeeps, PpHandlePingKeeps, PpPingKeeps, PpAnswerKeeps
        DEF PpThread

\* What the tool keeps, whatever processes are run with whatever queues: no reply is
\* measured twice or out of order, and every reply handled is counted
\* (tips-ping-pong.cpp:196-198).
THEOREM PpMeasures == PpSpec => []PpSafety
<1>1. PpInit => PpToolInv
  BY PpStarts
<1>2. PpToolInv /\ [PpNext]_ppVars => PpToolInv'
  <2> SUFFICES ASSUME PpToolInv, [PpNext]_ppVars PROVE PpToolInv'
    OBVIOUS
  <2>0. PpTypes /\ PpNodes' = PpNodes
    BY DEF PpToolInv, PpNext, PpMain, PpAdd, PpSleep, PpJoin, PpSignal, PpThread, PpLeave, PpHandlePong,
       PpInvoked, PpNotInvoked, PpPing, PpHandlePing, PpAnswer, PpNodes, ppVars
  <2>1. CASE UNCHANGED ppVars
    BY <2>0, <2>1, PpQuietKeeps DEF ppVars, ppStats, PpTypes
  <2>2. ASSUME NEW i \in DOMAIN ppSet.procs, PpMain(i) \/ PpSignal(i) PROVE PpToolInv'
    <3>1. CASE PpAdd(i)
      <4>1. /\ UNCHANGED <<ppSet, ppQueue, ppTurn, ppSkipped, ppSamples, ppCount, ppTried, ppGot>>
            /\ ppPc' = [n \in PpNodes |-> IF n[1] = i THEN "handle" ELSE ppPc[n]]
        BY <3>1 DEF PpAdd, ppStats
      <4> QED BY <2>0, <4>1, PpQuietKeeps DEF PpTypes, PpPoints
    <3>2. CASE PpSleep(i) \/ PpJoin(i) \/ PpSignal(i)
      <4>1. UNCHANGED <<ppSet, ppPc, ppQueue, ppTurn, ppSkipped, ppSamples, ppCount, ppTried, ppGot>>
        BY <3>2 DEF PpSleep, PpJoin, PpSignal, ppStats
      <4> QED BY <2>0, <4>1, PpQuietKeeps DEF PpTypes
    <3> QED BY <2>2, <3>1, <3>2 DEF PpMain
  <2> QED BY <2>1, <2>2, PpThreadKeeps DEF PpNext
<1>3. PpToolInv => PpSafety
  <2> SUFFICES ASSUME PpToolInv PROVE PpSafety
    OBVIOUS
  <2>0. PpTypes /\ PpBounds /\ PpPongersInOrder /\ PpRepliesInOrder /\ PpCounted
    BY DEF PpToolInv
  <2>1. PpTypeOK
    <3>1. ppTried \in 0..PpMaxPings /\ ppCount \in 0..ppTried
      BY <2>0, PpAssumption DEF PpTypes, PpBounds
    <3>2. ASSUME NEW n \in PpNodes PROVE ppTurn[n] \in 0..PpMaxPings
      <4>1. ppTurn[n] \in Nat /\ (n[2] = "ping" \/ n \in PpPongers) /\ PpMaxPings \in Nat
        BY <2>0, PpOnePinger DEF PpTypes
      <4>2. CASE n[2] = "ping"
        <5>1. ppTurn[n] = 0
          BY <2>0, <4>2 DEF PpBounds
        <5> QED BY <4>1, <5>1
      <4>3. CASE n \in PpPongers
        <5>1. PpPongerOf(n)
          BY <2>0, <4>3 DEF PpPongersInOrder
        <5>2. ppTurn[n] <= ppTried
          BY <5>1 DEF PpPongerOf
        <5> QED BY <3>1, <4>1, <5>2
      <4> QED BY <4>1, <4>2, <4>3
    <3>3. ASSUME NEW n \in PpNodes PROVE Len(ppQueue[n]) <= ppSet.room /\ ppSkipped[n] \in 0..ppSet.skip
      <4>1. ppSkipped[n] \in Nat /\ ppSet.skip \in Nat
        BY <2>0, PpOnePinger DEF PpTypes
      <4> QED BY <2>0, <4>1 DEF PpBounds
    <3> QED BY <2>0, <3>1, <3>2, <3>3 DEF PpTypes, PpTypeOK, PpPoints
  <2>2. PpRoundTrips
    <3>1. \A i, j \in DOMAIN ppGot :
            i < j /\ ppGot[i].by = ppGot[j].by => ppGot[i].ping < ppGot[j].ping
      <4>1. DOMAIN ppGot = 1..Len(ppGot)
        BY <2>0 DEF PpTypes
      <4> QED BY <2>0, <4>1 DEF PpRepliesInOrder, PpOrdered
    <3> QED BY <2>0, <3>1 DEF PpRoundTrips, PpCounted
  <2> QED BY <2>1, <2>2 DEF PpSafety
<1> QED BY <1>1, <1>2, <1>3, PTL DEF PpSpec

-----------------------------------------------------------------------------
(* ShmTransport.                                                            *)

ShPoints == ShOpening \cup {"sleep", "poolsleep", "up", "leaving", "gone", "failed"}
ShSegment == [by : ShProcs, sized : BOOLEAN, made : BOOLEAN]

ShTypes ==
  /\ shSet \in ShSettings /\ shPc \in [ShProcs -> ShPoints]
  /\ shOwner \in [ShProcs -> {-1, 0, 1}] /\ shTries \in [ShProcs -> 0..ShMaxTries]
  /\ shFd \in [ShProcs -> Nat] /\ shPool \in [ShProcs -> {ShNone} \cup ShProcs]
  /\ shSegs \in Seq(ShSegment) /\ shName \in 0..Len(shSegs)
  /\ shPoolName \in {ShNone} \cup ShProcs

\* Whatever happens: who is past opening has a segment open, and an owner has constructed it
\* when it goes on to the pool.
ShAtPool == {"pool", "freshpool", "poolsleep", "up", "leaving"}
ShOwnOf(p) ==
  /\ shFd[p] <= Len(shSegs) /\ (shPc[p] # "failed" => shTries[p] > 0)
  /\ shPc[p] \in {"size", "stat", "lock", "make"} \cup ShAtPool => shFd[p] > 0
  /\ shPc[p] = "freshpool" => shOwner[p] > 0
  /\ shOwner[p] > 0 /\ shPc[p] \in {"stat", "lock", "make"} \cup ShAtPool => shSegs[shFd[p]].sized
  /\ shOwner[p] > 0 /\ shPc[p] \in ShAtPool => shSegs[shFd[p]].made
ShOwn == \A p \in ShProcs : ShOwnOf(p)

\* Unless there was a crash or a process creates the memory afresh: an owner has created
\* what its names stand for ...
ShOwnerOf(p) ==
  /\ shPc[p] \in {"size", "stat", "lock", "make", "pool", "freshpool", "up", "leaving", "gone"}
  /\ shFd[p] \in 1..Len(shSegs) /\ shSegs[shFd[p]].by = p
  /\ shPc[p] # "gone" => shName = shFd[p]
  /\ shPc[p] \in {"stat", "lock", "make", "pool", "freshpool", "up", "leaving", "gone"} =>
       shSegs[shFd[p]].sized
  /\ shPc[p] \in {"pool", "freshpool", "up", "leaving", "gone"} => shSegs[shFd[p]].made
  /\ shPc[p] = "up" => shPoolName = p /\ shPool[p] = p
  /\ shPc[p] = "freshpool" => shPoolName = ShNone
ShOwners == \A p \in ShProcs : shOwner[p] > 0 => ShOwnerOf(p)
\* ... nothing was created by anyone else, a pool that can be opened is of an owner ...
ShCreators ==
  /\ \A s \in 1..Len(shSegs) : shOwner[shSegs[s].by] > 0 /\ shFd[shSegs[s].by] = s
  /\ shPoolName # ShNone => shOwner[shPoolName] > 0 /\ ShUp(shPoolName)
\* ... and who attached has the pool of the segment's owner, unless that has left since.
ShAttachedOf(p) ==
  LET owner == shSegs[shFd[p]].by IN
  shPc[owner] \in {"leaving", "gone"} \/ (ShUp(owner) /\ shPool[p] = owner)
ShAttached == \A p \in ShProcs : shOwner[p] <= 0 /\ ShUp(p) => ShAttachedOf(p)

ShBaseInv == ShTypes /\ ShOwn
ShOrdered == ShOwners /\ ShCreators /\ ShAttached

\* The processes of a setting.
LEMMA ShSetting ==
  ASSUME shSet \in ShSettings
  PROVE  /\ shSet.own \in Seq({-1, 0, 1}) /\ ShProcs = 1..Len(shSet.own) /\ ShNone \notin ShProcs
         /\ ShProcs \subseteq Nat /\ shSet.exits \subseteq ShProcs
<1>1. shSet.own \in Seq({-1, 0, 1}) /\ shSet.exits \subseteq ShProcs
  BY ShAssumption DEF ShProcs
<1>2. ShProcs = 1..Len(shSet.own)
  BY <1>1 DEF ShProcs
<1>3. Len(shSet.own) \in Nat
  BY <1>1
<1> QED BY <1>1, <1>2, <1>3 DEF ShNone

\* One entry of a sequence is replaced.
LEMMA ShReplaced ==
  ASSUME NEW S, NEW s \in Seq(S), NEW i \in 1..Len(s), NEW e \in S
  PROVE  /\ [s EXCEPT ![i] = e] \in Seq(S) /\ Len([s EXCEPT ![i] = e]) = Len(s)
         /\ [s EXCEPT ![i] = e][i] = e
         /\ \A k \in 1..Len(s) : k # i => [s EXCEPT ![i] = e][k] = s[k]
  OBVIOUS

\* A process that could not open the memory closes it, and waits or gives up.
LEMMA ShRetryKeeps ==
  ASSUME ShBaseInv, NEW p \in ShProcs, ShRetry(p), shPc[p] # "failed",
         UNCHANGED <<shSet, shOwner, shPool, shMemory>>
  PROVE  ShBaseInv'
<1>1. /\ shTries' = [shTries EXCEPT ![p] = @ - 1] /\ shFd' = [shFd EXCEPT ![p] = ShNone]
      /\ shPc' = [shPc EXCEPT ![p] = IF shTries[p] = 1 THEN "failed" ELSE "sleep"]
      /\ UNCHANGED <<shSegs, shName, shPoolName>>
  BY DEF ShRetry, ShGivesUp, ShGo, shMemory
<1>2. /\ ShTypes /\ ShOwn /\ shTries[p] \in 1..ShMaxTries /\ ShMaxTries = 3 /\ ShNone = 0
      /\ Len(shSegs) \in Nat
  BY DEF ShBaseInv, ShTypes, ShOwn, ShOwnOf, ShMaxTries, ShNone
<1>3. ShProcs' = ShProcs /\ ShSegment' = ShSegment
  BY DEF ShProcs, ShSegment
<1>4. ShTypes'
  BY <1>1, <1>2, <1>3 DEF ShTypes, ShPoints
<1>5. ShOwn'
  BY <1>1, <1>2, <1>3 DEF ShTypes, ShOwn, ShOwnOf, ShAtPool
<1> QED BY <1>4, <1>5 DEF ShBaseInv

\* A process that finds no pool, or one it did not create, waits or gives up.
LEMMA ShPoolRetryKeeps ==
  ASSUME ShBaseInv, NEW p \in ShProcs, ShPoolRetry(p), shPc[p] \in {"pool", "freshpool"},
         UNCHANGED <<shSet, shOwner, shFd, shPool, shSegs, shPoolName>>
  PROVE  ShBaseInv'
<1>1. /\ shTries' = [shTries EXCEPT ![p] = @ - 1] /\ shName' \in {shName, ShNone}
      /\ shPc' = [shPc EXCEPT ![p] = IF shTries[p] = 1 THEN "failed" ELSE "poolsleep"]
  BY DEF ShPoolRetry, ShGivesUp, ShGo
<1>2. /\ ShTypes /\ ShOwn /\ shTries[p] \in 1..ShMaxTries /\ ShMaxTries = 3 /\ ShNone = 0
      /\ Len(shSegs) \in Nat
  BY DEF ShBaseInv, ShTypes, ShOwn, ShOwnOf, ShMaxTries, ShNone
<1>3. ShProcs' = ShProcs /\ ShSegment' = ShSegment
  BY DEF ShProcs, ShSegment
<1>4. ShTypes'
  BY <1>1, <1>2, <1>3 DEF ShTypes, ShPoints
<1>5. ShOwn'
  BY <1>1, <1>2, <1>3 DEF ShTypes, ShOwn, ShOwnOf, ShAtPool
<1> QED BY <1>4, <1>5 DEF ShBaseInv

\* What always holds of the memory and of owners is kept by every step.
LEMMA ShBaseStep ==
  ASSUME ShBaseInv, [ShNext]_shVars PROVE ShBaseInv'
<1>0. ShTypes /\ ShOwn /\ shSet \in ShSettings
  BY DEF ShBaseInv, ShTypes
<1>1. /\ ShProcs \subseteq Nat /\ ShNone \notin ShProcs /\ ShNone = 0 /\ ShMaxTries = 3
      /\ Len(shSegs) \in Nat
  BY <1>0, ShSetting DEF ShNone, ShMaxTries, ShTypes
<1>2. CASE UNCHANGED shVars
  BY <1>0, <1>2 DEF ShBaseInv, ShTypes, ShOwn, ShOwnOf, shVars, shProcess, shMemory, ShProcs,
     ShSegment
<1>3. CASE ShNext
  <2> PICK p \in ShProcs : ShStep(p) \/ ShLeave(p) \/ ShCrash(p)
    BY <1>3 DEF ShNext
  <2>0. shSet' = shSet /\ ShProcs' = ShProcs /\ ShSegment' = ShSegment
    BY DEF ShStep, ShWakes, ShBegin, ShCreate, ShAttach, ShSize, ShStat, ShLock, ShMake,
       ShOpenPool, ShCreatePool,
       ShLeave, ShCrash, ShProcs, ShSegment
  <2>1. CASE ShWakes(p)
    BY <1>0, <1>1, <2>0, <2>1 DEF ShBaseInv, ShTypes, ShOwn, ShOwnOf, ShWakes, ShGo, ShPoints,
       ShOpening, shMemory, ShAtPool
  <2>2. CASE ShBegin(p)
    BY <1>0, <1>1, <2>0, <2>2 DEF ShBaseInv, ShTypes, ShOwn, ShOwnOf, ShBegin, ShGo, ShPoints,
       ShOpening, ShAtPool
  <2>3. CASE ShCreate(p)
    <3>1. CASE shName # ShNone
      <4>1. CASE shOwner[p] = 0
        BY <1>0, <1>1, <2>0, <2>3, <3>1, <4>1 DEF ShBaseInv, ShTypes, ShOwn, ShOwnOf, ShCreate,
           ShGo, ShPoints,
           ShOpening, ShAtPool
      <4>2. CASE shOwner[p] > 0
        BY <1>0, <2>0, <2>3, <3>1, <4>2, ShRetryKeeps DEF ShCreate, shMemory
      <4>3. shOwner[p] \in {-1, 0, 1} /\ (shOwner[p] = 0 \/ shOwner[p] > 0)
        BY <1>0, <2>3, <3>1 DEF ShTypes, ShCreate
      <4> QED BY <4>1, <4>2, <4>3
    <3>2. CASE shName = ShNone
      <4> DEFINE seg == [by |-> p, sized |-> FALSE, made |-> FALSE]
      <4>1. /\ shSegs' = Append(shSegs, seg) /\ shName' = Len(shSegs')
            /\ shFd' = [shFd EXCEPT ![p] = Len(shSegs')] /\ shOwner' = [shOwner EXCEPT ![p] = 1]
            /\ shPc' = [shPc EXCEPT ![p] = "size"] /\ UNCHANGED <<shTries, shPool, shPoolName>>
            /\ shPc[p] = "create"
        BY <2>3, <3>2 DEF ShCreate, ShGo
      <4>2. /\ shSegs' \in Seq(ShSegment) /\ Len(shSegs') = Len(shSegs) + 1
            /\ \A s \in 1..Len(shSegs) : shSegs'[s] = shSegs[s]
        BY <1>0, <4>1 DEF ShTypes, ShSegment
      <4>3. ShTypes'
        BY <1>0, <1>1, <2>0, <4>1, <4>2 DEF ShTypes, ShPoints, ShOpening
      <4>4. ShOwn'
        <5> SUFFICES ASSUME NEW q \in ShProcs PROVE ShOwnOf(q)'
          BY <2>0 DEF ShOwn
        <5>1. ShOwnOf(q) /\ shFd[q] \in Nat
          BY <1>0 DEF ShOwn, ShTypes
        <5>2. CASE q = p
          BY <1>0, <1>1, <4>1, <4>2, <5>1, <5>2 DEF ShTypes, ShOwnOf, ShAtPool
        <5>3. CASE q # p
          <6>1. /\ shPc'[q] = shPc[q] /\ shFd'[q] = shFd[q] /\ shOwner'[q] = shOwner[q]
                /\ shTries'[q] = shTries[q]
            BY <1>0, <4>1, <5>3 DEF ShTypes
          <6> QED BY <1>1, <4>2, <5>1, <6>1 DEF ShOwnOf, ShAtPool
        <5> QED BY <5>2, <5>3
      <4> QED BY <4>3, <4>4 DEF ShBaseInv
    <3> QED BY <3>1, <3>2
  <2>4. CASE ShAttach(p)
    <3>1. CASE shName # ShNone
      <4>1. /\ shPc' = [shPc EXCEPT ![p] = "stat"] /\ shFd' = [shFd EXCEPT ![p] = shName]
            /\ shOwner' = [shOwner EXCEPT ![p] = -1] /\ shPc[p] = "attach"
            /\ UNCHANGED <<shTries, shPool, shSegs, shName, shPoolName>>
        BY <2>4, <3>1 DEF ShAttach, ShGo, shMemory
      <4>2. ShTypes'
        BY <1>0, <1>1, <2>0, <4>1 DEF ShTypes, ShPoints, ShOpening
      <4>3. ShOwn'
        BY <1>0, <1>1, <2>0, <3>1, <4>1 DEF ShTypes, ShOwn, ShOwnOf, ShAtPool
      <4> QED BY <4>2, <4>3 DEF ShBaseInv
    <3>2. CASE shName = ShNone
      BY <2>0, <2>4, <3>2, ShRetryKeeps DEF ShAttach
    <3> QED BY <3>1, <3>2
  <2>5. CASE ShSize(p)
    <3>1. /\ shSegs' = [shSegs EXCEPT ![shFd[p]].sized = TRUE] /\ shPc' = [shPc EXCEPT ![p] = "stat"]
          /\ UNCHANGED <<shOwner, shTries, shFd, shPool, shName, shPoolName>> /\ shPc[p] = "size"
          /\ shFd[p] \in 1..Len(shSegs)
      BY <1>0, <2>5 DEF ShSize, ShGo, ShTypes, ShOwn, ShOwnOf
    <3>2. /\ shSegs' \in Seq(ShSegment) /\ Len(shSegs') = Len(shSegs) /\ shSegs'[shFd[p]].sized
          /\ \A s \in 1..Len(shSegs) : /\ shSegs[s].sized => shSegs'[s].sized
                                       /\ shSegs[s].made => shSegs'[s].made
      <4> DEFINE seg == [shSegs[shFd[p]] EXCEPT !.sized = TRUE]
      <4>1. shSegs \in Seq(ShSegment) /\ shSegs[shFd[p]] \in ShSegment
        BY <1>0, <3>1 DEF ShTypes
      <4>2. seg \in ShSegment /\ seg.sized /\ (shSegs[shFd[p]].made => seg.made)
        BY <4>1 DEF ShSegment
      <4>3. shSegs' = [shSegs EXCEPT ![shFd[p]] = seg]
        BY <3>1
      <4> HIDE DEF seg
      <4>4. /\ shSegs' \in Seq(ShSegment) /\ Len(shSegs') = Len(shSegs) /\ shSegs'[shFd[p]] = seg
            /\ \A s \in 1..Len(shSegs) : s # shFd[p] => shSegs'[s] = shSegs[s]
        BY <3>1, <4>1, <4>2, <4>3, ShReplaced
      <4> QED BY <4>2, <4>4
    <3>3. ShTypes'
      BY <1>0, <1>1, <2>0, <3>1, <3>2 DEF ShTypes, ShPoints, ShOpening
    <3>4. ShOwn'
      BY <1>0, <1>1, <2>0, <3>1, <3>2 DEF ShTypes, ShOwn, ShOwnOf, ShAtPool
    <3> QED BY <3>3, <3>4 DEF ShBaseInv
  <2>6. CASE ShStat(p)
    <3>1. CASE ShRetry(p)
      BY <2>0, <2>6, <3>1, ShRetryKeeps DEF ShStat
    <3>2. CASE ShGo(p, "lock") /\ UNCHANGED <<shTries, shFd>>
      BY <1>0, <1>1, <2>0, <2>6, <3>2 DEF ShBaseInv, ShTypes, ShOwn, ShOwnOf, ShStat, ShGo,
         ShPoints,
         ShOpening, ShAtPool, shMemory
    <3> QED BY <2>6, <3>1, <3>2 DEF ShStat
  <2>7. CASE ShLock(p)
    <3>1. CASE shName # ShNone
      BY <1>0, <1>1, <2>0, <2>7, <3>1 DEF ShBaseInv, ShTypes, ShOwn, ShOwnOf, ShLock, ShGo,
         ShPoints,
         ShOpening, ShAtPool, shMemory
    <3>2. CASE shName = ShNone
      BY <2>0, <2>7, <3>2, ShRetryKeeps DEF ShLock
    <3> QED BY <3>1, <3>2
  <2>8. CASE ShMake(p)
    <3> DEFINE made == shSegs[shFd[p]].made \/ ShConstructs(p)
    <3>1. /\ shSegs' = [shSegs EXCEPT ![shFd[p]].made = made] /\ shPc' = [shPc EXCEPT ![p] = "pool"]
          /\ shTries' = [shTries EXCEPT ![p] = ShMaxTries]
          /\ UNCHANGED <<shOwner, shFd, shPool, shName, shPoolName>> /\ shPc[p] = "make"
          /\ shFd[p] \in 1..Len(shSegs)
      BY <1>0, <2>8 DEF ShMake, ShGo, ShTypes, ShOwn, ShOwnOf
    <3>2. made \in BOOLEAN /\ (shOwner[p] > 0 => made)
      BY <1>0, <3>1 DEF ShTypes, ShSegment, ShConstructs
    <3> HIDE DEF made
    <3>3. /\ shSegs' \in Seq(ShSegment) /\ Len(shSegs') = Len(shSegs) /\ shSegs'[shFd[p]].made = made
          /\ \A s \in 1..Len(shSegs) : /\ shSegs[s].sized => shSegs'[s].sized
                                       /\ s # shFd[p] => shSegs'[s] = shSegs[s]
      <4> DEFINE seg == [shSegs[shFd[p]] EXCEPT !.made = made]
      <4>1. shSegs \in Seq(ShSegment) /\ shSegs[shFd[p]] \in ShSegment
        BY <1>0, <3>1 DEF ShTypes
      <4>2. seg \in ShSegment /\ seg.made = made /\ (shSegs[shFd[p]].sized => seg.sized)
        BY <3>2, <4>1 DEF ShSegment
      <4>3. shSegs' = [shSegs EXCEPT ![shFd[p]] = seg]
        BY <3>1
      <4> HIDE DEF seg
      <4>4. /\ shSegs' \in Seq(ShSegment) /\ Len(shSegs') = Len(shSegs) /\ shSegs'[shFd[p]] = seg
            /\ \A s \in 1..Len(shSegs) : s # shFd[p] => shSegs'[s] = shSegs[s]
        BY <3>1, <4>1, <4>2, <4>3, ShReplaced
      <4> QED BY <4>2, <4>4
    <3>4. shSegs[shFd[p]].made => made
      BY <3>1 DEF made
    <3>5. ShTypes'
      BY <1>0, <1>1, <2>0, <3>1, <3>3 DEF ShTypes, ShPoints, ShOpening
    <3>6. \A s \in 1..Len(shSegs) : shSegs[s].made => shSegs'[s].made
      BY <3>3, <3>4
    <3>7. ShOwn'
      BY <1>0, <1>1, <2>0, <3>1, <3>2, <3>3, <3>6 DEF ShTypes, ShOwn, ShOwnOf, ShAtPool
    <3> QED BY <3>5, <3>7 DEF ShBaseInv
  <2>9. CASE ShOpenPool(p)
    <3>1. CASE shOwner[p] > 0
      <4>1. /\ shPc' = [shPc EXCEPT ![p] = "freshpool"] /\ shPoolName' = ShNone /\ shPc[p] = "pool"
            /\ UNCHANGED <<shOwner, shTries, shFd, shPool, shSegs, shName>>
        <5>1. shOwner[p] \in {-1, 0, 1}
          BY <1>0 DEF ShTypes
        <5>2. ~(shOwner[p] <= 0)
          BY <3>1, <5>1
        <5> QED BY <2>9, <5>2 DEF ShOpenPool, ShGo
      <4>2. ShTypes'
        BY <1>0, <1>1, <2>0, <4>1 DEF ShTypes, ShPoints, ShOpening
      <4>3. ShOwn'
        BY <1>0, <1>1, <2>0, <3>1, <4>1 DEF ShTypes, ShOwn, ShOwnOf, ShAtPool
      <4> QED BY <4>2, <4>3 DEF ShBaseInv
    <3>2. CASE shOwner[p] <= 0 /\ ~(shOwner[p] > 0) /\ shPoolName # ShNone
      BY <1>0, <1>1, <2>0, <2>9, <3>2 DEF ShBaseInv, ShTypes, ShOwn, ShOwnOf, ShOpenPool, ShGo,
         ShPoints,
         ShOpening, ShAtPool, ShMayAttach
    <3>3. CASE shOwner[p] <= 0 /\ ~(shOwner[p] > 0) /\ shPoolName = ShNone
      BY <2>0, <2>9, <3>3, ShPoolRetryKeeps DEF ShOpenPool, ShMayAttach
    <3>4. shOwner[p] \in {-1, 0, 1}
      BY <1>0 DEF ShTypes
    <3> QED BY <3>1, <3>2, <3>3, <3>4
  <2>10. CASE ShCreatePool(p)
    <3>1. ShTypes'
      <4>1. CASE shPoolName = ShNone
        BY <1>0, <1>1, <2>0, <2>10, <4>1 DEF ShTypes, ShCreatePool, ShGo, ShPoints
      <4>2. CASE shPoolName # ShNone
        BY <2>0, <2>10, <4>2, ShPoolRetryKeeps DEF ShCreatePool, ShBaseInv
      <4> QED BY <4>1, <4>2
    <3>2. ShOwn'
      BY <1>0, <1>1, <2>0, <2>10 DEF ShTypes, ShOwn, ShOwnOf, ShCreatePool, ShGo, ShAtPool,
         ShPoolRetry, ShGivesUp
    <3> QED BY <3>1, <3>2 DEF ShBaseInv
  <2>11. CASE ShLeave(p)
    <3>1. /\ shPc[p] \in {"up", "leaving"} /\ UNCHANGED <<shOwner, shTries, shFd, shPool, shSegs>>
          /\ \/ shPc[p] = "up" /\ shPc' = [shPc EXCEPT ![p] = "leaving"]
             \/ shPc' = [shPc EXCEPT ![p] = "gone"]
          /\ shName' \in {shName, ShNone} /\ shPoolName' \in {shPoolName, ShNone}
      BY <2>11 DEF ShLeave, ShGo, ShRemove
    <3>2. ShTypes'
      BY <1>0, <1>1, <2>0, <3>1 DEF ShTypes, ShPoints
    <3>3. ShOwn'
      BY <1>0, <1>1, <2>0, <3>1 DEF ShTypes, ShOwn, ShOwnOf, ShAtPool
    <3> QED BY <3>2, <3>3 DEF ShBaseInv
  <2>12. CASE ShCrash(p)
    BY <1>0, <1>1, <2>0, <2>12 DEF ShBaseInv, ShTypes, ShOwn, ShOwnOf, ShCrash, ShGo, ShPoints,
       ShOpening, ShAtPool, shMemory
  <2> QED BY <2>1, <2>2, <2>3, <2>4, <2>5, <2>6, <2>7, <2>8, <2>9, <2>10, <2>11, <2>12 DEF ShStep
<1> QED BY <1>2, <1>3

\* What a step leaves alone that is not an owner's, nor makes one.
ShOthersSame(p) ==
  /\ shSet' = shSet /\ Len(shSegs') = Len(shSegs)
  /\ \A q \in ShProcs \ {p} : /\ shPc'[q] = shPc[q] /\ shOwner'[q] = shOwner[q]
                              /\ shFd'[q] = shFd[q] /\ shPool'[q] = shPool[q]
  /\ \A s \in 1..Len(shSegs) : /\ shSegs'[s].by = shSegs[s].by
                               /\ shSegs[s].sized => shSegs'[s].sized
                               /\ shSegs[s].made => shSegs'[s].made

\* There is one owner at a time: the others have left.
LEMMA ShOneOwner ==
  ASSUME ShBaseInv, ShOrdered, NEW p \in ShProcs, NEW q \in ShProcs, shOwner[p] > 0, shOwner[q] > 0,
         shPc[p] # "gone", shPc[q] # "gone"
  PROVE  p = q
  BY DEF ShOrdered, ShOwners, ShOwnerOf

\* Steps of a process that is not an owner.
LEMMA ShQuietKeeps ==
  ASSUME ShBaseInv, ShBaseInv', ShOrdered, NEW p \in ShProcs, ShOthersSame(p),
         shOwner[p] <= 0, shOwner'[p] <= 0, shName' = shName, shPoolName' = shPoolName,
         shPc'[p] = "up" =>
           shPoolName # ShNone /\ shPool'[p] = shPoolName /\ shFd'[p] = shFd[p]
  PROVE  ShOrdered'
<1>0. ShTypes /\ ShOwn /\ ShTypes' /\ ShOwn' /\ ShOwners /\ ShCreators /\ ShAttached /\ shSet \in ShSettings
  BY DEF ShBaseInv, ShTypes, ShOrdered
<1>1. /\ ShProcs \subseteq Nat /\ ShNone \notin ShProcs /\ ShNone = 0 /\ Len(shSegs) \in Nat
      /\ ShProcs' = ShProcs /\ shSet' = shSet
      /\ (\A q \in ShProcs : shOwner[q] \in Int /\ shFd[q] \in Nat)
      /\ (\A s \in 1..Len(shSegs) : shSegs[s].by \in ShProcs)
      /\ shPoolName \in {ShNone} \cup ShProcs
  <2>1. ShProcs \subseteq Nat /\ ShNone \notin ShProcs /\ ShNone = 0
    BY <1>0, ShSetting DEF ShNone
  <2>2. ShProcs' = ShProcs /\ shSet' = shSet
    BY DEF ShOthersSame, ShProcs
  <2>3. \A q \in ShProcs : shOwner[q] \in Int /\ shFd[q] \in Nat
    BY <1>0 DEF ShTypes
  <2>4. \A s \in 1..Len(shSegs) : shSegs[s].by \in ShProcs
    <3> TAKE s \in 1..Len(shSegs)
    <3>1. shSegs[s] \in ShSegment
      BY <1>0 DEF ShTypes
    <3> QED BY <3>1 DEF ShSegment
  <2> QED BY <1>0, <2>1, <2>2, <2>3, <2>4 DEF ShTypes
<1>2. ShOwners'
  <2> SUFFICES ASSUME NEW q \in ShProcs, shOwner'[q] > 0 PROVE ShOwnerOf(q)'
    BY <1>1 DEF ShOwners
  <2>1. q # p /\ shOwner[q] > 0
    <3>1. shOwner'[p] \in Int
      BY <1>0, <1>1 DEF ShTypes
    <3> QED BY <3>1 DEF ShOthersSame
  <2>2. ShOwnerOf(q)
    BY <1>0, <2>1 DEF ShOwners
  <2> QED BY <1>1, <2>1, <2>2 DEF ShOwnerOf, ShOthersSame
<1>3. ShCreators'
  <2>1. ASSUME NEW q \in ShProcs, shOwner[q] > 0
        PROVE  shOwner'[q] > 0 /\ shFd'[q] = shFd[q] /\ shPc'[q] = shPc[q]
    BY <1>1, <2>1 DEF ShOthersSame
  <2>2. \A s \in 1..Len(shSegs') : shOwner'[shSegs'[s].by] > 0 /\ shFd'[shSegs'[s].by] = s
    <3> SUFFICES ASSUME NEW s \in 1..Len(shSegs)
                 PROVE  shOwner'[shSegs'[s].by] > 0 /\ shFd'[shSegs'[s].by] = s
      BY DEF ShOthersSame
    <3>1. /\ shSegs'[s].by = shSegs[s].by /\ shSegs[s].by \in ShProcs
          /\ shOwner[shSegs[s].by] > 0 /\ shFd[shSegs[s].by] = s
      BY <1>0, <1>1 DEF ShCreators, ShOthersSame
    <3> QED BY <2>1, <3>1
  <2> QED BY <1>0, <1>1, <2>1, <2>2 DEF ShCreators, ShUp
<1>4. ShAttached'
  <2> SUFFICES ASSUME NEW q \in ShProcs, shOwner'[q] <= 0, ShUp(q)' PROVE ShAttachedOf(q)'
    BY <1>1 DEF ShAttached
  <2>1. shFd'[q] \in 1..Len(shSegs)
    BY <1>0, <1>1 DEF ShOwn, ShOwnOf, ShAtPool, ShUp, ShTypes, ShOthersSame
  <2>2. CASE q # p
    <3>1. ShAttachedOf(q) /\ shFd'[q] = shFd[q] /\ shPool'[q] = shPool[q]
      BY <1>0, <2>2 DEF ShAttached, ShOthersSame, ShUp
    <3> DEFINE a == shSegs[shFd[q]].by
    <3>2. a \in ShProcs /\ a # p /\ shSegs'[shFd'[q]].by = a
      BY <1>0, <1>1, <2>1, <3>1 DEF ShCreators, ShOthersSame
    <3> QED BY <3>1, <3>2 DEF ShAttachedOf, ShOthersSame, ShUp
  <2>3. CASE q = p
    <3> DEFINE a == shSegs[shFd[p]].by
    <3>1. /\ a \in ShProcs /\ shSegs'[shFd'[p]].by = a /\ shOwner[a] > 0 /\ a # p
          /\ shPool'[p] = shPoolName /\ shPoolName \in ShProcs
          /\ shOwner[shPoolName] > 0 /\ ShUp(shPoolName) /\ shPoolName # p
      BY <1>0, <1>1, <2>1, <2>3 DEF ShCreators, ShOthersSame, ShUp
    <3>2. shPc[a] = "gone" \/ a = shPoolName
      BY <3>1, ShOneOwner DEF ShUp
    <3> QED BY <2>3, <3>1, <3>2 DEF ShAttachedOf, ShOthersSame, ShUp
  <2> QED BY <2>2, <2>3
<1> QED BY <1>2, <1>3, <1>4 DEF ShOrdered

\* Steps of the owner.
LEMMA ShOwnerKeeps ==
  ASSUME ShBaseInv, ShBaseInv', ShOrdered, NEW p \in ShProcs, ShOthersSame(p),
         shOwner[p] > 0, shPc[p] # "gone", shOwner'[p] = shOwner[p], shFd'[p] = shFd[p],
         ShOwnerOf(p)', shPoolName' # ShNone => shPoolName' = p /\ shPc'[p] = "up",
         shPc[p] \in {"up", "leaving"} => shPc'[p] \in {"leaving", "gone"}
  PROVE  ShOrdered'
<1>0. ShTypes /\ ShOwn /\ ShOwners /\ ShCreators /\ ShAttached /\ shSet \in ShSettings
  BY DEF ShBaseInv, ShTypes, ShOrdered
<1>1. /\ ShProcs \subseteq Nat /\ ShNone \notin ShProcs /\ ShNone = 0 /\ Len(shSegs) \in Nat
      /\ ShProcs' = ShProcs /\ shSet' = shSet
      /\ (\A q \in ShProcs : shOwner[q] \in Int /\ shFd[q] \in Nat)
      /\ (\A s \in 1..Len(shSegs) : shSegs[s].by \in ShProcs)
  <2>1. ShProcs \subseteq Nat /\ ShNone \notin ShProcs /\ ShNone = 0
    BY <1>0, ShSetting DEF ShNone
  <2>2. ShProcs' = ShProcs /\ shSet' = shSet
    BY DEF ShOthersSame, ShProcs
  <2>3. \A q \in ShProcs : shOwner[q] \in Int /\ shFd[q] \in Nat
    BY <1>0 DEF ShTypes
  <2>4. \A s \in 1..Len(shSegs) : shSegs[s].by \in ShProcs
    <3> TAKE s \in 1..Len(shSegs)
    <3>1. shSegs[s] \in ShSegment
      BY <1>0 DEF ShTypes
    <3> QED BY <3>1 DEF ShSegment
  <2> QED BY <1>0, <2>1, <2>2, <2>3, <2>4 DEF ShTypes
<1>2. ShOwners'
  <2> SUFFICES ASSUME NEW q \in ShProcs, shOwner'[q] > 0, q # p PROVE ShOwnerOf(q)'
    BY <1>1 DEF ShOwners
  <2>1. shOwner[q] > 0 /\ shPc'[q] = shPc[q] /\ shFd'[q] = shFd[q]
    BY DEF ShOthersSame
  <2>2. ShOwnerOf(q) /\ shPc[q] = "gone"
    BY <1>0, <2>1, ShOneOwner DEF ShOwners
  <2> QED BY <2>1, <2>2 DEF ShOwnerOf, ShOthersSame
<1>3. ShCreators'
  <2>1. ASSUME NEW s \in 1..Len(shSegs') PROVE shOwner'[shSegs'[s].by] > 0 /\ shFd'[shSegs'[s].by] = s
    <3> DEFINE a == shSegs[s].by
    <3>1. s \in 1..Len(shSegs) /\ shSegs'[s].by = a /\ a \in ShProcs /\ shOwner[a] > 0 /\ shFd[a] = s
      BY <1>0, <1>1 DEF ShCreators, ShOthersSame
    <3>2. a = p \/ (shOwner'[a] = shOwner[a] /\ shFd'[a] = shFd[a])
      BY <3>1 DEF ShOthersSame
    <3> QED BY <3>1, <3>2
  <2> QED BY <2>1 DEF ShCreators, ShUp
<1>4. ShAttached'
  <2> SUFFICES ASSUME NEW q \in ShProcs, shOwner'[q] <= 0, ShUp(q)' PROVE ShAttachedOf(q)'
    BY <1>1 DEF ShAttached
  <2>1. q # p
    BY <1>1
  <2>2. shOwner[q] <= 0 /\ ShUp(q) /\ shFd'[q] = shFd[q] /\ shPool'[q] = shPool[q]
    BY <2>1 DEF ShOthersSame, ShUp
  <2>3. ShAttachedOf(q) /\ shFd[q] \in 1..Len(shSegs)
    BY <1>0, <1>1, <2>2 DEF ShOwn, ShOwnOf, ShAtPool, ShUp, ShTypes, ShAttached
  <2> DEFINE a == shSegs[shFd[q]].by
  <2>4. a \in ShProcs /\ shSegs'[shFd'[q]].by = a
    BY <1>1, <2>2, <2>3 DEF ShOthersSame
  <2>5. CASE a = p
    BY <2>2, <2>3, <2>4, <2>5 DEF ShAttachedOf, ShUp
  <2>6. CASE a # p
    BY <2>2, <2>3, <2>4, <2>6 DEF ShAttachedOf, ShUp, ShOthersSame
  <2> QED BY <2>5, <2>6
<1> QED BY <1>2, <1>3, <1>4 DEF ShOrdered

\* A segment that was sized or constructed stays so.
LEMMA ShSegmentsKept ==
  ASSUME ShTypes, ShOwn, NEW p \in ShProcs,
         ShSize(p) \/ ShStat(p) \/ ShLock(p) \/ ShMake(p) \/ ShOpenPool(p) \/ ShCreatePool(p)
         \/ ShLeave(p)
  PROVE  /\ Len(shSegs') = Len(shSegs)
         /\ \A s \in 1..Len(shSegs) : /\ shSegs'[s].by = shSegs[s].by
                                      /\ shSegs[s].sized => shSegs'[s].sized
                                      /\ shSegs[s].made => shSegs'[s].made
<1>1. CASE ShStat(p) \/ ShLock(p) \/ ShOpenPool(p) \/ ShCreatePool(p) \/ ShLeave(p)
  BY <1>1 DEF ShStat, ShLock, ShOpenPool, ShCreatePool, ShLeave, shMemory
<1>2. CASE ShSize(p) \/ ShMake(p)
  <2> DEFINE i == shFd[p]
             seg == shSegs'[i]
  <2>1. shSegs \in Seq(ShSegment) /\ i \in 1..Len(shSegs) /\ shSegs[i] \in ShSegment
    BY <1>2 DEF ShTypes, ShOwn, ShOwnOf, ShSize, ShMake
  <2>2. /\ shSegs' = [shSegs EXCEPT ![i] = seg]
        /\ \/ seg = [shSegs[i] EXCEPT !.sized = TRUE]
           \/ seg = [shSegs[i] EXCEPT !.made = shSegs[i].made \/ ShConstructs(p)]
    BY <1>2, <2>1 DEF ShSize, ShMake
  <2>3. /\ seg.by = shSegs[i].by /\ (shSegs[i].sized => seg.sized) /\ (shSegs[i].made => seg.made)
    BY <2>1, <2>2 DEF ShSegment
  <2>4. Len(shSegs') = Len(shSegs) /\ \A s \in 1..Len(shSegs) : s # i => shSegs'[s] = shSegs[s]
    BY <2>1, <2>2
  <2> QED BY <2>3, <2>4
<1> QED BY <1>1, <1>2

\* Without crashes, and when nobody creates the memory afresh, every step keeps the order.
LEMMA ShOrderStep ==
  ASSUME ShBaseInv, ShBaseInv', ShOrderly, ShOrdered, [ShNext]_shVars
  PROVE  ShOrdered'
<1>0. /\ ShTypes /\ ShOwn /\ ShTypes' /\ ShOwn' /\ ShOwners /\ ShCreators /\ ShAttached
      /\ shSet \in ShSettings /\ shSet.crashes = {}
  BY DEF ShBaseInv, ShTypes, ShOrdered, ShOrderly
<1>1. CASE UNCHANGED shVars
  BY <1>0, <1>1 DEF ShOrdered, ShOwners, ShOwnerOf, ShCreators, ShAttached, ShAttachedOf, ShUp,
     shVars,
     shProcess, shMemory, ShProcs
<1>2. CASE ShNext
  <2> PICK p \in ShProcs : ShStep(p) \/ ShLeave(p)
    BY <1>0, <1>2 DEF ShNext, ShCrash
  <2>0. /\ ShNone \notin ShProcs /\ ShNone = 0 /\ shOwner[p] \in {-1, 0, 1}
        /\ Len(shSegs) \in Nat /\ shFd[p] \in Nat /\ shName \in Nat
    BY <1>0, ShSetting DEF ShNone, ShTypes
  <2>1. shOwner[p] > 0 => ShOwnerOf(p)
    BY <1>0 DEF ShOwners
  <2>2. CASE ShWakes(p) \/ ShBegin(p) \/ ShAttach(p)
    <3>1. shOwner[p] <= 0
      BY <2>0, <2>1, <2>2 DEF ShOwnerOf, ShWakes, ShBegin, ShAttach
    <3>2. ShOthersSame(p) /\ shOwner'[p] <= 0 /\ shName' = shName /\ shPoolName' = shPoolName /\ shPc'[p] # "up"
      <4>1. CASE ShWakes(p)
        BY <1>0, <3>1, <4>1 DEF ShWakes, ShGo, ShTypes, ShOthersSame, shMemory
      <4>2. CASE ShBegin(p)
        BY <1>0, <2>0, <3>1, <4>2 DEF ShBegin, ShGo, ShTypes, ShOthersSame
      <4>3. CASE ShAttach(p)
        BY <1>0, <2>0, <3>1, <4>3 DEF ShAttach, ShRetry, ShGo, ShTypes, ShOthersSame, shMemory
      <4> QED BY <2>2, <4>1, <4>2, <4>3
    <3> QED BY <3>1, <3>2, ShQuietKeeps
  <2>3. CASE ShCreate(p) /\ shName # ShNone
    <3>1. shOwner[p] <= 0 /\ shOwner[p] = 0
      BY <2>0, <2>1, <2>3 DEF ShOwnerOf, ShCreate
    <3>2. ShOthersSame(p) /\ shOwner'[p] <= 0 /\ shName' = shName /\ shPoolName' = shPoolName /\ shPc'[p] # "up"
      BY <1>0, <3>1, <2>3 DEF ShCreate, ShGo, ShTypes, ShOthersSame
    <3> QED BY <3>1, <3>2, ShQuietKeeps
  <2>4. CASE ShCreate(p) /\ shName = ShNone
    <3> DEFINE seg == [by |-> p, sized |-> FALSE, made |-> FALSE]
               n == Len(shSegs) + 1
    <3>1. /\ shSegs' = Append(shSegs, seg) /\ shName' = Len(shSegs')
          /\ shFd' = [shFd EXCEPT ![p] = Len(shSegs')] /\ shOwner' = [shOwner EXCEPT ![p] = 1]
          /\ shPc' = [shPc EXCEPT ![p] = "size"] /\ UNCHANGED <<shSet, shPool, shPoolName>>
          /\ shPc[p] = "create"
      BY <2>4 DEF ShCreate, ShGo
    <3>2. /\ shSegs' \in Seq(ShSegment) /\ Len(shSegs') = n /\ shSegs'[n] = seg
          /\ \A s \in 1..Len(shSegs) : shSegs'[s] = shSegs[s] /\ shSegs[s] \in ShSegment
      <4>1. seg \in ShSegment
        BY DEF ShSegment
      <4>2. shSegs \in Seq(ShSegment)
        BY <1>0 DEF ShTypes
      <4> HIDE DEF seg
      <4> QED BY <3>1, <4>1, <4>2, PpAppend
    <3>3. /\ shOwner[p] <= 0 /\ ShProcs' = ShProcs
          /\ \A q \in ShProcs : shOwner[q] > 0 => shPc[q] = "gone" /\ q # p
      BY <1>0, <2>0, <2>1, <2>4, <3>1 DEF ShOwners, ShOwnerOf, ShProcs
    <3>4. \A q \in ShProcs : shOwner[q] \in Int /\ shFd[q] \in Nat
      BY <1>0 DEF ShTypes
    <3>5. /\ shPc'[p] = "size" /\ shFd'[p] = n /\ shOwner'[p] = 1 /\ shName' = n
          /\ \A q \in ShProcs \ {p} : /\ shPc'[q] = shPc[q] /\ shOwner'[q] = shOwner[q]
                                      /\ shFd'[q] = shFd[q] /\ shPool'[q] = shPool[q]
      BY <1>0, <3>1, <3>2 DEF ShTypes
    <3>6. \A s \in 1..Len(shSegs) : /\ shSegs'[s].by = shSegs[s].by /\ shSegs[s].by \in ShProcs \ {p}
                                    /\ shOwner[shSegs[s].by] > 0 /\ shFd[shSegs[s].by] = s
      BY <1>0, <3>2, <3>3 DEF ShCreators, ShSegment
    <3>7. ShOwners'
      <4> SUFFICES ASSUME NEW q \in ShProcs, shOwner'[q] > 0 PROVE ShOwnerOf(q)'
        BY <3>3 DEF ShOwners
      <4>1. CASE q = p
        BY <2>0, <3>2, <3>5, <4>1 DEF ShOwnerOf
      <4>2. CASE q # p
        <5>1. ShOwnerOf(q) /\ shPc[q] = "gone"
          BY <1>0, <3>3, <3>5, <4>2 DEF ShOwners
        <5> QED BY <2>0, <3>2, <3>5, <4>2, <5>1 DEF ShOwnerOf
      <4> QED BY <4>1, <4>2
    <3>8. ShCreators'
      <4>1. shPoolName' = ShNone
        BY <1>0, <3>1, <3>3 DEF ShCreators, ShUp, ShTypes
      <4>2. ASSUME NEW s \in 1..n PROVE shOwner'[shSegs'[s].by] > 0 /\ shFd'[shSegs'[s].by] = s
        <5>1. CASE s = n
          BY <3>2, <3>5, <5>1
        <5>2. CASE s \in 1..Len(shSegs)
          BY <3>5, <3>6, <5>2
        <5> QED BY <2>0, <5>1, <5>2
      <4> QED BY <3>2, <4>1, <4>2 DEF ShCreators
    <3>9. ShAttached'
      <4> SUFFICES ASSUME NEW q \in ShProcs, shOwner'[q] <= 0, ShUp(q)' PROVE ShAttachedOf(q)'
        BY <3>3 DEF ShAttached
      <4>1. q # p
        BY <3>5 DEF ShUp
      <4>2. ShAttachedOf(q) /\ shFd[q] \in 1..Len(shSegs) /\ shFd'[q] = shFd[q] /\ shPool'[q] = shPool[q]
        BY <1>0, <3>4, <3>5, <4>1 DEF ShAttached, ShUp, ShOwn, ShOwnOf, ShAtPool
      <4> QED BY <3>5, <3>6, <4>2 DEF ShAttachedOf, ShUp
    <3> QED BY <3>7, <3>8, <3>9 DEF ShOrdered
  <2>5. CASE (ShSize(p) \/ ShStat(p) \/ ShLock(p) \/ ShMake(p) \/ ShOpenPool(p) \/ ShCreatePool(p) \/ ShLeave(p))
             /\ shOwner[p] <= 0
    <3>0. ~ShCreatePool(p)
      BY <1>0, <2>0, <2>5 DEF ShCreatePool, ShOwn, ShOwnOf
    <3>1. shSet' = shSet /\ shOwner' = shOwner /\ shName' = shName /\ shPoolName' = shPoolName
          /\ \A q \in ShProcs \ {p} : shPc'[q] = shPc[q] /\ shFd'[q] = shFd[q] /\ shPool'[q] = shPool[q]
      <4>1. CASE ShSize(p) \/ ShMake(p)
        BY <1>0, <4>1 DEF ShSize, ShMake, ShGo, ShTypes
      <4>2. CASE ShStat(p) \/ ShLock(p)
        BY <1>0, <4>2 DEF ShStat, ShLock, ShRetry, ShGo, ShTypes, shMemory
      <4>3. CASE ShOpenPool(p)
        BY <1>0, <2>0, <2>5, <4>3 DEF ShOpenPool, ShPoolRetry, ShGo, ShTypes
      <4>4. CASE ShLeave(p)
        BY <1>0, <2>0, <2>5, <4>4 DEF ShLeave, ShRemove, ShGo, ShTypes
      <4> QED BY <2>5, <3>0, <4>1, <4>2, <4>3, <4>4
    <3>2. /\ Len(shSegs') = Len(shSegs)
          /\ \A s \in 1..Len(shSegs) : /\ shSegs'[s].by = shSegs[s].by
                                       /\ shSegs[s].sized => shSegs'[s].sized
                                       /\ shSegs[s].made => shSegs'[s].made
      BY <1>0, <2>5, ShSegmentsKept
    <3>3. shPc'[p] = "up" => shPoolName # ShNone /\ shPool'[p] = shPoolName /\ shFd'[p] = shFd[p]
      BY <1>0, <2>5, <3>0 DEF ShSize, ShMake, ShStat, ShLock, ShRetry, ShOpenPool, ShPoolRetry,
         ShMayAttach,
         ShLeave, ShGo, ShTypes
    <3>4. ShOthersSame(p)
      BY <3>1, <3>2 DEF ShOthersSame
    <3> QED BY <2>5, <3>1, <3>3, <3>4, ShQuietKeeps
  <2>6. CASE (ShSize(p) \/ ShStat(p) \/ ShLock(p) \/ ShMake(p) \/ ShOpenPool(p) \/ ShCreatePool(p) \/ ShLeave(p))
             /\ shOwner[p] > 0
    <3>1. /\ Len(shSegs') = Len(shSegs)
          /\ \A s \in 1..Len(shSegs) : /\ shSegs'[s].by = shSegs[s].by
                                       /\ shSegs[s].sized => shSegs'[s].sized
                                       /\ shSegs[s].made => shSegs'[s].made
      BY <1>0, <2>6, ShSegmentsKept
    <3>2. /\ ShOwnerOf(p) /\ shName # ShNone /\ shName = shFd[p] /\ shPc[p] # "gone"
          /\ shFd[p] \in 1..Len(shSegs)
      BY <2>0, <2>1, <2>6 DEF ShOwnerOf, ShSize, ShStat, ShLock, ShMake, ShOpenPool, ShCreatePool,
         ShLeave
    <3>3. shPoolName # ShNone => shPoolName = p /\ shPc[p] = "up"
      BY <1>0, <2>6, <3>2, ShOneOwner DEF ShCreators, ShUp, ShTypes
    <3>4. CASE ShSize(p)
      <4>1. /\ shPc' = [shPc EXCEPT ![p] = "stat"] /\ shPc[p] = "size"
            /\ UNCHANGED <<shSet, shOwner, shFd, shPool, shName, shPoolName>>
        BY <3>4 DEF ShSize, ShGo
      <4>2. shSegs'[shFd[p]].sized
        <5>1. shSegs[shFd[p]] \in ShSegment
          BY <1>0, <3>2 DEF ShTypes
        <5> QED BY <1>0, <3>2, <3>4, <5>1 DEF ShSize, ShSegment
      <4> QED BY <1>0, <2>6, <3>1, <3>2, <3>3, <4>1, <4>2, ShOwnerKeeps DEF ShOwnerOf,
                 ShOthersSame, ShTypes
    <3>5. CASE ShStat(p) \/ ShLock(p)
      <4>1. /\ shPc' \in {[shPc EXCEPT ![p] = "lock"], [shPc EXCEPT ![p] = "make"]} 
            /\ shPc[p] \in {"stat", "lock"}
            /\ UNCHANGED <<shSet, shOwner, shFd, shPool, shSegs, shName, shPoolName>>
        <5>1. CASE ShStat(p)
          <6>1. shPc[p] = "stat" /\ ShSizeFits = {TRUE}
            <7>1. shSegs[shFd[p]] \in ShSegment /\ shPc[p] = "stat"
              BY <1>0, <3>2, <5>1 DEF ShTypes, ShStat
            <7> QED BY <3>2, <7>1 DEF ShSizeFits, ShOwnerOf, ShSegment
          <6> QED BY <5>1, <6>1 DEF ShStat, ShGo, shMemory
        <5>2. CASE ShLock(p)
          BY <3>2, <5>2 DEF ShLock, ShGo, shMemory
        <5> QED BY <3>5, <5>1, <5>2
      <4> QED BY <1>0, <2>6, <3>1, <3>2, <3>3, <4>1, ShOwnerKeeps DEF ShOwnerOf, ShOthersSame,
                 ShTypes
    <3>6. CASE ShMake(p)
      <4>1. /\ shPc' = [shPc EXCEPT ![p] = "pool"] /\ shPc[p] = "make"
            /\ UNCHANGED <<shSet, shOwner, shFd, shPool, shName, shPoolName>>
        BY <3>6 DEF ShMake, ShGo
      <4>2. shSegs'[shFd[p]].made
        <5>1. shSegs[shFd[p]] \in ShSegment /\ ShConstructs(p)
          BY <1>0, <2>6, <3>2 DEF ShTypes, ShConstructs
        <5>2. shSegs'[shFd[p]] = [shSegs[shFd[p]] EXCEPT !.made = shSegs[shFd[p]].made \/ ShConstructs(p)]
          BY <1>0, <3>2, <3>6 DEF ShMake, ShTypes
        <5>3. shSegs'[shFd[p]].made = (shSegs[shFd[p]].made \/ ShConstructs(p))
          BY <5>1, <5>2 DEF ShSegment
        <5> QED BY <5>1, <5>3
      <4> QED BY <1>0, <2>6, <3>1, <3>2, <3>3, <4>1, <4>2, ShOwnerKeeps DEF ShOwnerOf,
                 ShOthersSame, ShTypes
    <3>7. CASE ShOpenPool(p) \/ ShCreatePool(p)
      <4>1. /\ UNCHANGED <<shSet, shOwner, shFd, shSegs, shName>>
            /\ \/ /\ shPc[p] = "pool" /\ shPc' = [shPc EXCEPT ![p] = "freshpool"]
                  /\ shPoolName' = ShNone /\ shPool' = shPool
               \/ /\ shPc[p] = "freshpool" /\ shPc' = [shPc EXCEPT ![p] = "up"]
                  /\ shPoolName' = p /\ shPool' = [shPool EXCEPT ![p] = p]
        <5>1. CASE ShOpenPool(p)
          BY <2>0, <2>6, <5>1 DEF ShOpenPool, ShGo
        <5>2. CASE ShCreatePool(p)
          <6>1. shPc[p] = "freshpool" /\ shPoolName = ShNone
            BY <3>2, <5>2 DEF ShCreatePool, ShOwnerOf
          <6> QED BY <5>2, <6>1 DEF ShCreatePool, ShGo
        <5> QED BY <3>7, <5>1, <5>2
      <4> QED BY <1>0, <2>0, <2>6, <3>1, <3>2, <4>1, ShOwnerKeeps DEF ShOwnerOf, ShOthersSame,
                 ShTypes
    <3>8. CASE ShLeave(p)
      <4>1. /\ UNCHANGED <<shSet, shOwner, shFd, shPool, shSegs>>
            /\ \/ /\ shPc[p] = "up" /\ shPc' = [shPc EXCEPT ![p] = "leaving"]
                  /\ shPoolName' = ShNone /\ shName' = shName
               \/ /\ shPc[p] = "leaving" /\ shPc' = [shPc EXCEPT ![p] = "gone"]
                  /\ shPoolName' = shPoolName
        BY <2>6, <3>8 DEF ShLeave, ShRemove, ShBye, ShGo
      <4>2. ShOthersSame(p) /\ shPc'[p] \in {"leaving", "gone"} /\ (shPc'[p] = "leaving" => shPc[p] = "up" /\ shName' = shName)
        BY <1>0, <3>1, <4>1 DEF ShOthersSame, ShTypes
      <4>3. ShOwnerOf(p)'
        BY <3>1, <3>2, <4>1, <4>2 DEF ShOwnerOf
      <4>4. shPoolName' = ShNone
        BY <3>3, <4>1
      <4> QED BY <2>6, <3>2, <4>1, <4>2, <4>3, <4>4, ShOwnerKeeps
    <3> QED BY <2>6, <3>4, <3>5, <3>6, <3>7, <3>8
  <2> QED BY <2>0, <2>2, <2>3, <2>4, <2>5, <2>6 DEF ShStep
<1> QED BY <1>1, <1>2

\* Whoever is up uses constructed memory of one owner, and names go with their objects,
\* however many processes open, fail, leave and (for ShReady of owners) crash in whatever
\* order (Allocators.hpp:249-289, Context.hpp:667, 737).
THEOREM ShConstructed == ShSpec => []ShSafety
<1>1. ShInit => ShBaseInv /\ (ShOrderly => ShOrdered)
  <2> SUFFICES ASSUME ShInit PROVE ShBaseInv /\ (ShOrderly => ShOrdered)
    OBVIOUS
  <2>0. shSet \in ShSettings /\ shSet.own \in Seq({-1, 0, 1}) /\ ShProcs = 1..Len(shSet.own)
    BY ShSetting DEF ShInit
  <2>1. shOwner \in [ShProcs -> {-1, 0, 1}]
    BY <2>0 DEF ShInit
  <2>2. ShBaseInv
    BY <2>0, <2>1 DEF ShInit, ShBaseInv, ShTypes, ShOwn, ShOwnOf, ShPoints, ShOpening, ShAtPool,
       ShMaxTries, ShNone
  <2>3. ASSUME ShOrderly PROVE ShOrdered
    <3>1. \A p \in ShProcs : ~(shOwner[p] > 0)
      BY <2>1, <2>3 DEF ShOrderly, ShInit
    <3> QED BY <3>1 DEF ShInit, ShOrdered, ShOwners, ShCreators, ShAttached, ShUp
  <2> QED BY <2>2, <2>3
<1>2. ShBaseInv /\ (ShOrderly => ShOrdered) /\ [ShNext]_shVars => (ShBaseInv /\ (ShOrderly => ShOrdered))'
  <2> SUFFICES ASSUME ShBaseInv, (ShOrderly => ShOrdered), [ShNext]_shVars
               PROVE  ShBaseInv' /\ (ShOrderly => ShOrdered)'
    OBVIOUS
  <2>1. ShBaseInv'
    BY ShBaseStep
  <2>2. shSet' = shSet
    BY DEF ShNext, ShStep, ShWakes, ShBegin, ShCreate, ShAttach, ShSize, ShStat, ShLock, ShMake,
       ShOpenPool, ShCreatePool, ShLeave, ShCrash, shVars
  <2>3. ShOrderly' => ShOrderly
    BY <2>2 DEF ShOrderly, ShProcs
  <2> QED BY <2>1, <2>3, ShOrderStep
<1>3. ShBaseInv /\ (ShOrderly => ShOrdered) => ShSafety
  <2> SUFFICES ASSUME ShBaseInv, (ShOrderly => ShOrdered) PROVE ShSafety
    OBVIOUS
  <2>0. ShTypes /\ ShOwn
    BY DEF ShBaseInv
  <2>1. ShTypeOK
    BY <2>0 DEF ShTypes, ShOwn, ShOwnOf, ShTypeOK
  <2>2. ASSUME ShOrderly, NEW p \in ShProcs, ShUp(p), shOwner[p] <= 0
        PROVE  LET owner == shSegs[shFd[p]].by IN
               /\ shSegs[shFd[p]].sized /\ shSegs[shFd[p]].made
               /\ ShUp(owner) => shPool[p] = owner
    <3> DEFINE a == shSegs[shFd[p]].by
    <3>1. ShAttachedOf(p) /\ shFd[p] \in 1..Len(shSegs)
      BY <2>0, <2>2 DEF ShOrdered, ShAttached, ShUp, ShOwn, ShOwnOf, ShAtPool, ShTypes
    <3>2. shSegs[shFd[p]] \in ShSegment
      BY <2>0, <3>1 DEF ShTypes
    <3>3. a \in ShProcs /\ shOwner[a] > 0 /\ shFd[a] = shFd[p]
      BY <2>2, <3>1, <3>2 DEF ShOrdered, ShCreators, ShSegment
    <3>4. ShOwnerOf(a)
      BY <2>2, <3>3 DEF ShOrdered, ShOwners
    <3> QED BY <3>1, <3>3, <3>4 DEF ShOwnerOf, ShAttachedOf, ShUp
  <2>3. ASSUME NEW p \in ShProcs, ShUp(p), shOwner[p] > 0
        PROVE  /\ shSegs[shFd[p]].sized /\ shSegs[shFd[p]].made
               /\ ShOrderly => /\ shName = shFd[p] /\ shPoolName = p /\ shPool[p] = p
                               /\ shSegs[shFd[p]].by = p
    <3>1. shSegs[shFd[p]].sized /\ shSegs[shFd[p]].made
      BY <2>0, <2>3 DEF ShOwn, ShOwnOf, ShUp, ShAtPool
    <3>2. ASSUME ShOrderly PROVE ShOwnerOf(p)
      BY <2>3, <3>2 DEF ShOrdered, ShOwners
    <3> QED BY <2>3, <3>1, <3>2 DEF ShOwnerOf, ShUp
  <2>4. ASSUME NEW p \in ShProcs PROVE shOwner[p] <= 0 \/ shOwner[p] > 0
    <3>1. shOwner[p] \in {-1, 0, 1}
      BY <2>0 DEF ShTypes
    <3> QED BY <3>1
  <2>5. ShReady /\ ShNamesKept
    BY <2>2, <2>3, <2>4 DEF ShReady, ShNamesKept
  <2>6. ShTogether
    BY <2>2, <2>3, <2>4 DEF ShTogether
  <2> QED BY <2>1, <2>5, <2>6 DEF ShSafety
<1> QED BY <1>1, <1>2, <1>3, PTL DEF ShSpec
================================================================================
