-------------------------------- MODULE SeqArb --------------------------------
(***************************************************************************)
(* The sequence arbiter (pattern/SeqArb.hpp): participants present the       *)
(* numbers of their feeds, each feed increasing and with holes, and of every *)
(* number the first to present it gets a hit; a number that every feed has   *)
(* passed is reported as a gap.  A participant presents its number again     *)
(* until the arbiter has decided it.  SingleThreadSeqArb is the setting in   *)
(* which no two calls overlap: one thread serves the feeds in turn.          *)
(*                                                                           *)
(* A step is one access to shared memory.  j_ is plain memory that one       *)
(* participant writes and others read, one entry at a time.  Not modelled:   *)
(* the call for a batch, which nothing uses.                                 *)
(***************************************************************************)
EXTENDS Integers, Sequences, FiniteSets, FiniteSetsExt, SequencesExt

\* feeds: of each participant, all with the same last number; start: startSeq;
\* single: calls do not overlap.
CONSTANT SaSettings

ASSUME SaAssumption ==
  \A s \in SaSettings :
    /\ s.start \in Nat /\ s.single \in BOOLEAN
    /\ s.feeds \in Seq(Seq(Nat)) /\ Len(s.feeds) <= 3
    /\ \A p \in DOMAIN s.feeds :
         /\ s.feeds[p] # <<>> /\ Last(s.feeds[p]) = Last(s.feeds[1])
         /\ \A i \in 2..Len(s.feeds[p]) : s.feeds[p][i - 1] < s.feeds[p][i]

VARIABLES
  saSet,    \* the setting explored, chosen once
  saTurn,   \* the feed a single thread served last, 0 when each has its own
  saAt,     \* position of each participant in its feed
  saPc,     \* its step: "call", "swap", "hit", "low", "again", "gap"
  saOld,    \* old: what seq_ was
  saLow,    \* low, and the number of entries of j_ read into it
  saSeq,    \* seq_, SaBusy while a hit or gap function runs
  saJ,      \* j_
  saHits,   \* ghost: numbers hit, in order
  saGaps    \* ghost: numbers reported in gaps, in order

saLocal == <<saAt, saPc, saOld, saLow>>
saVars == <<saSet, saTurn, saLocal, saSeq, saJ, saHits, saGaps>>

\* numeric_limits<Seq>::max()
SaBusy == -1
SaParts == DOMAIN saSet.feeds
SaFed(p) == saAt[p] <= Len(saSet.feeds[p])
SaNumber(p) == saSet.feeds[p][saAt[p]]

-----------------------------------------------------------------------------
SaTo(p, pc) == saPc' = [saPc EXCEPT ![p] = pc]
\* A single thread serves the feeds that have something in turn.
SaNextTurn(p) ==
  LET after == {q \in SaParts : q > p /\ SaFed(q)} fed == {q \in SaParts : SaFed(q)}
  IN  IF after # {} THEN Min(after) ELSE IF fed # {} THEN Min(fed) ELSE p
SaMayCall(p) ==
  SaFed(p) /\ (saSet.single => p = SaNextTurn(saTurn) /\ \A q \in SaParts : saPc[q] = "call")

SaCall(p) ==
  /\ saPc[p] = "call" /\ SaMayCall(p)
  /\ saJ' = [saJ EXCEPT ![p] = SaNumber(p)]
  /\ SaTo(p, "swap") /\ saTurn' = IF saSet.single THEN p ELSE 0
  /\ UNCHANGED <<saSet, saAt, saOld, saLow, saSeq, saHits, saGaps>>

\* The call returns: true when the number is decided, false to be asked later.
SaReturns(p, decided) ==
  /\ SaTo(p, "call")
  /\ saAt' = IF decided THEN [saAt EXCEPT ![p] = @ + 1] ELSE saAt
  /\ saOld' = [saOld EXCEPT ![p] = 0] /\ saLow' = [saLow EXCEPT ![p] = <<0, 0>>]

SaDecided(seq, old) == seq < old
SaSwap(p) ==
  LET seq == SaNumber(p) IN
  /\ saPc[p] = "swap"
  /\ \/ /\ saSeq = seq
        /\ saSeq' = SaBusy /\ SaTo(p, "hit") /\ UNCHANGED <<saAt, saOld, saLow>>
     \/ /\ saSeq = SaBusy
        /\ SaReturns(p, FALSE) /\ UNCHANGED saSeq
     \/ /\ saSeq \notin {seq, SaBusy} /\ SaDecided(seq, saSeq)
        /\ SaReturns(p, TRUE) /\ UNCHANGED saSeq
     \/ /\ saSeq \notin {seq, SaBusy} /\ ~SaDecided(seq, saSeq)
        /\ SaTo(p, "low") /\ saOld' = [saOld EXCEPT ![p] = saSeq]
        /\ UNCHANGED <<saAt, saLow, saSeq>>
  /\ UNCHANGED <<saSet, saTurn, saJ, saHits, saGaps>>

SaAfter(seq) == seq + 1
SaHit(p) ==
  /\ saPc[p] = "hit"
  /\ saHits' = Append(saHits, SaNumber(p)) /\ saSeq' = SaAfter(SaNumber(p))
  /\ SaReturns(p, TRUE)
  /\ UNCHANGED <<saSet, saTurn, saJ, saGaps>>

\* Mutant of SaLower: the last entry read.
SaLowerLast(low, j) == j
\* jLow reads the entries of j_ one after the other.
SaLower(low, j) == IF low > j THEN j ELSE low
SaReadLow(p) ==
  LET n == saLow[p][2] IN
  /\ saPc[p] = "low" /\ n < Cardinality(SaParts)
  /\ saLow' = [saLow EXCEPT ![p] =
                 <<IF n = 0 THEN saJ[1] ELSE SaLower(@[1], saJ[n + 1]), n + 1>>]
  /\ UNCHANGED <<saSet, saTurn, saAt, saPc, saOld, saSeq, saJ, saHits, saGaps>>

\* seq_ is read, then swapped: a gap is reported if it is still what it was.
SaStillOld(p) == saSeq = saOld[p]
SaCheck(p) ==
  /\ saPc[p] = "low" /\ saLow[p][2] = Cardinality(SaParts)
  /\ IF saLow[p][1] > saOld[p] /\ SaStillOld(p)
     THEN SaTo(p, "again") /\ UNCHANGED <<saAt, saOld, saLow>>
     ELSE SaReturns(p, FALSE)
  /\ UNCHANGED <<saSet, saTurn, saSeq, saJ, saHits, saGaps>>
SaSwapAgain(p) ==
  /\ saPc[p] = "again"
  /\ IF SaStillOld(p)
     THEN saSeq' = SaBusy /\ SaTo(p, "gap") /\ UNCHANGED <<saAt, saOld, saLow>>
     ELSE SaReturns(p, FALSE) /\ UNCHANGED saSeq
  /\ UNCHANGED <<saSet, saTurn, saJ, saHits, saGaps>>
SaGapEnd(low) == low
SaGap(p) ==
  LET low == saLow[p][1] IN
  /\ saPc[p] = "gap"
  /\ saGaps' = saGaps \o [i \in 1..(low - saOld[p]) |-> saOld[p] + i - 1]
  /\ saSeq' = SaGapEnd(low)
  /\ SaReturns(p, FALSE)
  /\ UNCHANGED <<saSet, saTurn, saJ, saHits>>

-----------------------------------------------------------------------------
SaInit ==
  /\ saSet \in SaSettings /\ saSeq = saSet.start
  /\ saTurn = 0 /\ saAt = [p \in SaParts |-> 1] /\ saPc = [p \in SaParts |-> "call"]
  /\ saOld = [p \in SaParts |-> 0] /\ saLow = [p \in SaParts |-> <<0, 0>>]
  /\ saJ = [p \in SaParts |-> 0] /\ saHits = <<>> /\ saGaps = <<>>

SaStep(p) ==
  SaCall(p) \/ SaSwap(p) \/ SaHit(p) \/ SaReadLow(p) \/ SaCheck(p) \/ SaSwapAgain(p) \/ SaGap(p)
SaNext == \E p \in SaParts : SaStep(p)

\* Every participant goes on with its feed.
SaFairness == \A p \in 1..3 : WF_saVars(p \in SaParts /\ SaStep(p))
SaSpec == SaInit /\ [][SaNext]_saVars /\ SaFairness

-----------------------------------------------------------------------------
SaLast == IF saSet.feeds = <<>> THEN 0 ELSE Last(saSet.feeds[1])
SaFeedNumbers == UNION {Range(saSet.feeds[p]) : p \in SaParts}

\* Type correctness: the number expected never goes back behind the first one, nor beyond
\* the end of the feeds.
SaEnd == IF saSet.start > SaLast THEN saSet.start ELSE SaLast + 1
SaTypeOK ==
  /\ saSeq \in {SaBusy} \cup saSet.start..SaEnd
  /\ \A p \in SaParts : /\ saAt[p] \in 1..(Len(saSet.feeds[p]) + 1)
                        /\ saPc[p] \in {"call", "swap", "hit", "low", "again", "gap"}
                        /\ saLow[p][2] \in 0..Cardinality(SaParts)

\* Every number is hit once and in order, however the participants race for it
\* (SeqArb.hpp:69).
SaOnceInOrder == \A i \in 2..Len(saHits) : saHits[i - 1] < saHits[i]

\* A number reported as missing is in no feed, although the entries of j_ are read one
\* after the other while they and seq_ move on (SeqArb.hpp:81-83).
SaNoFalseGap == Range(saGaps) \cap SaFeedNumbers = {}

\* Nothing is skipped silently, and nothing is reported that may still be hit: the
\* numbers below the one expected are the ones hit and the ones reported, each once
\* (SeqArb.hpp:74, 86).
SaAccounted ==
  saSeq # SaBusy =>
    /\ Range(saHits) \cup Range(saGaps) = saSet.start..(saSeq - 1)
    /\ Len(saHits) + Len(saGaps) = saSeq - saSet.start

\* While every feed goes on, no participant is asked to wait for ever, and all numbers
\* that some feed has are hit.
SaAllDecided ==
  /\ \A p \in SaParts : ~SaFed(p)
  /\ SaFeedNumbers \subseteq Range(saHits) \cup 0..(saSet.start - 1)

\* What the arbiters keep true: each number is used once and in order, a gap is reported
\* only when no feed can fill it.
SaSafety == SaTypeOK /\ SaOnceInOrder /\ SaNoFalseGap /\ SaAccounted

\* Where asking again and again leads to in the end.
SaSettled == SaAllDecided
=============================================================================
