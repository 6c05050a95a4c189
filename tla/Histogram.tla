------------------------------ MODULE Histogram ------------------------------
(***************************************************************************)
(* The histograms of numeric/StatHistogram.hpp: samples are counted in      *)
(* buckets, histograms of the same thresholds are merged with +=, and       *)
(* report() reads percentiles off the buckets in one pass.  The detailed    *)
(* kind keeps a bucket for every value below its threshold and one for the  *)
(* rest; the coarse kind keeps count + 1 buckets of equal width.  Samples   *)
(* are integers; sums stay below what a float holds exactly.                *)
(*                                                                          *)
(* A coarse histogram whose width is no multiple of its count writes past   *)
(* its last bucket (StatHistogram.hpp:153): the settings of the runs keep   *)
(* to widths that are.                                                      *)
(***************************************************************************)
EXTENDS Integers, Sequences, FiniteSets, FiniteSetsExt, SequencesExt, Functions

CONSTANTS
  HiSamples,     \* the values added
  HiPercentages, \* what report() is asked for
  HiMaxAdded,    \* bound: samples of a histogram
  HiSettings     \* records: kind, "detailed", "coarse" or "none"; low and
                 \* high, the thresholds; count, the buckets of a coarse one
ASSUME HiAssumption ==
  /\ HiSamples \subseteq Nat /\ HiMaxAdded \in Nat
  /\ Len(HiPercentages) > 1 /\ \A i \in DOMAIN HiPercentages : HiPercentages[i] \in 0..100
  /\ \A i \in 2..Len(HiPercentages) : HiPercentages[i - 1] <= HiPercentages[i]
  /\ \A s \in HiSettings : /\ s.kind \in {"detailed", "coarse", "none"}
                           /\ s.low \in Nat /\ s.high \in Nat /\ s.count \in Nat \ {0}
                           /\ s.kind = "coarse" => s.low < s.high

VARIABLES
  hiSet,   \* the setting, chosen once
  hiHist,  \* the histograms: buckets_, best_, worst_ and sampleSize_
  hiAdded  \* ghost: how often each sample is in each histogram
hiVars == <<hiSet, hiHist, hiAdded>>

HiNames == {"a", "b"}
HiLowest == -1
HiHighest == Max(HiSamples) + 1
HiUnit == (hiSet.high - hiSet.low) \div hiSet.count
HiKeys == IF hiSet.kind = "coarse" THEN 0..hiSet.count ELSE HiSamples \cup {hiSet.high}
HiEmpty(s) == [buckets |-> [k \in IF s.kind = "coarse" THEN 0..s.count ELSE HiSamples \cup {s.high}
                              |-> 0],
               best |-> HiHighest, worst |-> HiLowest, size |-> 0]

HiLarger(a, b) == IF a > b THEN a ELSE b
HiSmaller(a, b) == IF a < b THEN a ELSE b

\* The bucket of a sample.
HiCoarseKey(s) == IF s < hiSet.low THEN 0
                  ELSE IF s < hiSet.high THEN (s - hiSet.low) \div HiUnit
                  ELSE hiSet.count
HiDetailedKey(s) == IF s < hiSet.high THEN s ELSE hiSet.high

HiAdd(h, s) ==
  LET key == IF hiSet.kind = "coarse" THEN HiCoarseKey(s) ELSE HiDetailedKey(s) IN
  /\ hiSet.kind # "none" /\ hiHist[h].size < HiMaxAdded
  /\ hiHist' = [hiHist EXCEPT ![h].size = @ + 1, ![h].buckets[key] = @ + 1,
                              ![h].worst = HiLarger(s, @), ![h].best = HiSmaller(s, @)]
  /\ hiAdded' = [hiAdded EXCEPT ![h][s] = @ + 1]
  /\ UNCHANGED hiSet

\* g += h, which may be g itself.
HiMerged(g, h) == [buckets |-> [k \in HiKeys |-> g.buckets[k] + h.buckets[k]],
                   best |-> HiSmaller(g.best, h.best), worst |-> HiLarger(g.worst, h.worst),
                   size |-> g.size + h.size]
HiMerge(g, h) ==
  /\ hiHist[g].size + hiHist[h].size <= HiMaxAdded /\ hiHist[h].size > 0
  /\ hiHist' = [hiHist EXCEPT ![g] = HiMerged(hiHist[g], hiHist[h])]
  /\ hiAdded' = [hiAdded EXCEPT ![g] = [s \in HiSamples |-> hiAdded[g][s] + hiAdded[h][s]]]
  /\ UNCHANGED hiSet

\* Mutant of HiReached: only beyond the percentage.
HiReachedOver(count, i, size) == count * 100 > HiPercentages[i] * size
\* report(): one pass over the buckets, value being what is read off each;
\* perIndex is the next percentage.
HiReached(count, i, size) == count * 100 >= HiPercentages[i] * size
HiPass(value, h) ==
  LET last == Len(HiPercentages)
      visit(acc, k) ==
        LET count == acc.count + h.buckets[k]
            next == Min({i \in acc.perIndex..last : i = last \/ ~HiReached(count, i, h.size)})
        IN  [count |-> count, perIndex |-> next,
             p |-> [i \in 1..last |-> IF i \in acc.perIndex..(next - 1) THEN value[k] ELSE acc.p[i]]]
  IN  FoldLeft(visit, [count |-> 0, perIndex |-> 2,
                       p |-> [i \in 1..last |-> IF i = last THEN h.worst ELSE 0]],
               SetToSortSeq(DOMAIN value, <)).p

HiDetailedReport(h) ==
  LET keys == {k \in HiKeys : h.buckets[k] > 0}
  IN  [HiPass([k \in keys |-> k], h) EXCEPT ![1] = Min(keys)]
HiEdge(k) == hiSet.low + (k + 1) * HiUnit
HiCoarseReport(h) ==
  [HiPass([k \in HiKeys |-> HiSmaller(HiEdge(k), h.worst)], h) EXCEPT ![1] = h.best]

-----------------------------------------------------------------------------
HiInit ==
  /\ hiSet \in HiSettings
  /\ hiHist = [h \in HiNames |-> HiEmpty(hiSet)]
  /\ hiAdded = [h \in HiNames |-> [s \in HiSamples |-> 0]]
HiNext ==
  \/ \E h \in HiNames, s \in HiSamples : HiAdd(h, s)
  \/ \E g, h \in HiNames : HiMerge(g, h)
HiSpec == HiInit /\ [][HiNext]_hiVars

-----------------------------------------------------------------------------
\* The samples of a histogram of which p percent are no larger: the definition
\* report() is held against.
HiUpTo(h, v) == MapThenSumSet(LAMBDA s : hiAdded[h][s], {s \in HiSamples : s <= v})
HiTotal(h) == HiUpTo(h, Max(HiSamples))
HiPresent(h) == {s \in HiSamples : hiAdded[h][s] > 0}
HiQuantile(h, p) == Min({s \in HiPresent(h) : HiUpTo(h, s) * 100 >= p * HiTotal(h)})

\* Whatever was added and merged, the counts of the buckets add up to the
\* sample size and nothing falls outside the buckets (StatHistogram.hpp:52-81
\* and 147-188).
HiTypeOK ==
  /\ hiSet \in HiSettings
  /\ \A h \in HiNames :
       /\ DOMAIN hiHist[h].buckets = HiKeys
       /\ hiHist[h].size = MapThenSumSet(LAMBDA k : hiHist[h].buckets[k], HiKeys)

\* report() of a detailed histogram, also of one that was merged, gives the
\* least and the greatest sample and, between, the exact percentiles, those
\* beyond the threshold as the threshold (StatHistogram.hpp:83-105).
HiExact ==
  \A h \in HiNames : hiSet.kind = "detailed" /\ hiHist[h].size > 0 =>
    LET p == HiDetailedReport(hiHist[h])
        last == Len(HiPercentages)
    IN  /\ p[1] = HiSmaller(Min(HiPresent(h)), hiSet.high)
        /\ p[last] = Max(HiPresent(h))
        /\ \A i \in 2..(last - 1) :
             p[i] = HiSmaller(HiQuantile(h, HiPercentages[i]), hiSet.high)

\* report() of a coarse histogram never understates a percentile below the
\* upper threshold and overstates it by at most the width of a bucket; beyond
\* the threshold it stays between the threshold and the worst sample
\* (StatHistogram.hpp:190-215).
HiClose ==
  \A h \in HiNames : hiSet.kind = "coarse" /\ hiHist[h].size > 0 =>
    LET r == HiCoarseReport(hiHist[h])
        last == Len(HiPercentages)
    IN  /\ r[1] = Min(HiPresent(h)) /\ r[last] = Max(HiPresent(h))
        /\ \A i \in 2..(last - 1) :
             LET q == HiQuantile(h, HiPercentages[i]) IN
             CASE q < hiSet.low -> r[i] >= q /\ r[i] <= hiSet.low + HiUnit
               [] q >= hiSet.high -> r[i] >= hiSet.high /\ r[i] <= Max(HiPresent(h))
               [] OTHER -> r[i] >= q /\ r[i] <= q + HiUnit

\* What the histograms report: exact percentiles when detailed, within a bucket when coarse.
HiSafety == HiTypeOK /\ HiExact /\ HiClose
=============================================================================
