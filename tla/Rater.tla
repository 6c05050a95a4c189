-------------------------------- MODULE Rater --------------------------------
(***************************************************************************)
(* The rate limiter of the transports (time/Rater.hpp): a level of credit   *)
(* that grows with the time between two checks up to a bucket.  A transport *)
(* checks whether it may send n bytes and, once they are sent, commits; the *)
(* resending of the reliable transports checks and commits without looking  *)
(* at the answer (BackupSendSessionT.hpp:196).  Levels are in ticks of the  *)
(* clock: a byte costs drop_ ticks.                                         *)
(*                                                                          *)
(* The clock is far from 0 when the Rater is made, as a system clock is.     *)
(***************************************************************************)
EXTENDS Integers, Sequences, SequencesExt

CONSTANTS
  RaDrop,     \* drop_: ticks per byte
  RaBurst,    \* bytes that may be sent at once
  RaSizes,    \* bytes of the packets
  RaMaxTimes, \* bounds: ticks that may go by; with 0, nothing is sent
  RaMaxForced \* bound: resends
ASSUME RaAssumption ==
  /\ RaDrop \in Nat \ {0} /\ RaBurst \in Nat \ {0} /\ RaMaxTimes \subseteq Nat
  /\ RaSizes \subseteq 1..RaBurst /\ RaMaxForced \in Nat

VARIABLES
  raEnd,    \* when the clock stops, chosen once
  raNow,    \* the clock
  raLevel,  \* currentLevel_
  raPrev,   \* previousCheck_
  raN,      \* n_: bytes of the last check, 0 when nothing is to be sent
  raPc,     \* "idle", "asking", "passed", "refused", "resending"
  raSent    \* ghost: size and time of check of every packet, and whether it was forced
raVars == <<raEnd, raNow, raLevel, raPrev, raN, raPc, raSent>>

RaBucket == RaDrop * RaBurst
RaStart == RaBucket + 1
RaForced == Len(SelectSeq(raSent, LAMBDA p : p.forced))

RaTick ==
  /\ raNow < raEnd
  /\ raNow' = raNow + 1
  /\ UNCHANGED <<raEnd, raLevel, raPrev, raN, raPc, raSent>>

\* The level of a check: what it was and the time since the last check, at most
\* the bucket.
RaRefilled == IF raLevel + (raNow - raPrev) > RaBucket THEN RaBucket
              ELSE raLevel + (raNow - raPrev)
RaEnough(level, n) == level >= RaDrop * n

\* Bound: nothing new is asked when the clock could end before it is answered.
RaEarly == raNow + (RaMaxForced + 1) * RaBucket <= raEnd

\* A packet is to be sent, or bytes resent.
RaAsk(n) ==
  /\ raPc = "idle" /\ RaEarly
  /\ raN' = n /\ raPc' = "asking"
  /\ UNCHANGED <<raEnd, raNow, raLevel, raPrev, raSent>>
RaResend(n) ==
  /\ raPc = "idle" /\ RaEarly /\ RaForced < RaMaxForced
  /\ raN' = n /\ raPc' = "resending"
  /\ raLevel' = RaRefilled /\ raPrev' = raNow
  /\ UNCHANGED <<raEnd, raNow, raSent>>

RaCheck ==
  /\ raPc = "asking"
  /\ raLevel' = RaRefilled /\ raPrev' = raNow
  /\ raPc' = IF RaEnough(RaRefilled, raN) THEN "passed" ELSE "refused"
  /\ UNCHANGED <<raEnd, raNow, raN, raSent>>

\* What was refused, or passed and no longer fits into the batch, is checked again later.
RaAgain ==
  /\ raPc = "refused" /\ raNow > raPrev
  /\ raPc' = "asking"
  /\ UNCHANGED <<raEnd, raNow, raLevel, raPrev, raN, raSent>>
RaNoRoom ==
  /\ raPc = "passed" /\ raNow > raPrev
  /\ raPc' = "asking"
  /\ UNCHANGED <<raEnd, raNow, raLevel, raPrev, raN, raSent>>

\* Mutant of RaCost: one drop whatever the size.
RaCostNot(n) == RaDrop
RaCost(n) == RaDrop * n
RaCommit ==
  /\ raPc \in {"passed", "resending"}
  /\ raLevel' = raLevel - RaCost(raN)
  /\ raSent' = Append(raSent, [n |-> raN, at |-> raPrev, forced |-> raPc = "resending"])
  /\ raPc' = "idle" /\ raN' = 0
  /\ UNCHANGED <<raEnd, raNow, raPrev>>

RaInit ==
  /\ raEnd \in {RaStart + t : t \in RaMaxTimes}
  /\ raNow = RaStart /\ raLevel = RaBucket /\ raPrev = 0 /\ raN = 0 /\ raPc = "idle"
  /\ raSent = <<>>
RaAsks == \E n \in RaSizes : RaAsk(n) \/ RaResend(n)
RaNext == RaTick \/ RaAsks \/ RaCheck \/ RaAgain \/ RaNoRoom \/ RaCommit
\* Time goes by and the thread of the transport goes round; a batch that is full is
\* sent, and what did not fit is the first of the next.
RaFairness == WF_raVars(RaTick) /\ WF_raVars(RaCheck \/ RaAgain) /\ WF_raVars(RaCommit)
RaSpec == RaInit /\ [][RaNext]_raVars /\ RaFairness

-----------------------------------------------------------------------------
RaSince(i) == FoldLeft(LAMBDA sum, p : sum + p.n, 0, SubSeq(raSent, i, Len(raSent)))

\* Type correctness: credit never exceeds the bucket, and only resends make it
\* negative.
RaTypeOK ==
  /\ raNow \in RaStart..raEnd /\ raPrev \in {0} \cup RaStart..raNow
  /\ raLevel <= RaBucket /\ (raLevel < 0 => RaForced > 0)
  /\ raPc \in {"idle", "asking", "passed", "refused", "resending"}
  /\ raN \in RaSizes \cup {0} /\ \A i \in DOMAIN raSent : raSent[i].n \in RaSizes

\* What a token bucket allows: from every packet on, the bytes sent since and
\* those to send cost no more than the bucket and the time gone by.
RaAllowed(n) ==
  \A i \in DOMAIN raSent :
    RaDrop * (RaSince(i) + n) <= RaBucket + (raPrev - raSent[i].at)

\* A check passes exactly when the rate and the burst allow it, over every window
\* of the past, though checks, full batches, idle times and resends fall in any
\* order; no credit is lost or made (Rater.hpp:29-42).
RaExact ==
  /\ raPc = "passed" => RaAllowed(raN)
  /\ raPc = "refused" => ~RaAllowed(raN)

\* A packet no larger than the burst is sent in the end, even after resends that
\* left the level negative.
RaPasses == raPc = "idle"

\* What Rater keeps true of its level.
RaSafety == RaTypeOK /\ RaExact

\* Where asking leads to in the end.
RaSettled == RaPasses
=============================================================================
