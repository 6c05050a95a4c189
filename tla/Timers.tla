------------------------------- MODULE Timers -------------------------------
(***************************************************************************)
(* TimerManager and its timers (time/Timers.hpp), and the wait of a         *)
(* BlockingContext for the next of them (waitDuration).  Timers are linked  *)
(* in an intrusive multiset by firing time.  checkTimers first fires those  *)
(* that are due, unlinking none of them, and goes back to the first one     *)
(* after each callback, which may schedule and cancel timers or throw; then *)
(* it unlinks the fired ones and lets each put itself back.                 *)
(*                                                                          *)
(* Time is a number of ticks.  Assumed, as Timers.hpp asks: schedule() is   *)
(* given a timer that is not linked.  A timer that puts itself back for the *)
(* very instant being checked (an interval of 0, or a DailyTimer whose next *)
(* day is exactly now) is left out: the second loop then moves its iterator *)
(* twice, past the end.                                                     *)
(***************************************************************************)
EXTENDS Integers, Sequences, FiniteSets, FiniteSetsExt, SequencesExt

CONSTANTS
  TmTimers,     \* the timers of one TimerManager
  TmMaxTime,    \* bound: ticks
  TmDay,        \* ticks in a day
  TmSettings    \* kinds of timers, their callbacks, who schedules them: see TmAssumption

TmNever == -1
TmKinds == {"once", "every", "daily"}
\* kind, interval of an "every" timer; order, first: the timers scheduled at
\* first and when they fire; does: what its callback does, to which timer; cancels,
\* again: timers the user may cancel, and schedule when they are not linked;
\* throws: how often callbacks throw; blocks: the thread waits for the next
\* timer (BlockingContext) or polls (Context).
ASSUME TmAssumption ==
  /\ TmMaxTime \in Nat /\ TmDay \in Nat \ {0}
  /\ \A s \in TmSettings :
       /\ s.kind \in [TmTimers -> TmKinds] /\ s.interval \in [TmTimers -> Nat \ {0}]
       /\ s.first \in [TmTimers -> TmNever..TmMaxTime] /\ s.order \in Seq(TmTimers)
       /\ s.does \in [TmTimers -> {"nothing", "cancel", "schedule", "throw"}]
       /\ s.to \in [TmTimers -> TmTimers] /\ s.throws \in Nat
       /\ s.again \subseteq TmTimers
       /\ s.cancels \subseteq TmTimers /\ s.blocks \in BOOLEAN

VARIABLES
  tmSet,    \* the setting explored, chosen once
  tmNow,    \* the time
  tmQ,      \* timers_: the linked timers, in order of firing time
  tmAt,     \* fireAt_
  tmArmed,  \* timers that are armed
  tmPc,     \* "idle", "firing" (first loop), "again" (second loop), "waiting"
  tmCheck,  \* the time checkTimers was called with
  tmIt,     \* the iterator of the second loop
  tmWake,   \* when the wait ends
  tmThrown, \* exceptions so far
  tmOwed    \* ghost: when each timer has to fire next

tmVars == <<tmSet, tmNow, tmQ, tmAt, tmArmed, tmPc, tmCheck, tmIt, tmWake, tmThrown, tmOwed>>
tmTimers == <<tmQ, tmAt, tmArmed>>

TmLinked(t) == t \in ToSet(tmQ)
TmEnd == "end"      \* timers_.end()

\* multiset::insert: after the timers of the same time.
TmInsert(q, at, t) ==
  LET n == Cardinality({k \in DOMAIN q : at[q[k]] <= at[t]})
  IN InsertAt(q, n + 1, t)
TmErase(q, t) == SelectSeq(q, LAMBDA u : u # t)

-----------------------------------------------------------------------------
(* schedule, cancel.                                                        *)

\* The user schedules a timer between two checks.
TmSchedule(t) ==
  LET at == [tmAt EXCEPT ![t] = tmNow + tmSet.interval[t]] IN
  /\ tmPc = "idle" /\ t \in tmSet.again /\ ~TmLinked(t)
  /\ tmAt' = at /\ tmQ' = TmInsert(tmQ, at, t) /\ tmArmed' = tmArmed \cup {t}
  /\ tmOwed' = [tmOwed EXCEPT ![t] = at[t]]
  /\ UNCHANGED <<tmSet, tmNow, tmPc, tmCheck, tmIt, tmWake, tmThrown>>

\* The user cancels a timer between two checks.
TmCancel(t) ==
  /\ tmPc = "idle" /\ t \in tmSet.cancels /\ TmLinked(t)
  /\ tmQ' = TmErase(tmQ, t) /\ tmArmed' = tmArmed \ {t}
  /\ tmOwed' = [tmOwed EXCEPT ![t] = TmNever]
  /\ UNCHANGED <<tmSet, tmNow, tmAt, tmPc, tmCheck, tmIt, tmWake, tmThrown>>

-----------------------------------------------------------------------------
(* checkTimers.                                                             *)

\* Not exactly a number of days after a daily timer (see above).
TmNotDaysLate(t) ==
  (tmSet.kind[t] = "daily" /\ TmLinked(t) /\ tmAt[t] < tmNow) => (tmNow - tmAt[t]) % TmDay # 0

TmBegin ==
  /\ tmPc = "idle" /\ tmSet.order # <<>>
  /\ \A t \in TmTimers : TmNotDaysLate(t)
  /\ tmPc' = "firing" /\ tmCheck' = tmNow
  /\ UNCHANGED <<tmSet, tmNow, tmTimers, tmIt, tmWake, tmThrown, tmOwed>>

\* The first loop stops at the first linked timer that is not due, and passes
\* over those that have fired.
TmDue == {k \in DOMAIN tmQ : tmAt[tmQ[k]] <= tmCheck /\ tmQ[k] \in tmArmed}

\* When a timer that has fired fires again.
TmNextDay(t) ==
  LET n == CHOOSE k \in 1..TmMaxTime + 1 :
             /\ tmAt[t] + k * TmDay >= tmCheck
             /\ k > 1 => tmAt[t] + (k - 1) * TmDay < tmCheck
  IN tmAt[t] + n * TmDay
TmNext(t) ==
  CASE tmSet.kind[t] = "once" -> TmNever
    [] tmSet.kind[t] = "every" -> tmCheck + tmSet.interval[t]
    [] tmSet.kind[t] = "daily" -> TmNextDay(t)

\* Mutant of TmDisarmed: a cancelled timer stays armed.
TmDisarmedNot(t) == tmArmed
TmDisarmed(t) == tmArmed \ {t}

\* What is owed after a timer fired and its callback cancelled some.
TmOwedAfter(t, gone) ==
  [u \in TmTimers |-> IF u \in gone THEN TmNever ELSE IF u = t THEN TmNext(t) ELSE tmOwed[u]]

TmFire ==
  /\ tmPc = "firing" /\ TmDue # {}
  /\ LET t == tmQ[Min(TmDue)]
         u == tmSet.to[t]
         does == tmSet.does[t]
     IN
     \/ /\ does = "nothing" \/ (does = "throw" /\ tmThrown = tmSet.throws)
                            \/ (does = "schedule" /\ TmLinked(u))
        /\ tmArmed' = TmDisarmed(t) /\ tmOwed' = TmOwedAfter(t, {})
        /\ UNCHANGED <<tmQ, tmAt, tmPc, tmThrown>>
     \/ /\ does = "cancel"
        /\ tmArmed' = TmDisarmed(t) \ {u} /\ tmQ' = TmErase(tmQ, u)
        /\ tmOwed' = TmOwedAfter(t, {u})
        /\ UNCHANGED <<tmAt, tmPc, tmThrown>>
     \/ LET at == [tmAt EXCEPT ![u] = tmCheck + tmSet.interval[u]] IN
        /\ does = "schedule" /\ ~TmLinked(u)
        /\ tmAt' = at /\ tmQ' = TmInsert(tmQ, at, u) /\ tmArmed' = TmDisarmed(t) \cup {u}
        /\ tmOwed' = [TmOwedAfter(t, {}) EXCEPT ![u] = at[u]]
        /\ UNCHANGED <<tmPc, tmThrown>>
     \/ \* the exception leaves checkTimers; its client is put back
        /\ does = "throw" /\ tmThrown < tmSet.throws
        /\ tmArmed' = TmDisarmed(t) /\ tmOwed' = TmOwedAfter(t, {})
        /\ tmPc' = "idle" /\ tmThrown' = tmThrown + 1
        /\ UNCHANGED <<tmQ, tmAt>>
  /\ UNCHANGED <<tmSet, tmNow, tmCheck, tmIt, tmWake>>

TmSecondLoop ==
  /\ tmPc = "firing" /\ TmDue = {}
  /\ tmPc' = "again" /\ tmIt' = IF tmQ = <<>> THEN TmEnd ELSE Head(tmQ)
  /\ UNCHANGED <<tmSet, tmNow, tmTimers, tmCheck, tmWake, tmThrown, tmOwed>>

TmAfter(t) ==
  LET k == CHOOSE n \in DOMAIN tmQ : tmQ[n] = t
  IN IF k = Len(tmQ) THEN TmEnd ELSE tmQ[k + 1]

TmInLoop == tmPc = "again" /\ tmIt # TmEnd /\ tmAt[tmIt] <= tmCheck

\* Mutant of TmRearmed: the timer is linked and not armed.
TmRearmedNot(t) == tmArmed
TmRearmed(t) == tmArmed \cup {t}

\* A timer that has fired is unlinked and puts itself back.
TmReschedule ==
  /\ TmInLoop /\ tmIt \notin tmArmed
  /\ LET q == TmErase(tmQ, tmIt)
         at == [tmAt EXCEPT ![tmIt] = TmNext(tmIt)]
     IN IF TmNext(tmIt) = TmNever
        THEN tmQ' = q /\ UNCHANGED <<tmAt, tmArmed>>
        ELSE /\ tmAt' = at /\ tmQ' = TmInsert(q, at, tmIt)
             /\ tmArmed' = TmRearmed(tmIt)
  /\ tmIt' = TmAfter(tmIt)
  /\ UNCHANGED <<tmSet, tmNow, tmPc, tmCheck, tmWake, tmThrown, tmOwed>>

\* untilNextFire: the first linked timer, never a negative time.
TmUntilNext ==
  IF tmQ = <<>> THEN TmMaxTime ELSE Max({0, tmAt[Head(tmQ)] - tmNow})

TmCheckEnds ==
  /\ tmPc = "again" /\ ~TmInLoop
  /\ tmPc' = "waiting"
  /\ tmWake' = tmNow + IF tmSet.blocks THEN TmUntilNext ELSE 0
  /\ tmIt' = TmEnd
  /\ UNCHANGED <<tmSet, tmNow, tmTimers, tmCheck, tmThrown, tmOwed>>

TmWakeUp ==
  /\ tmPc = "waiting" /\ tmNow >= tmWake
  /\ tmPc' = "idle" /\ tmWake' = TmNever
  /\ UNCHANGED <<tmSet, tmNow, tmTimers, tmCheck, tmIt, tmThrown, tmOwed>>

\* Where the thread waits, its own work takes no time.
TmTick ==
  /\ tmSet.order # <<>> /\ tmNow < TmMaxTime
  /\ tmSet.blocks => tmPc = "waiting" /\ tmNow < tmWake
  /\ tmNow' = tmNow + 1
  /\ UNCHANGED <<tmSet, tmTimers, tmPc, tmCheck, tmIt, tmWake, tmThrown, tmOwed>>

-----------------------------------------------------------------------------
TmInit ==
  /\ tmSet \in TmSettings
  /\ tmNow = 0 /\ tmAt = tmSet.first
  /\ tmQ = FoldLeft(LAMBDA q, t : TmInsert(q, tmSet.first, t), <<>>, tmSet.order)
  /\ tmArmed = ToSet(tmQ)
  /\ tmPc = "idle" /\ tmCheck = TmNever /\ tmIt = TmEnd /\ tmWake = TmNever /\ tmThrown = 0
  /\ tmOwed = [t \in TmTimers |-> IF TmLinked(t) THEN tmSet.first[t] ELSE TmNever]

TmThread == TmBegin \/ TmFire \/ TmSecondLoop \/ TmReschedule \/ TmCheckEnds \/ TmWakeUp
TmNextStep == TmThread \/ TmTick \/ \E t \in TmTimers : TmSchedule(t) \/ TmCancel(t)

\* The thread of the client goes round, and time goes by.  A client without
\* timers has neither.
TmFairness == WF_tmVars(TmThread) /\ WF_tmVars(TmTick)
TmSpec == TmInit /\ [][TmNextStep]_tmVars /\ TmFairness

-----------------------------------------------------------------------------
\* Type correctness: the multiset links each timer once, in order of time.
TmTypeOK ==
  /\ tmNow \in 0..TmMaxTime /\ tmArmed \subseteq ToSet(tmQ)
  /\ tmQ \in Seq(TmTimers) /\ IsInjective(tmQ)
  /\ \A k \in 2..Len(tmQ) : tmAt[tmQ[k - 1]] <= tmAt[tmQ[k]]
  /\ tmPc \in {"idle", "firing", "again", "waiting"}
  /\ tmCheck \in TmNever..TmMaxTime /\ tmIt \in TmTimers \cup {TmEnd}
  /\ tmThrown \in 0..tmSet.throws

\* A check forgets no timer and revives none, whatever callbacks scheduled,
\* cancelled or threw: after it, the timers that still have to fire are the linked
\* and armed ones, none of them due, at the time they should have.  Only after an
\* exception, which leaves fired timers unarmed until the next check, may one be
\* later than that (Timers.hpp:161-180).
TmNoneForgotten ==
  tmPc = "waiting" =>
    /\ {t \in TmTimers : tmOwed[t] # TmNever} = ToSet(tmQ)
    /\ tmArmed = ToSet(tmQ)
    /\ \A t \in tmArmed : /\ tmAt[t] > tmCheck /\ tmAt[t] >= tmOwed[t]
                          /\ tmThrown = 0 => tmAt[t] = tmOwed[t]

\* A timer fires once for each time it was scheduled or put itself back, not
\* before that time, and never after it was cancelled (Timers.hpp:164).
TmFiresAsOwed ==
  [][TmFire => LET t == tmQ[Min(TmDue)]
               IN tmOwed[t] # TmNever /\ tmOwed[t] <= tmAt[t] /\ tmAt[t] <= tmNow]_tmVars

\* A thread that waits for the next timer never wakes up too late for one, though
\* callbacks change the timers it waits for (Timers.hpp:107, BlockingContext.hpp:55).
TmPrompt ==
  (tmSet.blocks /\ tmThrown = 0) =>
    \A t \in TmTimers : tmOwed[t] # TmNever => tmNow <= tmOwed[t]

\* Every timer that has to fire does, or is cancelled.
TmFires ==
  tmSet.throws = 0 => \A t \in TmTimers : tmOwed[t] = TmNever \/ tmOwed[t] >= TmMaxTime

\* What TimerManager keeps true of its ordered set of timers.
TmSafety == TmTypeOK /\ TmNoneForgotten /\ TmPrompt

\* Where waiting leads to in the end.
TmSettled == TmFires
=============================================================================
