----------------------------- MODULE MCContexts -----------------------------
(* Instances of ContextLife, RtContext and Dispatch for TLC.  A behaviour is   *)
(* one of the component that "running" names; the others rest in a state in    *)
(* which none of their actions that has to happen is enabled.                  *)
EXTENDS ContextLife, RtContext, Dispatch

CONSTANTS c1, c2
VARIABLE running

-----------------------------------------------------------------------------
(* Settings of ContextLife. *)
CxBase == [calls |-> [x \in {"A", "B"} |-> <<>>], sends |-> 3, flushes |-> 0, batch |-> 1,
           tries |-> FALSE, throws |-> [c \in {"a", "b", "c"} |-> CxNever],
           stays |-> [c \in {"a", "b", "c"} |-> 0], bad |-> {}, slow |-> {}, stops |-> {},
           destroys |-> {}, crashes |-> {}, creator |-> {"A"}, purge |-> FALSE, ipc |-> TRUE]
CxAtRest == [CxBase EXCEPT !.sends = 0]
CxCases == <<
  \* two processes start at the same time, one is out of indexes, both stop
  [CxBase EXCEPT !.calls = ("A" :> << <<"a">> >> @@ "B" :> << <<"b", "c">> >>),
     !.stops = {"A", "B"}, !.sends = 1],
  \* exceptions, one client put back, then another start on the freed index
  [CxBase EXCEPT !.calls = ("A" :> << <<"a", "b">>, <<"c">> >> @@ "B" :> << >>), !.ipc = FALSE,
     !.throws = ("a" :> 1 @@ "b" :> 1 @@ "c" :> CxNever), !.stays = ("a" :> 1 @@ "b" :> 0 @@ "c" :> 0),
     !.stops = {"A"}],
  \* a process crashes, the purger runs, a client starts later
  [CxBase EXCEPT !.calls = ("A" :> << << >>, <<"c">> >> @@ "B" :> << <<"b">> >>), !.crashes = {"B"},
     !.purge = TRUE, !.sends = 2, !.flushes = 1],
  \* a slow client is purged
  [CxBase EXCEPT !.calls = ("A" :> << <<"a">> >> @@ "B" :> << <<"b">> >>), !.slow = {"b"},
     !.purge = TRUE],
  \* a client whose start callback throws leaves its index to the purger
  [CxBase EXCEPT !.calls = ("A" :> << <<"a">>, <<"c">> >> @@ "B" :> << >>), !.bad = {"a"},
     !.purge = TRUE, !.flushes = 1],
  \* the process that runs the purger stops
  [CxBase EXCEPT !.calls = ("A" :> << <<"a">> >> @@ "B" :> << >>), !.purge = TRUE,
     !.stops = {"A"}, !.sends = 2, !.flushes = 1],
  \* the creator is destroyed
  [CxBase EXCEPT !.calls = ("A" :> << <<"a">> >> @@ "B" :> << <<"b">> >>), !.stops = {"A"},
     !.destroys = {"A"}, !.sends = 4, !.batch = 2, !.tries = TRUE] >>
CxInstances == {CxAtRest} \cup {CxCases[i] : i \in DOMAIN CxCases}

-----------------------------------------------------------------------------
(* Settings of RtContext: two clients at one queue, or a queue each.  The      *)
(* second queue's clients have types of their own next to a shared one.        *)
RtShared == [c \in RtClients |-> 1]
RtInstances == {RtShared, c1 :> 1 @@ c2 :> 2}
RtListed == <<{"JustBytes", "a", "n"}, {"a", "b"}>>
RtMatched == <<{"a", "n"}, {"a", "b"}>>
RtRooms == <<1, 2>>

-----------------------------------------------------------------------------
(* Settings of Dispatch. *)
DiType(lo, n) == [lo |-> lo, n |-> n, att |-> FALSE, bytes |-> FALSE]
DiAttType(lo) == [lo |-> lo, n |-> 1, att |-> TRUE, bytes |-> FALSE]
DiJustBytes == [lo |-> 4, n |-> 1, att |-> FALSE, bytes |-> TRUE]
Msg(tag) == [tag |-> tag, att |-> FALSE, len |-> 0, own |-> FALSE]
Att(tag, len) == [tag |-> tag, att |-> TRUE, len |-> len, own |-> FALSE]
DiCase(interests, sends) ==
  [interests |-> interests, sends |-> sends, avoids |-> FALSE, wants |-> <<>>,
   batch |-> 3, throws |-> 0, skips |-> 0]
DiAtRest == DiCase(<<>>, <<>>)
DiCases == <<
  \* a client of all bytes next to types of its own; the rest of a batch is skipped
  [DiCase(<<DiJustBytes, DiAttType(1300), DiType(1001, 3), DiAttType(1258)>>,
     <<Att(1300, 3), Msg(1003), Att(1258, 0), Msg(2000), Att(1300, 2), Att(3000, 1), Att(1258, 12)>>)
     EXCEPT !.skips = 1],
  \* a callback throws
  [DiCase(<<DiType(1001, 3), DiAttType(1300), DiAttType(1258), DiJustBytes>>,
     <<Att(1300, 3), Msg(1003), Att(1258, 0), Msg(2000), Att(1300, 2), Att(3000, 1)>>)
     EXCEPT !.throws = 1],
  [DiCase(<<DiAttType(1300), DiType(1001, 1)>>,
     <<Att(1300, 3), Msg(1001), Att(1300, 4), Msg(1001)>>) EXCEPT !.throws = 2, !.batch = 4],
  \* the client does not want messages of its own process
  [DiCase(<<DiAttType(1300), DiType(1001, 1)>>,
     <<[Att(1300, 3) EXCEPT !.own = TRUE], Msg(1001), Att(1300, 4), [Msg(1001) EXCEPT !.own = TRUE]>>)
     EXCEPT !.avoids = TRUE, !.skips = 1],
  \* messages are stashed until the one that was waited for
  [DiCase(<<DiType(1001, 1)>>, [i \in 1..5 |-> Msg(1001)]) EXCEPT !.wants = <<3, 5, 2, 1, 4>>],
  \* more interests than a linear search is used for
  [DiCase([i \in 1..17 |-> DiType(1000 + 30 + ((i * 5) % 17) * 2, 2)],
     <<Msg(1033), Msg(1064), Msg(1045), Msg(1049), Msg(1300)>>) EXCEPT !.throws = 1] >>
DiInstances == {DiAtRest} \cup {DiCases[i] : i \in DOMAIN DiCases}

-----------------------------------------------------------------------------
Init ==
  /\ running \in {"cx", "rt", "di"}
  /\ running = "cx" \/ cxSet = CxAtRest
  /\ CxInit
  /\ running = "rt" \/ rtServes = RtShared
  /\ RtInit
  /\ running = "di" \/ diSet = DiAtRest
  /\ DiInit

Next ==
  \/ running = "cx" /\ CxNext /\ UNCHANGED <<running, rtVars, diVars>>
  \/ running = "rt" /\ RtNext /\ UNCHANGED <<running, cxVars, diVars>>
  \/ running = "di" /\ DiNext /\ UNCHANGED <<running, cxVars, rtVars>>

Spec == Init /\ [][Next]_<<running, cxVars, rtVars, diVars>> /\ CxFairness /\ RtFairness /\ DiFairness

\* What start, send and stop of a Context and of a BlockingContextRt lead to for their
\* clients, and that dispatching and the stash use every message.
ContextGuarantees == CxGoneForGood /\ RtLatestKept /\ <>[](CxSettled /\ RtSettled /\ DiSettled)
=============================================================================
