----------------------------- MODULE MCServices -----------------------------
(* Instances of ThreadPool, OverwritingRing and the components built beside    *)
(* the messaging core for TLC.  A behaviour is one of the component that       *)
(* "running" names; the others rest in a state in which none of their actions  *)
(* that has to happen is enabled.                                              *)
EXTENDS ThreadPool, OverwritingRing, Timers, Rater, Epoll, SeqArb, Histogram, Bag,
        PingPong, ChildIo, TLC

VARIABLE running

-----------------------------------------------------------------------------
(* Settings of ThreadPool. *)
PoServedBy(a, b, m) ==
  [c \in {"c1", "c2", "m1"} |-> CASE c = "c1" -> a [] c = "c2" -> b [] OTHER -> m]
PoCases == <<
  [affinity |-> PoServedBy({0, 1}, {0, 1}, {1}), startThrows |-> {}, added |-> {"c1"},
   slot |-> [t \in {0, 1} |-> t], maxSeq |-> 2, lateAdd |-> FALSE, recycled |-> FALSE],
  [affinity |-> PoServedBy({0, 1, 2}, {0, 1, 2}, {1}), startThrows |-> {}, added |-> {"c2"},
   slot |-> [t \in {0, 1} |-> t], maxSeq |-> 1, lateAdd |-> FALSE, recycled |-> FALSE],
  \* a callback throws at the start, on slots that others have used before
  [affinity |-> PoServedBy({0, 1}, {1}, {0, 1, 2}), startThrows |-> {"c2"}, added |-> {"c2"},
   slot |-> [t \in {0, 1} |-> t + 1], maxSeq |-> 1, lateAdd |-> FALSE, recycled |-> TRUE],
  \* a task, and a consumer added while the pool runs
  [affinity |-> PoServedBy({1}, {1}, {1}), startThrows |-> {}, added |-> {"c1", "m1"},
   slot |-> [t \in {0, 1} |-> t], maxSeq |-> 1, lateAdd |-> TRUE, recycled |-> FALSE] >>
PoInstances == {PoCases[i] : i \in DOMAIN PoCases}

-----------------------------------------------------------------------------
(* Settings of Timers. *)
TmBase == [kind |-> ("o" :> "once" @@ "e" :> "every" @@ "d" :> "daily"),
           interval |-> [t \in {"o", "e", "d"} |-> 2],
           first |-> ("o" :> 1 @@ "e" :> 1 @@ "d" :> 2), order |-> <<"o", "e", "d">>,
           does |-> [t \in {"o", "e", "d"} |-> "nothing"],
           to |-> [t \in {"o", "e", "d"} |-> "o"], throws |-> 0, cancels |-> {}, again |-> {},
           blocks |-> TRUE]
TmAtRest == [TmBase EXCEPT !.order = <<>>]
TmCases == <<
  TmBase,
  \* callbacks that cancel and schedule other timers
  [TmBase EXCEPT !.blocks = FALSE, !.does = ("o" :> "cancel" @@ "e" :> "nothing" @@ "d" :> "schedule"),
    !.to = ("o" :> "e" @@ "e" :> "e" @@ "d" :> "e"), !.order = <<"e", "o", "d">>,
    !.again = {"o", "e"}, !.cancels = {"d"}],
  [TmBase EXCEPT !.does = ("o" :> "nothing" @@ "e" :> "schedule" @@ "d" :> "cancel"),
    !.to = [t \in {"o", "e", "d"} |-> IF t = "e" THEN "o" ELSE "d"], !.cancels = {"o", "e"},
    !.again = {"o", "e"}],
  \* callbacks that throw
  [TmBase EXCEPT !.does = ("o" :> "throw" @@ "e" :> "nothing" @@ "d" :> "throw"), !.throws = 2],
  [TmBase EXCEPT !.does = ("o" :> "throw" @@ "e" :> "schedule" @@ "d" :> "nothing"), !.throws = 1,
     !.blocks = FALSE, !.again = {"o"}] >>
TmInstances == {TmAtRest} \cup {TmCases[i] : i \in DOMAIN TmCases}

-----------------------------------------------------------------------------
(* Settings of SeqArb. *)
SaCase(feeds, start, single) == [feeds |-> feeds, start |-> start, single |-> single]
SaAtRest == SaCase(<<>>, 0, FALSE)
SaInstances ==
  {SaAtRest,
   SaCase(<<<<1, 2, 4, 6, 8>>, <<0, 2, 3, 7, 8>>>>, 0, FALSE),
   SaCase(<<<<1, 2, 5>>, <<2, 4, 5>>>>, 1, TRUE),
   SaCase(<<<<2, 3, 5>>, <<1, 3, 5>>, <<3, 5>>>>, 0, FALSE)}

-----------------------------------------------------------------------------
(* Settings of Histogram. *)
HiAtRest == [kind |-> "none", low |-> 0, high |-> 1, count |-> 1]
HiInstances == {HiAtRest,
                [kind |-> "detailed", low |-> 0, high |-> 3, count |-> 1],
                [kind |-> "coarse", low |-> 1, high |-> 5, count |-> 2]}
HiAsked == <<0, 30, 50, 75, 100>>

-----------------------------------------------------------------------------
(* Settings of Bag. *)
BgBase == [tag |-> <<1, 2, 0, 1>>, att |-> <<TRUE, FALSE, FALSE, TRUE>>, duration |-> 2,
           crashes |-> FALSE, sim |-> FALSE, filter |-> {0, 1, 2}, range |-> <<>>, subs |-> {1},
           late |-> {}]
BgAtRest == [BgBase EXCEPT !.tag = <<>>, !.att = <<>>]
BgCases == <<
  BgBase,
  \* a subscriber that comes late
  [BgBase EXCEPT !.late = {1}, !.subs = {}, !.tag = <<1, 1>>, !.att = <<TRUE, TRUE>>],
  \* a bag in a simulation: cut off by a crash of the recorder, filtered, in part
  [BgBase EXCEPT !.sim = TRUE, !.crashes = TRUE, !.tag = <<1, 1>>, !.att = <<TRUE, TRUE>>],
  [BgBase EXCEPT !.sim = TRUE, !.filter = {2}, !.tag = <<1, 2, 2>>, !.att = <<TRUE, FALSE, TRUE>>],
  [BgBase EXCEPT !.sim = TRUE, !.range = <<1, 1>>] >>
BgInstances == {BgAtRest} \cup {BgCases[i] : i \in DOMAIN BgCases}

-----------------------------------------------------------------------------
(* Settings of PingPong. *)
PpProc(role, cpus, timed, signalled) ==
  [role |-> role, cpus |-> cpus, timed |-> timed, signalled |-> signalled]
PpCase(procs, skip, room) == [procs |-> procs, skip |-> skip, room |-> room]
PpAtRest == PpCase(<<>>, 0, 1)
PpInstances ==
  {PpAtRest,
   PpCase(<<PpProc("both", 3, FALSE, FALSE)>>, 1, 1),
   PpCase(<<PpProc("both", 3, TRUE, TRUE)>>, 0, 2),
   PpCase(<<PpProc("ping", 2, TRUE, FALSE), PpProc("pong", 1, TRUE, FALSE)>>, 1, 1),
   PpCase(<<PpProc("ping", 1, FALSE, FALSE), PpProc("pong", 2, FALSE, FALSE),
            PpProc("pong", 1, FALSE, FALSE)>>, 1, 1)}

-----------------------------------------------------------------------------
(* Settings of ChildIo. *)
IoChunk(stream, ends) == [stream |-> stream, ends |-> ends]
IoCase(writes, dies, throws) == [writes |-> writes, dies |-> dies, throws |-> throws]
IoAtRest == IoCase(<<>>, TRUE, 0)
IoInstances ==
  {IoAtRest,
   IoCase(<<IoChunk("out", FALSE), IoChunk("err", TRUE), IoChunk("out", TRUE), IoChunk("out", TRUE),
            IoChunk("err", FALSE), IoChunk("out", FALSE)>>, TRUE, 0),
   IoCase(<<IoChunk("out", TRUE), IoChunk("out", TRUE), IoChunk("err", TRUE), IoChunk("out", TRUE),
            IoChunk("out", FALSE)>>, TRUE, 1),
   IoCase(<<IoChunk("out", TRUE), IoChunk("err", FALSE), IoChunk("out", TRUE)>>, FALSE, 0)}

-----------------------------------------------------------------------------
Init ==
  /\ running \in {"po", "ov", "tm", "ra", "ep", "sa", "hi", "bg", "pp", "io"}
  /\ running = "po" \/ poSet = PoCases[1]
  /\ running = "tm" \/ tmSet = TmAtRest
  /\ running = "ra" \/ raEnd = RaStart
  /\ running = "ep" \/ epOpen = {}
  /\ running = "sa" \/ saSet = SaAtRest
  /\ running = "hi" \/ hiSet = HiAtRest
  /\ running = "bg" \/ bgSet = BgAtRest
  /\ running = "pp" \/ ppSet = PpAtRest
  /\ running = "io" \/ ioSet = IoAtRest
  /\ PoInit /\ OvInit /\ TmInit /\ RaInit /\ EpInit
  /\ SaInit /\ HiInit /\ BgInit /\ PpInit /\ IoInit

rings == <<poVars, ovVars, saVars>>
times == <<tmVars, raVars, epVars, hiVars>>
tools == <<bgVars, ppVars, ioVars>>

Next ==
  \/ running = "po" /\ PoNextStep /\ UNCHANGED <<running, ovVars, saVars, times, tools>>
  \/ running = "ov" /\ OvNext /\ UNCHANGED <<running, poVars, saVars, times, tools>>
  \/ running = "sa" /\ SaNext /\ UNCHANGED <<running, poVars, ovVars, times, tools>>
  \/ running = "tm" /\ TmNextStep /\ UNCHANGED <<running, rings, raVars, epVars, hiVars, tools>>
  \/ running = "ra" /\ RaNext /\ UNCHANGED <<running, rings, tmVars, epVars, hiVars, tools>>
  \/ running = "ep" /\ EpNext /\ UNCHANGED <<running, rings, tmVars, raVars, hiVars, tools>>
  \/ running = "hi" /\ HiNext /\ UNCHANGED <<running, rings, tmVars, raVars, epVars, tools>>
  \/ running = "bg" /\ BgNext /\ UNCHANGED <<running, rings, times, ppVars, ioVars>>
  \/ running = "pp" /\ PpNext /\ UNCHANGED <<running, rings, times, bgVars, ioVars>>
  \/ running = "io" /\ IoNext /\ UNCHANGED <<running, rings, times, bgVars, ppVars>>

\* Readers go on calling take and tryTake when the ring is what runs.
OvRuns == running = "ov"
RunningOvFairness ==
  /\ \A w \in OvWriters : WF_ovVars(OvRuns /\ OvWriterStep(w))
  /\ \A r \in OvReaders : /\ WF_ovVars(OvRuns /\ \E try \in BOOLEAN : OvCall(r, try))
                          /\ WF_ovVars(OvRuns /\ OvReaderStep(r))

Spec ==
  /\ Init /\ [][Next]_<<running, rings, times, tools>>
  /\ PoFairness /\ RunningOvFairness /\ SaFairness /\ TmFairness /\ RaFairness /\ EpFairness
  /\ BgFairness /\ PpFairness /\ IoFairness

\* What readers of the ring and timers see at each step, and where the components lead to
\* in the end: messages and items arrive, calls return, timers fire, threads and tools end.
ServiceGuarantees ==
  /\ OvReads /\ TmFiresAsOwed
  /\ <>[](/\ PoSettled /\ OvSettled /\ SaSettled /\ TmSettled /\ RaSettled /\ EpSettled
          /\ BgSettled /\ PpSettled /\ IoSettled)
=============================================================================
