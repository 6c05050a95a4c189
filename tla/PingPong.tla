------------------------------- MODULE PingPong -------------------------------
(***************************************************************************)
(* The latency tool tools/tips-ping-pong.cpp, an application of TIPS: a       *)
(* pinger publishes pings at a limited rate and without waiting, pongers      *)
(* answer each of them, and both leave the first results out of their         *)
(* statistics.  Each process runs its nodes in a Domain, is stopped by its    *)
(* run time or by a signal, and reports when its nodes' threads have ended.   *)
(*                                                                           *)
(* The Domain is external here (see TipsDomain and BlockingContext): a        *)
(* published message is put into the queues of the nodes that are running,    *)
(* publish waits for room in them, and tryPublish gives up.  A ping is its    *)
(* number.  The rate limiter (see Rater) lets the pinger try or not.  Not      *)
(* modelled: sizes, the three kinds of ping differing only in them, and text.  *)
(***************************************************************************)
EXTENDS Integers, Sequences, FiniteSets, SequencesExt

CONSTANTS
  PpMaxPings,  \* bound: pings published
  PpMaxProcs,  \* bound: processes
  PpSettings   \* what is run: see PpAssumption

\* procs: the processes, each with its role ("ping", "pong", "both"), cpus, the number
\* of CPUs it is given, timed, whether it has a run time, and signalled, whether it may
\* be sent a signal; skip: skipFirst; room: capacity of a queue.  One process pings.
ASSUME PpAssumption ==
  /\ PpMaxPings \in Nat /\ PpMaxProcs \in Nat
  /\ \A s \in PpSettings :
       /\ s.skip \in Nat /\ s.room \in Nat \ {0} /\ Len(s.procs) <= PpMaxProcs
       /\ \A i \in DOMAIN s.procs : s.procs[i].role \in {"ping", "pong", "both"}
       /\ \A i, j \in DOMAIN s.procs :
            s.procs[i].role # "pong" /\ s.procs[j].role # "pong" => i = j

VARIABLES
  ppSet,      \* the setting explored, chosen once
  ppOps,      \* what main of each process has left to do
  ppStopped,  \* processes whose domain is stopped
  ppPc,       \* step of each node: "none", "handle", "more", "try", "answer", "done"
  ppQueue,    \* queue of each node
  ppTurn,     \* the ping that each ponger answers
  ppSkipped,  \* skipped_ of each node
  ppSamples,  \* sample size of each node's statistics
  ppCount,    \* pingCount_
  ppTried,    \* ghost: pings published
  ppGot       \* ghost: pongs handled by the pinger, with their ponger

ppStats == <<ppSkipped, ppSamples, ppCount, ppTried, ppGot>>
ppVars == <<ppSet, ppOps, ppStopped, ppPc, ppQueue, ppTurn, ppStats>>

\* A node is its process and what it is.
PpNodes ==
  {n \in (DOMAIN ppSet.procs) \X {"ping", "pong"} : ppSet.procs[n[1]].role \in {n[2], "both"}}
PpPinger == CHOOSE n \in PpNodes : n[2] = "ping"
PpPongers == {n \in PpNodes : n[2] = "pong"}
PpRunning(n) == ppPc[n] \notin {"none", "done"}
PpHasRoom(n) == Len(ppQueue[n]) < ppSet.room
PpTo(n, pc) == ppPc' = [ppPc EXCEPT ![n] = pc]

-----------------------------------------------------------------------------
(* The processes.                                                           *)

PpPingInDomain == <<"add", "sleep", "join">>
PpPongInDomain == <<"sleep", "add", "join">>
PpPingInSingleNodeDomain == <<"add", "sleep", "join">>
PpPongInSingleNodeDomain == <<"add", "sleep", "join">>
PpPingPong == <<"add", "sleep", "join">>
PpRun(proc) ==
  CASE proc.role = "ping" /\ proc.cpus = 1 -> PpPingInSingleNodeDomain
    [] proc.role = "ping" /\ proc.cpus > 1 -> PpPingInDomain
    [] proc.role = "pong" /\ proc.cpus = 1 -> PpPongInSingleNodeDomain
    [] proc.role = "pong" /\ proc.cpus > 1 -> PpPongInDomain
    [] proc.role = "both" -> PpPingPong

PpOp(i, op) ==
  /\ ppOps[i] # <<>> /\ Head(ppOps[i]) = op
  /\ ppOps' = [ppOps EXCEPT ![i] = Tail(@)]

\* Domain::add and startPumping
PpAdd(i) ==
  /\ PpOp(i, "add")
  /\ ppPc' = [n \in PpNodes |-> IF n[1] = i THEN "handle" ELSE ppPc[n]]
  /\ UNCHANGED <<ppSet, ppStopped, ppQueue, ppTurn, ppStats>>

\* The run time, when there is one, is slept through; then the domain is stopped.
PpStops(i) == ppSet.procs[i].timed
PpSleep(i) ==
  /\ PpOp(i, "sleep")
  /\ ppStopped' = IF PpStops(i) THEN ppStopped \cup {i} ELSE ppStopped
  /\ UNCHANGED <<ppSet, ppPc, ppQueue, ppTurn, ppStats>>

PpSignal(i) ==
  /\ ppSet.procs[i].signalled /\ ppOps[i] # <<>> /\ i \notin ppStopped
  /\ ppStopped' = ppStopped \cup {i}
  /\ UNCHANGED <<ppSet, ppOps, ppPc, ppQueue, ppTurn, ppStats>>

\* join, and the report
PpJoin(i) ==
  /\ PpOp(i, "join") /\ \A n \in PpNodes : n[1] = i => ppPc[n] = "done"
  /\ UNCHANGED <<ppSet, ppStopped, ppPc, ppQueue, ppTurn, ppStats>>

-----------------------------------------------------------------------------
(* The nodes' threads.                                                      *)

\* Of a stopped domain: the thread leaves its loop and empties its queue.
PpLeave(n) ==
  /\ ppPc[n] = "handle" /\ n[1] \in ppStopped
  /\ PpTo(n, "done") /\ ppQueue' = [ppQueue EXCEPT ![n] = <<>>]
  /\ UNCHANGED <<ppSet, ppOps, ppStopped, ppTurn, ppStats>>

\* A result is added to the statistics once skipFirst of them were skipped.
PpResult(n) ==
  IF ppSkipped[n] = 0
  THEN ppSamples' = [ppSamples EXCEPT ![n] = @ + 1] /\ UNCHANGED ppSkipped
  ELSE ppSkipped' = [ppSkipped EXCEPT ![n] = @ - 1] /\ UNCHANGED ppSamples

\* Mutant of PpHandled: the newest pong leaves the queue.
PpHandleLast(q) == SubSeq(q, 1, Len(q) - 1)
PpHandled(q) == Tail(q)
PpHandlePong(n) ==
  /\ n[2] = "ping" /\ ppPc[n] \in {"handle", "more"} /\ ppQueue[n] # <<>>
  /\ ppPc[n] = "handle" => n[1] \notin ppStopped
  /\ ppGot' = Append(ppGot, Head(ppQueue[n]))
  /\ ppQueue' = [ppQueue EXCEPT ![n] = PpHandled(@)]
  /\ PpResult(n) /\ PpTo(n, "more")
  /\ UNCHANGED <<ppSet, ppOps, ppStopped, ppTurn, ppCount, ppTried>>

\* After the messages of a batch, invokedCb: the rate limiter is asked.
PpInvoked(n) ==
  /\ n[2] = "ping"
  /\ \/ ppPc[n] = "handle" /\ ppQueue[n] = <<>> /\ n[1] \notin ppStopped
     \/ ppPc[n] = "more"
  /\ ppTried < PpMaxPings /\ PpTo(n, "try")
  /\ UNCHANGED <<ppSet, ppOps, ppStopped, ppQueue, ppTurn, ppStats>>
PpNotInvoked(n) ==
  /\ n[2] = "ping" /\ ppPc[n] = "more" /\ PpTo(n, "handle")
  /\ UNCHANGED <<ppSet, ppOps, ppStopped, ppQueue, ppTurn, ppStats>>

\* tryPublish
PpTargets == {m \in PpPongers : PpRunning(m)}
PpGivesUp == \E m \in PpTargets : ~PpHasRoom(m)
PpPing(n) ==
  /\ ppPc[n] = "try" /\ PpTo(n, "handle")
  /\ \/ /\ \A m \in PpTargets : PpHasRoom(m)
        /\ ppTried' = ppTried + 1
        /\ ppQueue' = [m \in PpNodes |->
                         IF m \in PpTargets THEN Append(ppQueue[m], ppTried') ELSE ppQueue[m]]
        /\ ppCount' = IF ppSkipped[n] = 0 THEN ppCount + 1 ELSE ppCount
     \/ PpGivesUp /\ UNCHANGED <<ppTried, ppQueue, ppCount>>
  /\ UNCHANGED <<ppSet, ppOps, ppStopped, ppTurn, ppSkipped, ppSamples, ppGot>>

\* A ponger publishes its answer, and waits for room in the pinger's queue.
PpHandlePing(n) ==
  /\ n[2] = "pong" /\ ppPc[n] = "handle" /\ ppQueue[n] # <<>> /\ n[1] \notin ppStopped
  /\ ppTurn' = [ppTurn EXCEPT ![n] = Head(ppQueue[n])]
  /\ ppQueue' = [ppQueue EXCEPT ![n] = PpHandled(@)]
  /\ PpTo(n, "answer")
  /\ UNCHANGED <<ppSet, ppOps, ppStopped, ppStats>>
PpAnswer(n) ==
  /\ n[2] = "pong" /\ ppPc[n] = "answer"
  /\ PpRunning(PpPinger) => PpHasRoom(PpPinger)
  /\ ppQueue' = IF PpRunning(PpPinger)
                THEN [ppQueue EXCEPT ![PpPinger] = Append(@, [by |-> n, ping |-> ppTurn[n]])]
                ELSE ppQueue
  /\ ppTurn' = [ppTurn EXCEPT ![n] = 0]
  /\ PpResult(n) /\ PpTo(n, "handle")
  /\ UNCHANGED <<ppSet, ppOps, ppStopped, ppCount, ppTried, ppGot>>

-----------------------------------------------------------------------------
PpInit ==
  /\ ppSet \in PpSettings
  /\ ppOps = [i \in DOMAIN ppSet.procs |-> PpRun(ppSet.procs[i])]
  /\ ppStopped = {} /\ ppPc = [n \in PpNodes |-> "none"]
  /\ ppQueue = [n \in PpNodes |-> <<>>] /\ ppTurn = [n \in PpNodes |-> 0]
  /\ ppSkipped = [n \in PpNodes |-> ppSet.skip] /\ ppSamples = [n \in PpNodes |-> 0]
  /\ ppCount = 0 /\ ppTried = 0 /\ ppGot = <<>>

PpThread(n) ==
  \/ PpLeave(n) \/ PpHandlePong(n) \/ PpInvoked(n) \/ PpNotInvoked(n) \/ PpPing(n)
  \/ PpHandlePing(n) \/ PpAnswer(n)
PpMain(i) == PpAdd(i) \/ PpSleep(i) \/ PpJoin(i)
PpNext ==
  \/ \E i \in DOMAIN ppSet.procs : PpMain(i) \/ PpSignal(i)
  \/ \E n \in PpNodes : PpThread(n)

\* Every thread is scheduled.
PpFairness ==
  \A i \in 1..PpMaxProcs :
    /\ WF_ppVars(i \in DOMAIN ppSet.procs /\ PpMain(i))
    /\ \A r \in {"ping", "pong"} : WF_ppVars(<<i, r>> \in PpNodes /\ PpThread(<<i, r>>))
PpSpec == PpInit /\ [][PpNext]_ppVars /\ PpFairness

-----------------------------------------------------------------------------
\* Type correctness: no queue holds more than it has room for.
PpTypeOK ==
  /\ \A n \in PpNodes :
       /\ Len(ppQueue[n]) <= ppSet.room /\ ppSkipped[n] \in 0..ppSet.skip
       /\ ppPc[n] \in {"none", "handle", "more", "try", "answer", "done"}
       /\ ppTurn[n] \in 0..PpMaxPings
  /\ ppTried \in 0..PpMaxPings /\ ppCount \in 0..ppTried

\* Every round trip measured is one: of each ponger a ping's answer comes back at most
\* once and in the order of the pings, and what is skipped and sampled is what came.
PpRoundTrips ==
  /\ \A i, j \in DOMAIN ppGot :
       i < j /\ ppGot[i].by = ppGot[j].by => ppGot[i].ping < ppGot[j].ping
  /\ \A n \in PpNodes :
       n[2] = "ping" => ppSamples[n] + (ppSet.skip - ppSkipped[n]) = Len(ppGot)

\* The tool does not lock itself up: as the pinger never waits for the pongers, which
\* wait for it, every ping that was published to running pongers is answered and
\* handled, however small the queues (tips-ping-pong.cpp:196-198).
PpAnswered ==
  ppStopped = {} =>
    /\ \A n \in PpNodes : ppQueue[n] = <<>> /\ ppPc[n] = "handle"
    /\ \A n \in PpNodes : n[2] = "pong" =>
         ppSamples[n] + (ppSet.skip - ppSkipped[n])
           = Cardinality({k \in DOMAIN ppGot : ppGot[k].by = n})

\* A process with a run time, or one that is signalled, ends and reports.
PpEnds ==
  \A i \in DOMAIN ppSet.procs :
    ppSet.procs[i].timed \/ i \in ppStopped => ppOps[i] = <<>>

\* What the ping-pong tool keeps true of its round trips.
PpSafety == PpTypeOK /\ PpRoundTrips

\* Where the nodes and the main threads of the tool lead to in the end.
PpSettled == PpAnswered /\ PpEnds
=============================================================================
