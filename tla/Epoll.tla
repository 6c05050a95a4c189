-------------------------------- MODULE Epoll --------------------------------
(***************************************************************************)
(* EpollTask and EpollFd (app/utils/EpollTask.hpp), with which all the      *)
(* transports wait for their sockets.  A socket is registered edge          *)
(* triggered; its thread asks isFdReady before it reads, and clears its own *)
(* flag when a read would block; any thread calls poll(), which does        *)
(* nothing unless a socket asked since the last poll ended, and raises the  *)
(* flags of the sockets for which the system reports an edge.               *)
(*                                                                          *)
(* A read takes one packet.  Assumed: sockets are not closed while a poll   *)
(* is under way (it writes through pointers into them).                     *)
(***************************************************************************)
EXTENDS Integers, FiniteSets

CONSTANTS
  EpFds,      \* sockets, each with the thread that reads it
  EpPollers,  \* threads that call poll(): readers or others
  EpOpenings, \* sets of sockets that may be open; with none, nobody polls
  EpMaxIn     \* bound: packets that arrive at a socket
ASSUME EpAssumption == EpMaxIn \in Nat /\ EpOpenings \subseteq SUBSET EpFds

VARIABLES
  epOpen,     \* the sockets that are open, chosen once
  epIn,       \* packets that have arrived at each socket
  epRead,     \* packets read from it
  epEdge,     \* sockets with an edge that epoll_wait has not reported
  epReady,    \* fdReady_
  epLocal,    \* fdReadyLocal_
  epPending,  \* pollPending_
  epR,        \* where each reader is: "ask", "exchange", "read", "err"
  epP         \* where each poller is, with the edges it has still to write
epVars == <<epOpen, epIn, epRead, epEdge, epReady, epLocal, epPending, epR, epP>>
epSocket == <<epOpen, epIn, epRead>>

EpIdlePoller == [at |-> "load", todo |-> {}]

\* A packet arrives: an edge, also when others wait to be read.
EpArrive(f) ==
  /\ f \in epOpen /\ epIn[f] < EpMaxIn
  /\ epIn' = [epIn EXCEPT ![f] = @ + 1]
  /\ epEdge' = epEdge \cup {f}
  /\ UNCHANGED <<epOpen, epRead, epReady, epLocal, epPending, epR, epP>>

-----------------------------------------------------------------------------
(* The reader: isFdReady, read, checkErr.                                   *)

EpReaderTo(f, at) == epR' = [epR EXCEPT ![f] = at]

\* setPollPending, unless the flag of the last round still holds.
EpAsk(f) ==
  /\ f \in epOpen /\ epR[f] = "ask"
  /\ EpReaderTo(f, IF epLocal[f] THEN "read" ELSE "exchange")
  /\ epPending' = IF epLocal[f] THEN epPending ELSE TRUE
  /\ UNCHANGED <<epSocket, epEdge, epReady, epLocal, epP>>

EpExchange(f) ==
  /\ epR[f] = "exchange"
  /\ epLocal' = [epLocal EXCEPT ![f] = epReady[f]]
  /\ epReady' = [epReady EXCEPT ![f] = FALSE]
  /\ EpReaderTo(f, IF epReady[f] THEN "read" ELSE "ask")
  /\ UNCHANGED <<epSocket, epEdge, epPending, epP>>

EpHas(f) == epRead[f] < epIn[f]
EpRead(f) ==
  /\ epR[f] = "read"
  /\ IF EpHas(f)
     THEN epRead' = [epRead EXCEPT ![f] = @ + 1] /\ EpReaderTo(f, "ask")
     ELSE EpReaderTo(f, "err") /\ UNCHANGED epRead
  /\ UNCHANGED <<epOpen, epIn, epEdge, epReady, epLocal, epPending, epP>>

\* Mutant of EpCleared: the shared flag is cleared as well.
EpClearedBoth(f) == [epReady EXCEPT ![f] = FALSE]
\* EAGAIN: the thread's own flag is cleared, not the shared one.
EpCleared(f) == epReady
EpErr(f) ==
  /\ epR[f] = "err"
  /\ epLocal' = [epLocal EXCEPT ![f] = FALSE] /\ epReady' = EpCleared(f)
  /\ EpReaderTo(f, "ask")
  /\ UNCHANGED <<epSocket, epEdge, epPending, epP>>

-----------------------------------------------------------------------------
(* poll().                                                                  *)

EpPollerTo(p, at, todo) == epP' = [epP EXCEPT ![p] = [at |-> at, todo |-> todo]]

EpLoad(p) ==
  /\ epP[p].at = "load" /\ epPending
  /\ EpPollerTo(p, "wait", {})
  /\ UNCHANGED <<epSocket, epEdge, epReady, epLocal, epPending, epR>>

\* epoll_wait reports each edge once, to one thread; nfds is at most
\* HMBDC_EPOLL_FD_MAX.
EpReports == epEdge
EpWait(p) ==
  /\ epP[p].at = "wait"
  /\ EpPollerTo(p, "raise", EpReports) /\ epEdge' = epEdge \ EpReports
  /\ UNCHANGED <<epSocket, epReady, epLocal, epPending, epR>>

EpRaise(p) ==
  /\ epP[p].at = "raise"
  /\ \E f \in epP[p].todo :
       /\ epReady' = [epReady EXCEPT ![f] = TRUE]
       /\ EpPollerTo(p, "raise", epP[p].todo \ {f})
  /\ UNCHANGED <<epSocket, epEdge, epLocal, epPending, epR>>

EpClear(p) ==
  /\ epP[p].at = "raise" /\ epP[p].todo = {}
  /\ epPending' = FALSE
  /\ epP' = [epP EXCEPT ![p] = EpIdlePoller]
  /\ UNCHANGED <<epSocket, epEdge, epReady, epLocal, epR>>

-----------------------------------------------------------------------------
\* A socket is registered when it is made; EPOLL_CTL_ADD reports what is there.
EpInit ==
  /\ epOpen \in EpOpenings
  /\ epIn = [f \in EpFds |-> 0] /\ epRead = epIn /\ epEdge = {}
  /\ epReady = [f \in EpFds |-> FALSE] /\ epLocal = epReady /\ epPending = FALSE
  /\ epR = [f \in EpFds |-> "ask"] /\ epP = [p \in EpPollers |-> EpIdlePoller]

EpReader(f) == EpAsk(f) \/ EpExchange(f) \/ EpRead(f) \/ EpErr(f)
EpPoller(p) == EpLoad(p) \/ EpWait(p) \/ EpRaise(p) \/ EpClear(p)
EpNext ==
  \/ \E f \in EpFds : EpArrive(f) \/ EpReader(f)
  \/ \E p \in EpPollers : EpPoller(p)
\* Every thread goes round its loop.
EpFairness ==
  /\ \A f \in EpFds : WF_epVars(EpReader(f))
  /\ \A p \in EpPollers : WF_epVars(EpPoller(p))
EpSpec == EpInit /\ [][EpNext]_epVars /\ EpFairness

-----------------------------------------------------------------------------
\* Type correctness: what is read has arrived, and only from open sockets.
EpTypeOK ==
  /\ \A f \in EpFds : epIn[f] \in 0..EpMaxIn /\ epRead[f] \in 0..epIn[f]
  /\ epEdge \subseteq epOpen /\ epPending \in BOOLEAN
  /\ epReady \in [EpFds -> BOOLEAN] /\ epLocal \in [EpFds -> BOOLEAN]
  /\ epR \in [EpFds -> {"ask", "exchange", "read", "err"}]
  /\ epP \in [EpPollers -> [at : {"load", "wait", "raise"}, todo : SUBSET epOpen]]

\* Packets that wait in a socket are never forgotten: an edge is unreported or in
\* the hands of a poller, or one of the flags is up.  A packet that arrives between
\* the read that would block and checkErr has an edge of its own
\* (EpollTask.hpp:106-125).
EpNotForgotten ==
  \A f \in EpFds : epRead[f] < epIn[f] =>
    \/ f \in epEdge \/ (epLocal[f] /\ epR[f] # "err") \/ epReady[f]
    \/ \E p \in EpPollers : f \in epP[p].todo

\* Everything that arrives is read, although one poller's end clears the wish to
\* poll of a socket that has just asked (EpollTask.hpp:185).
EpAllRead == epRead = epIn

\* What EpollTask keeps true of its descriptors.
EpSafety == EpTypeOK /\ EpNotForgotten

\* Where reading and polling lead to in the end.
EpSettled == EpAllRead
=============================================================================
