------------------------------- MODULE ChildIo -------------------------------
(***************************************************************************)
(* os/AsyncExecutionIo.hpp: a child process whose stdout and stderr are read *)
(* by handlers that run when the user calls runOneFor().  Each handler takes *)
(* one line out of its buffer, calls the user and asks for the next one; an  *)
(* IoError says that both streams ended.  The destructor closes stdin, sends *)
(* SIGINT and waits for the child.                                           *)
(*                                                                          *)
(* The child and the pipes are outside the code: the child writes chunks, of *)
(* which some end a line, blocks while a pipe is full, and on SIGINT dies or  *)
(* first finishes what it has to write.                                      *)
(***************************************************************************)
EXTENDS Integers, Sequences, FiniteSets, FiniteSetsExt, SequencesExt

CONSTANTS
  IoPipe,     \* chunks a pipe holds
  IoSettings  \* records: writes, sequence of the chunks of the child, each with its
              \* stream and whether it ends a line; dies, SIGINT ends the child at
              \* once; throws, how often a callback of the user throws
IoStreams == {"out", "err"}
ASSUME IoAssumption ==
  /\ IoPipe \in Nat \ {0}
  /\ \A s \in IoSettings : /\ s.writes \in Seq([stream : IoStreams, ends : BOOLEAN])
                           /\ s.dies \in BOOLEAN /\ s.throws \in Nat

VARIABLES
  ioSet,      \* the setting, chosen once
  ioWritten,  \* chunks the child wrote
  ioChild,    \* "running", "told" (it got SIGINT) or "exited"
  ioPipes,    \* the chunks in the pipes, by their numbers
  ioBuf,      \* stdout_buf_, stderr_buf_
  ioArmed,    \* a read of the stream is asked for
  ioEc,       \* stdoutEc_, stderrEc_
  ioPc,       \* "running", "error" (IoError was thrown), "waiting", "destroyed"
  ioThrows,   \* callbacks that threw
  ioGot       \* ghost: the lines given to the callbacks
ioChildVars == <<ioWritten, ioChild>>
ioVars == <<ioSet, ioChildVars, ioPipes, ioBuf, ioArmed, ioEc, ioPc, ioThrows, ioGot>>

IoEnds(c) == ioSet.writes[c].ends

IoWrite ==
  LET c == ioWritten + 1 IN
  /\ ioChild # "exited" /\ c <= Len(ioSet.writes)
  /\ LET s == ioSet.writes[c].stream IN
     /\ Len(ioPipes[s]) < IoPipe
     /\ ioPipes' = [ioPipes EXCEPT ![s] = Append(@, c)]
  /\ ioWritten' = c
  /\ UNCHANGED <<ioSet, ioChild, ioBuf, ioArmed, ioEc, ioPc, ioThrows, ioGot>>
IoExit ==
  /\ ioChild # "exited" /\ ioWritten = Len(ioSet.writes)
  /\ ioChild' = "exited"
  /\ UNCHANGED <<ioSet, ioWritten, ioPipes, ioBuf, ioArmed, ioEc, ioPc, ioThrows, ioGot>>

-----------------------------------------------------------------------------
(* runOneFor *)

IoHasLine(s) == \E i \in DOMAIN ioBuf[s] : IoEnds(ioBuf[s][i])

\* async_read_until reads on until there is a line in the buffer.
IoRead(s, n) ==
  /\ ioPc = "running" /\ ioArmed[s] /\ ~IoHasLine(s) /\ n \in 1..Len(ioPipes[s])
  /\ ioBuf' = [ioBuf EXCEPT ![s] = @ \o SubSeq(ioPipes[s], 1, n)]
  /\ ioPipes' = [ioPipes EXCEPT ![s] = SubSeq(@, n + 1, Len(@))]
  /\ UNCHANGED <<ioSet, ioChildVars, ioArmed, ioEc, ioPc, ioThrows, ioGot>>

\* getline: up to the first line end.
IoLine(s) ==
  SubSeq(ioBuf[s], 1, Min({i \in DOMAIN ioBuf[s] : IoEnds(ioBuf[s][i])}))
IoAfter(s, line) == SubSeq(ioBuf[s], Len(line) + 1, Len(ioBuf[s]))

\* The handler of a stream that has a line.  When the callback throws the handler
\* ends there, and nothing asks for the next line.
IoRearms(s, throws) == ~throws
IoOnLine(s, throws) ==
  LET line == IoLine(s) IN
  /\ ioPc = "running" /\ ioArmed[s] /\ IoHasLine(s)
  /\ throws => ioThrows < ioSet.throws
  /\ ioGot' = [ioGot EXCEPT ![s] = Append(@, line)]
  /\ ioBuf' = [ioBuf EXCEPT ![s] = IoAfter(s, line)]
  /\ ioArmed' = [ioArmed EXCEPT ![s] = IoRearms(s, throws)]
  /\ ioThrows' = IF throws THEN ioThrows + 1 ELSE ioThrows
  /\ UNCHANGED <<ioSet, ioChildVars, ioPipes, ioEc, ioPc>>

\* Mutant of IoBothEnded: one stream is enough.
IoBothEitherEnded(ec) == ec["out"] \/ ec["err"]
\* The handler at the end of a stream: what is left is a line as well.
IoBothEnded(ec) == ec["out"] /\ ec["err"]
IoOnEnd(s, throws) ==
  LET ec == [ioEc EXCEPT ![s] = TRUE] IN
  /\ ioPc = "running" /\ ioArmed[s] /\ ~IoHasLine(s)
  /\ ioChild = "exited" /\ ioPipes[s] = <<>>
  /\ throws => ioThrows < ioSet.throws /\ ioBuf[s] # <<>>
  /\ ioGot' = IF ioBuf[s] = <<>> THEN ioGot ELSE [ioGot EXCEPT ![s] = Append(@, ioBuf[s])]
  /\ ioBuf' = [ioBuf EXCEPT ![s] = <<>>]
  /\ ioArmed' = [ioArmed EXCEPT ![s] = FALSE]
  /\ ioThrows' = IF throws THEN ioThrows + 1 ELSE ioThrows
  /\ ioEc' = IF throws THEN ioEc ELSE ec
  /\ ioPc' = IF ~throws /\ IoBothEnded(ec) THEN "error" ELSE ioPc
  /\ UNCHANGED <<ioSet, ioChildVars, ioPipes>>

\* The destructor: SIGINT, then wait().
IoTold(child) == IF child = "running" THEN (IF ioSet.dies THEN "exited" ELSE "told") ELSE child
IoDestroy ==
  /\ ioPc \in {"running", "error"} /\ ioSet.writes # <<>>
  /\ ioPc' = "waiting" /\ ioChild' = IoTold(ioChild)
  /\ UNCHANGED <<ioSet, ioWritten, ioPipes, ioBuf, ioArmed, ioEc, ioThrows, ioGot>>
IoWaited ==
  /\ ioPc = "waiting" /\ ioChild = "exited"
  /\ ioPc' = "destroyed"
  /\ UNCHANGED <<ioSet, ioChildVars, ioPipes, ioBuf, ioArmed, ioEc, ioThrows, ioGot>>

-----------------------------------------------------------------------------
IoInit ==
  /\ ioSet \in IoSettings
  /\ ioWritten = 0 /\ ioChild = IF ioSet.writes = <<>> THEN "exited" ELSE "running"
  /\ ioPipes = [s \in IoStreams |-> <<>>] /\ ioBuf = [s \in IoStreams |-> <<>>]
  /\ ioArmed = [s \in IoStreams |-> ioSet.writes # <<>>] /\ ioEc = [s \in IoStreams |-> FALSE]
  /\ ioPc = "running" /\ ioThrows = 0 /\ ioGot = [s \in IoStreams |-> <<>>]
IoRun(s) ==
  \/ \E n \in 1..IoPipe : IoRead(s, n)
  \/ IoOnLine(s, FALSE)
  \/ IoOnEnd(s, FALSE)
IoNext ==
  \/ IoWrite \/ IoExit
  \/ \E s \in IoStreams : IoRun(s) \/ IoOnLine(s, TRUE) \/ IoOnEnd(s, TRUE)
  \/ IoDestroy \/ IoWaited
\* The child goes on while it can write, the user keeps calling runOneFor, and
\* wait() returns once the child is gone.
IoFairness ==
  /\ WF_ioVars(IoWrite) /\ WF_ioVars(IoExit) /\ WF_ioVars(IoWaited)
  /\ \A s \in IoStreams : WF_ioVars(IoRun(s))
IoSpec == IoInit /\ [][IoNext]_ioVars /\ IoFairness

-----------------------------------------------------------------------------
\* Types; a stream that has ended is not asked for again and leaves nothing in its buffer
\* (AsyncExecutionIo.hpp:81-122).
IoTypeOK ==
  /\ ioSet \in IoSettings /\ ioWritten \in 0..Len(ioSet.writes)
  /\ ioChild \in {"running", "told", "exited"}
  /\ ioPc \in {"running", "error", "waiting", "destroyed"}
  /\ \A s \in IoStreams : /\ Len(ioPipes[s]) <= IoPipe
                          /\ ioEc[s] => ~ioArmed[s] /\ ioBuf[s] = <<>>

IoWrittenTo(s) == SelectSeq([c \in 1..ioWritten |-> c], LAMBDA c : ioSet.writes[c].stream = s)

\* The lines of a stream reach its callback whole, once and in the order written;
\* only the last may lack its line end (AsyncExecutionIo.hpp:81-122).
IoLinesInOrder ==
  \A s \in IoStreams :
    /\ IsPrefix(FlattenSeq(ioGot[s]), IoWrittenTo(s))
    /\ \A i \in DOMAIN ioGot[s] :
         \A j \in 1..(Len(ioGot[s][i]) - 1) : ~IoEnds(ioGot[s][i][j])
    /\ \A i \in DOMAIN ioGot[s] : i < Len(ioGot[s]) => IoEnds(Last(ioGot[s][i]))

\* IoError comes after the last line of both streams, not with the end of the
\* first (AsyncExecutionIo.hpp:96-98, 118-120).
IoErrorLast ==
  ioPc = "error" => \A s \in IoStreams : FlattenSeq(ioGot[s]) = IoWrittenTo(s)

\* A user who goes on calling runOneFor, and whose callbacks do not throw, learns
\* of the end of the child; after a callback that threw its stream is never read
\* again and the child may block for good (AsyncExecutionIo.hpp:81-122).
IoLearns ==
  ioPc \in {"error", "waiting", "destroyed"} \/ ioThrows > 0 \/ ioSet.writes = <<>>

\* The destructor returns: a child that dies of SIGINT is waited for, whatever it
\* had left to write (AsyncExecutionIo.hpp:207-211).
IoDestroyed == ioSet.dies => ioPc # "waiting"

\* What the pipes of a child keep true: its lines in order, the end reported last.
IoSafety == IoTypeOK /\ IoLinesInOrder /\ IoErrorLast

\* Where reading from a child and destroying it lead to in the end.
IoSettled == IoLearns /\ IoDestroyed
=============================================================================
