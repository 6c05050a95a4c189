--------------------------------- MODULE Bag ---------------------------------
(***************************************************************************)
(* Recording messages into a bag and playing them again (tips/Bag.hpp): a   *)
(* ConsoleNode records what its node thread handles while its stdin thread  *)
(* reads commands; later a ConsoleNode or a SimulationDomain's              *)
(* BagReplayNode plays the file.  The file is a sequence of pieces, one for *)
(* each head, message body and attachment; a recorder that crashes leaves   *)
(* any front part of it that has the bag's head.                            *)
(*                                                                          *)
(* A message is its number among those that arrive.  Time is in ticks; it   *)
(* starts again when the bag is played.  Not modelled: the text commands    *)
(* that publish, and the other output forms.                                *)
(***************************************************************************)
EXTENDS Integers, Sequences, FiniteSets, FiniteSetsExt, SequencesExt

CONSTANTS
  BgMaxRec,    \* bound: ticks while recording
  BgMaxPlay,   \* bound: ticks while playing
  BgMaxLate,   \* bound: until when threads may be late
  BgSettings   \* what arrives and how it is played: see BgAssumption

BgNever == -1
\* tag, att: of the messages that arrive (tag 0: a system message); duration: to
\* record; crashes: whether the recorder may crash; sim: played by a
\* SimulationDomain, with range, its start and length, or <<>>; filter: the tags to
\* play; subs, late: tags the console that plays has subscribed to at
\* first, and while it plays.
ASSUME BgAssumption ==
  /\ BgMaxRec \in Nat /\ BgMaxPlay \in Nat /\ BgMaxLate \in Nat
  /\ \A s \in BgSettings :
       /\ s.tag \in Seq(Nat) /\ s.att \in [DOMAIN s.tag -> BOOLEAN]
       /\ s.duration \in Nat \ {0} /\ s.crashes \in BOOLEAN /\ s.sim \in BOOLEAN
       /\ s.range \in Seq(Nat) /\ Len(s.range) \in {0, 2} /\ s.late \cap s.subs = {}

VARIABLES
  bgSet,      \* the setting explored, chosen once
  bgNow,      \* the time
  bgPhase,    \* "record", "play", "over"
  bgIn,       \* messages handled by the recorder
  bgCin,      \* the recorder's stdin thread: "start", "made", "commands", "ended"
  bgRec,      \* recordBag_: "none", "open", "closed"
  bgRecOpen,  \* recordBagOpen_
  bgRecTimer, \* when recordBagCloseTimer_ fires
  bgFile,     \* the file
  bgKept,     \* ghost: number and time of the messages recorded
  bgPos,      \* pieces of the file the player has read or skipped
  bgGood,     \* the stream has not met the end of the file
  bgPlayOpen, \* the file is open for playing
  bgTag,      \* toPlayTag_: the message to publish next, 0 when there is none
  bgTs,       \* createdTs of the head that play() returned
  bgOk,       \* playOk
  bgRefs,     \* releases that each attachment still waits for
  bgPrev,     \* playBagPreviousTs_
  bgInterval, \* interval_ of playBagFireTimer_
  bgFire,     \* when it fires; while it does, when it was fired
  bgPc,       \* "idle", "play" (within InputBag::play), "result"
  bgSubs,     \* tags the player has subscribed to
  bgDone,     \* the simulation's promise is set
  bgPub,      \* ghost: number and time of what was published, whether after bgDone
  bgOdd       \* ghost: messages subscribed to after they were read

bgRecording == <<bgIn, bgCin, bgRec, bgRecOpen, bgRecTimer, bgFile, bgKept>>
bgReading == <<bgPos, bgGood, bgPlayOpen, bgTag, bgTs, bgOk, bgRefs>>
bgTiming == <<bgPrev, bgInterval, bgFire>>
bgPlaying == <<bgReading, bgTiming, bgPc, bgSubs, bgDone, bgPub, bgOdd>>
bgVars == <<bgSet, bgNow, bgPhase, bgRecording, bgPlaying>>

BgHead(n, t) == [is |-> "head", n |-> n, ts |-> t]
BgPiece(is, n) == [is |-> is, n |-> n, ts |-> 0]
BgN == Len(bgSet.tag)

-----------------------------------------------------------------------------
(* Recording.                                                               *)

\* OutputBag::record: a head, the body and the attachment.
BgRecord(n) ==
  <<BgHead(n, bgNow), BgPiece("body", n)>>
    \o (IF bgSet.att[n] THEN <<BgPiece("att", n)>> ELSE <<>>)

\* "record": the bag is made, then flagged as open.
BgMade == <<BgHead(0, bgNow)>>
BgRecordCmd ==
  /\ bgPhase = "record" /\ bgSet.tag # <<>>
  /\ \/ /\ bgCin = "start" /\ bgCin' = "made"
        /\ bgRec' = "open" /\ bgFile' = BgMade /\ UNCHANGED bgRecOpen
     \/ /\ bgCin = "made" /\ bgCin' = "commands"
        /\ bgRecOpen' = TRUE /\ UNCHANGED <<bgRec, bgFile>>
  /\ UNCHANGED <<bgSet, bgNow, bgPhase, bgIn, bgRecTimer, bgKept, bgPlaying>>

\* handleJustBytesCb: system messages are dropped; a closed bag takes nothing.
BgHandle ==
  LET n == bgIn + 1 IN
  /\ bgPhase = "record" /\ n <= BgN /\ bgIn' = n
  /\ IF bgSet.tag[n] > 0 /\ bgRec = "open"
     THEN bgFile' = bgFile \o BgRecord(n) /\ bgKept' = Append(bgKept, [n |-> n, at |-> bgNow])
     ELSE UNCHANGED <<bgFile, bgKept>>
  /\ UNCHANGED <<bgSet, bgNow, bgPhase, bgCin, bgRec, bgRecOpen, bgRecTimer, bgPlaying>>

\* invokedCb schedules the end of the recording.
BgInvoked ==
  /\ bgPhase = "record" /\ bgRecOpen /\ bgRecTimer = BgNever
  /\ bgRecTimer' = bgNow + bgSet.duration
  /\ UNCHANGED <<bgSet, bgNow, bgPhase, bgIn, bgCin, bgRec, bgRecOpen, bgFile, bgKept, bgPlaying>>

\* Later the file is played.  A console's clock starts anywhere, a simulation's at
\* the start of the range or of the bag.
BgOpen == bgPos' = 1 /\ bgPlayOpen' = TRUE
BgPlayCmd == ~bgSet.sim /\ bgNow' = 0 /\ bgPrev' = bgFile[1].ts
BgSimClock ==
  /\ bgSet.sim /\ UNCHANGED bgPrev
  /\ bgNow' = IF bgSet.range = <<>> THEN bgFile[1].ts ELSE bgSet.range[1]
BgPlayBegins ==
  /\ bgPhase' = "play" /\ BgOpen
  /\ BgPlayCmd \/ BgSimClock
  /\ bgFire' = bgNow' /\ bgSubs' = bgSet.subs
  /\ UNCHANGED <<bgGood, bgTag, bgTs, bgOk, bgRefs, bgInterval, bgPc, bgDone, bgPub, bgOdd>>

\* The timer closes the bag and throws: the node is gone.
BgRecordEnds ==
  /\ bgPhase = "record" /\ bgRecTimer # BgNever /\ bgRecTimer <= bgNow
  /\ bgRec' = "closed" /\ bgRecOpen' = FALSE
  /\ BgPlayBegins
  /\ UNCHANGED <<bgSet, bgIn, bgCin, bgRecTimer, bgFile, bgKept>>

\* The stdin thread meets "exit" or the end of its input and closes the bag while
\* the node still handles messages, until the domain is stopped.
BgInputEnds ==
  /\ bgPhase = "record" /\ bgCin = "commands"
  /\ bgCin' = "ended" /\ bgRec' = "closed"
  /\ UNCHANGED <<bgSet, bgNow, bgPhase, bgIn, bgRecOpen, bgRecTimer, bgFile, bgKept, bgPlaying>>
BgStopped ==
  /\ bgPhase = "record" /\ bgCin = "ended"
  /\ BgPlayBegins
  /\ UNCHANGED <<bgSet, bgRecording>>

BgCrash ==
  /\ bgPhase = "record" /\ bgSet.crashes /\ bgCin # "start"
  /\ \E k \in 1..Len(bgFile) : bgFile' = SubSeq(bgFile, 1, k)
  /\ BgPlayBegins
  /\ UNCHANGED <<bgSet, bgIn, bgCin, bgRec, bgRecOpen, bgRecTimer, bgKept>>

-----------------------------------------------------------------------------
(* InputBag::play.                                                          *)

BgInRange(t) == bgSet.range # <<>> => t < bgSet.range[1] + bgSet.range[2]
BgChosen(n, t) ==
  bgSet.tag[n] \in bgSet.filter /\ (bgSet.range # <<>> => t >= bgSet.range[1])

\* The pieces of a record beyond its head, and how far it is skipped.
BgBeyond(n) == IF bgSet.att[n] THEN 2 ELSE 1
\* Mutant of BgSeek: the attachment is not skipped.
BgSeekBody(n) == 1
BgSeek(n) == IF bgSet.att[n] THEN 2 ELSE 1

BgPlayFails(good, tag) ==
  /\ bgPlayOpen' = FALSE /\ bgOk' = FALSE /\ bgPc' = "result"
  /\ bgGood' = good /\ bgTag' = tag
  /\ UNCHANGED <<bgPos, bgTs, bgRefs>>

\* One turn of the loop.  A record that is cut off ends the playing with the tag
\* already set; its attachment is released at once.
BgEof == ~bgPlayOpen \/ bgPos >= Len(bgFile)
BgPlay ==
  /\ bgPc = "play"
  /\ \/ BgEof /\ BgPlayFails(FALSE, bgTag)
     \/ /\ ~BgEof
        /\ LET h == bgFile[bgPos + 1]
               n == h.n
               whole == bgPos + 1 + BgBeyond(n) <= Len(bgFile)
           IN \/ ~BgInRange(h.ts) /\ BgPlayFails(bgGood, bgTag)
              \/ /\ BgInRange(h.ts) /\ BgChosen(n, h.ts) /\ ~whole
                 /\ BgPlayFails(FALSE, n)
              \/ /\ BgInRange(h.ts) /\ BgChosen(n, h.ts) /\ whole
                 /\ bgTag' = n /\ bgTs' = h.ts /\ bgOk' = TRUE /\ bgPc' = "result"
                 /\ bgPos' = bgPos + 1 + BgBeyond(n)
                 /\ bgRefs' = IF bgSet.att[n] THEN [bgRefs EXCEPT ![n] = 1] ELSE bgRefs
                 /\ UNCHANGED <<bgGood, bgPlayOpen>>
              \/ /\ BgInRange(h.ts) /\ ~BgChosen(n, h.ts)
                 /\ bgPos' = bgPos + 1 + BgSeek(n)
                 /\ UNCHANGED <<bgGood, bgPlayOpen, bgTag, bgTs, bgOk, bgRefs, bgPc>>
  /\ UNCHANGED <<bgSet, bgNow, bgPhase, bgRecording, bgTiming, bgSubs, bgDone, bgPub, bgOdd>>

-----------------------------------------------------------------------------
(* The two players.                                                         *)

\* A published attachment is released once by the domain, and once more when the
\* console itself has subscribed to its tag.
BgReleases(n) == IF ~bgSet.sim /\ bgSet.tag[n] \in bgSubs THEN 2 ELSE 1
BgPublish(n) ==
  IF n = 0 THEN UNCHANGED <<bgPub, bgRefs>>
  ELSE /\ bgPub' = Append(bgPub, [n |-> n, at |-> bgNow, late |-> bgDone])
       /\ bgRefs' = IF bgSet.att[n] THEN [bgRefs EXCEPT ![n] = @ - BgReleases(n)] ELSE bgRefs

\* playBagFireTimer_ fires: what was read last is published, the next one read.
BgFires ==
  /\ bgPhase = "play" /\ bgPc = "idle" /\ bgFire <= bgNow
  /\ BgPublish(bgTag)
  /\ bgPc' = "play" /\ bgTag' = IF bgSet.sim THEN 0 ELSE bgTag
  /\ bgFire' = bgNow
  /\ UNCHANGED <<bgSet, bgNow, bgPhase, bgRecording, bgPos, bgGood, bgPlayOpen, bgTs, bgOk,
                 bgPrev, bgInterval, bgSubs, bgDone, bgOdd>>

\* The console waits as long as it took when the bag was recorded, and sets how
\* often it expects the attachment to be released.
BgExpected(n) == BgReleases(n)
BgGap == bgTs - bgPrev
BgConsoleNext ==
  /\ bgPc = "result" /\ ~bgSet.sim /\ bgPc' = "idle"
  /\ \/ /\ bgOk
        /\ bgInterval' = BgGap /\ bgFire' = bgFire + BgGap /\ bgPrev' = bgTs
        /\ bgRefs' = IF bgSet.att[bgTag] THEN [bgRefs EXCEPT ![bgTag] = BgExpected(bgTag)]
                     ELSE bgRefs
        /\ UNCHANGED <<bgPhase, bgTag>>
     \/ /\ ~bgOk
        /\ bgTag' = 0 /\ bgPhase' = "over"
        /\ UNCHANGED <<bgTiming, bgRefs>>
  /\ UNCHANGED <<bgSet, bgNow, bgRecording, bgPos, bgGood, bgPlayOpen, bgTs, bgOk, bgSubs,
                 bgDone, bgPub, bgOdd>>

\* The simulation publishes at once what is due, waits for what is not, and ends
\* only at the end of the file; past the range play() has closed it, and the next
\* read meets its end.  Its timer is not cancelled: when it fires again before the
\* domain is stopped, the promise is set twice, which throws.
BgDueNow == ~bgOk \/ bgNow >= bgTs
BgSimNext ==
  /\ bgPc = "result" /\ bgSet.sim
  /\ \/ /\ ~bgGood /\ ~bgDone
        /\ bgDone' = TRUE /\ bgFire' = bgFire + bgInterval /\ bgPc' = "idle"
        /\ UNCHANGED <<bgPhase, bgTag, bgInterval, bgPub, bgRefs>>
     \/ /\ ~bgGood /\ bgDone
        /\ bgPhase' = "over" /\ bgPc' = "idle"
        /\ UNCHANGED <<bgDone, bgFire, bgTag, bgInterval, bgPub, bgRefs>>
     \/ /\ bgGood /\ BgDueNow
        /\ BgPublish(bgTag) /\ bgTag' = 0 /\ bgPc' = "play"
        /\ UNCHANGED <<bgPhase, bgDone, bgFire, bgInterval>>
     \/ /\ bgGood /\ ~BgDueNow
        /\ bgInterval' = bgTs - bgFire /\ bgFire' = bgTs /\ bgPc' = "idle"
        /\ UNCHANGED <<bgPhase, bgDone, bgTag, bgPub, bgRefs>>
  /\ UNCHANGED <<bgSet, bgNow, bgRecording, bgPos, bgGood, bgPlayOpen, bgTs, bgOk, bgPrev, bgSubs,
                 bgOdd>>

\* simulate() returns and its caller stops the domain.
BgSimStops ==
  /\ bgPhase = "play" /\ bgDone /\ bgPhase' = "over"
  /\ UNCHANGED <<bgSet, bgNow, bgRecording, bgPlaying>>

\* "subtags" while the console plays.
BgSubscribe ==
  /\ bgPhase = "play" /\ ~(bgSet.late \subseteq bgSubs)
  /\ bgSubs' = bgSubs \cup bgSet.late
  /\ bgOdd' = IF bgTag > 0 THEN {bgTag} ELSE {}
  /\ UNCHANGED <<bgSet, bgNow, bgPhase, bgRecording, bgReading, bgTiming, bgPc, bgDone, bgPub>>

-----------------------------------------------------------------------------
\* Something a thread could do now.
BgPending ==
  \/ bgPhase = "record" /\ \/ bgCin # "commands"
                           \/ bgRecOpen /\ bgRecTimer <= bgNow
  \/ bgPhase = "play" /\ (bgPc # "idle" \/ bgFire <= bgNow)
BgTick ==
  /\ bgSet.tag # <<>> /\ bgPhase # "over"
  /\ bgNow < IF bgPhase = "record" THEN BgMaxRec ELSE BgMaxPlay
  /\ BgPending => bgNow < BgMaxLate
  /\ bgNow' = bgNow + 1
  /\ UNCHANGED <<bgSet, bgPhase, bgRecording, bgPlaying>>

BgInit ==
  /\ bgSet \in BgSettings
  /\ bgNow = 0 /\ bgPhase = "record" /\ bgIn = 0 /\ bgCin = "start" /\ bgRec = "none"
  /\ bgRecOpen = FALSE /\ bgRecTimer = BgNever /\ bgFile = <<>> /\ bgKept = <<>>
  /\ bgPos = 0 /\ bgGood = TRUE /\ bgPlayOpen = FALSE /\ bgTag = 0 /\ bgTs = 0 /\ bgOk = FALSE
  /\ bgRefs = [n \in 1..Len(bgSet.tag) |-> 0]
  /\ bgPrev = 0 /\ bgInterval = 0 /\ bgFire = 0 /\ bgPc = "idle" /\ bgSubs = {}
  /\ bgDone = FALSE /\ bgPub = <<>> /\ bgOdd = {}

BgThreads ==
  \/ BgRecordCmd \/ BgInvoked \/ BgRecordEnds \/ BgStopped
  \/ BgFires \/ BgPlay \/ BgConsoleNext \/ BgSimNext
BgNext == BgThreads \/ BgTick \/ BgHandle \/ BgInputEnds \/ BgCrash \/ BgSimStops \/ BgSubscribe

\* The console's two threads and the player's run, and time goes by.
BgFairness == WF_bgVars(BgThreads \/ BgTick)
BgSpec == BgInit /\ [][BgNext]_bgVars /\ BgFairness

-----------------------------------------------------------------------------
\* Type correctness.
BgTypeOK ==
  /\ bgPhase \in {"record", "play", "over"} /\ bgCin \in {"start", "made", "commands", "ended"}
  /\ bgIn \in 0..BgN /\ bgTag \in 0..BgN /\ bgPc \in {"idle", "play", "result"}
  /\ (bgPhase # "record" => bgPos \in 1..Len(bgFile))
  /\ bgRec \in {"none", "open", "closed"} /\ bgInterval >= 0 /\ DOMAIN bgRefs = 1..BgN

\* What a bag has of a message: nothing, a part, or all of it.
BgWhole(n) ==
  \E i \in DOMAIN bgFile : bgFile[i].n = n /\ bgFile[i].is = IF bgSet.att[n] THEN "att" ELSE "body"
BgToPlay ==
  SelectSeq(bgKept, LAMBDA k : BgWhole(k.n) /\ BgChosen(k.n, k.at) /\ BgInRange(k.at))
BgPlayed == SelectSeq(bgPub, LAMBDA p : ~p.late)
BgCut == bgFile # <<>> /\ Last(bgFile).n # 0 /\ ~BgWhole(Last(bgFile).n)

\* Playing repeats what was recorded: the messages recorded whole that the filter
\* and the range choose, in their order and each once, whenever the recorder stopped
\* or crashed.  Only a simulation of a file cut within a record may publish that
\* record after its end (simulation.hpp:118, Bag.hpp:254).
BgRepeats ==
  /\ Len(BgPlayed) <= Len(BgToPlay)
  /\ \A i \in DOMAIN BgPlayed : BgPlayed[i].n = BgToPlay[i].n
  /\ ~BgCut => bgPub = BgPlayed

\* Never faster than recorded: a console keeps at least the time between two
\* messages, a simulation publishes none before its time (ConsoleNode.hpp:479,
\* simulation.hpp:129-132).
BgNotEarly ==
  \A i \in DOMAIN BgPlayed :
    IF bgSet.sim THEN BgPlayed[i].at >= BgToPlay[i].at
    ELSE IF i = 1 THEN BgPlayed[1].at >= BgToPlay[1].at - bgFile[1].ts
    ELSE BgPlayed[i].at - BgPlayed[i - 1].at >= BgToPlay[i].at - BgToPlay[i - 1].at

\* An attachment read from a bag is freed once: the console expects as many releases
\* as there will be, unless the tag is subscribed to between reading and publishing
\* the message (ConsoleNode.hpp:485).
BgFreedOnce ==
  \A i \in DOMAIN BgPlayed :
    LET n == BgPlayed[i].n IN n \notin bgOdd => bgRefs[n] = 0

\* Recording ends and playing gets to its end, also past a range and in a file that
\* a crash cut off.
BgEnds ==
  bgSet.tag # <<>> => (bgPhase = "over" \/ bgDone) /\ Len(BgPlayed) = Len(BgToPlay)

\* What recording and playing a bag keep true: records come back as they were, not too
\* early, their attachments freed once.
BgSafety == BgTypeOK /\ BgRepeats /\ BgNotEarly /\ BgFreedOnce

\* Where recording and playing lead to in the end.
BgSettled == BgEnds
=============================================================================
