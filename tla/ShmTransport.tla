----------------------------- MODULE ShmTransport -----------------------------
(***************************************************************************)
(* How processes open the shared memory of an ipc Context                    *)
(* (os/Allocators.hpp, ShmBasePtrAllocator; app/Context.hpp,                 *)
(* ThreadCommBase): a process creates it or attaches to it, by its           *)
(* ownership flag (1: create afresh, -1: attach, 0: whichever comes first),   *)
(* constructs the ring when it has created it, and then creates or opens the  *)
(* second shared memory, the attachments' pool, which tells attachers that    *)
(* the ring is ready.  An owner that leaves removes both; one that crashes    *)
(* leaves them behind.                                                        *)
(*                                                                           *)
(* A step is one system call.  A process that fails sleeps for a second and   *)
(* tries again, three times.  All processes ask for the same size.            *)
(***************************************************************************)
EXTENDS Integers, Sequences, FiniteSets

\* own: the flag of each process; exits, crashes: processes that may leave or crash;
\* prompt: a second is longer than it takes the others to open the memory.
CONSTANT ShSettings

ASSUME ShAssumption ==
  \A s \in ShSettings :
    /\ s.own \in Seq({-1, 0, 1}) /\ s.prompt \in BOOLEAN
    /\ s.exits \subseteq DOMAIN s.own /\ s.crashes \subseteq DOMAIN s.own

VARIABLES
  shSet,     \* the setting explored, chosen once
  shPc,      \* step of each process
  shOwner,   \* ownership, which the constructor may change
  shTries,   \* tries left
  shFd,      \* segment it has opened, 0 for none
  shPool,    \* the process whose pool it has opened, 0 for none
  shSegs,    \* segments ever created: by whom, whether sized and constructed
  shName,    \* the segment that the name stands for, 0 when it is removed
  shPoolName \* the process whose pool the pool's name stands for

shProcess == <<shPc, shOwner, shTries, shFd, shPool>>
shMemory == <<shSegs, shName, shPoolName>>
shVars == <<shSet, shProcess, shMemory>>

ShProcs == DOMAIN shSet.own
ShNone == 0
ShGo(p, pc) == shPc' = [shPc EXCEPT ![p] = pc]

-----------------------------------------------------------------------------
(* ShmBasePtrAllocator.                                                     *)

ShMaxTries == 3

ShGivesUp(p) == shTries[p] = 1
\* An exception: closed, and tried again after a second or given up.
ShRetry(p) ==
  /\ shTries' = [shTries EXCEPT ![p] = @ - 1]
  /\ shFd' = [shFd EXCEPT ![p] = ShNone]
  /\ ShGo(p, IF ShGivesUp(p) THEN "failed" ELSE "sleep")

ShOpening == {"begin", "create", "attach", "size", "stat", "lock", "make", "pool", "freshpool"}
ShWakes(p) ==
  /\ shPc[p] \in {"sleep", "poolsleep"}
  /\ shSet.prompt => \A q \in ShProcs : shPc[q] \notin ShOpening
  /\ ShGo(p, IF shPc[p] = "sleep" THEN "begin" ELSE "pool")
  /\ UNCHANGED <<shSet, shOwner, shTries, shFd, shPool, shMemory>>

ShBegin(p) ==
  /\ shPc[p] = "begin"
  /\ shName' = IF shOwner[p] > 0 THEN ShNone ELSE shName
  /\ ShGo(p, IF shOwner[p] < 0 THEN "attach" ELSE "create")
  /\ UNCHANGED <<shSet, shOwner, shTries, shFd, shPool, shSegs, shPoolName>>

\* shm_open with O_CREAT | O_EXCL
ShCreate(p) ==
  /\ shPc[p] = "create"
  /\ \/ /\ shName = ShNone
        /\ shSegs' = Append(shSegs, [by |-> p, sized |-> FALSE, made |-> FALSE])
        /\ shName' = Len(shSegs') /\ shFd' = [shFd EXCEPT ![p] = Len(shSegs')]
        /\ shOwner' = [shOwner EXCEPT ![p] = 1] /\ ShGo(p, "size")
        /\ UNCHANGED shTries
     \/ /\ shName # ShNone /\ shOwner[p] = 0
        /\ ShGo(p, "attach") /\ UNCHANGED <<shOwner, shTries, shFd, shSegs, shName>>
     \/ /\ shName # ShNone /\ shOwner[p] > 0
        /\ ShRetry(p) /\ UNCHANGED <<shOwner, shSegs, shName>>
  /\ UNCHANGED <<shSet, shPool, shPoolName>>

ShAttach(p) ==
  /\ shPc[p] = "attach"
  /\ \/ /\ shName # ShNone
        /\ shFd' = [shFd EXCEPT ![p] = shName] /\ shOwner' = [shOwner EXCEPT ![p] = -1]
        /\ ShGo(p, "stat") /\ UNCHANGED shTries
     \/ /\ shName = ShNone
        /\ ShRetry(p) /\ UNCHANGED shOwner
  /\ UNCHANGED <<shSet, shPool, shMemory>>

ShSize(p) ==
  /\ shPc[p] = "size"
  /\ shSegs' = [shSegs EXCEPT ![shFd[p]].sized = TRUE] /\ ShGo(p, "stat")
  /\ UNCHANGED <<shSet, shOwner, shTries, shFd, shPool, shName, shPoolName>>

\* stat looks the name up again; without it the size is not set, and may be any.
ShSizeFits == IF shName = ShNone THEN BOOLEAN ELSE {shSegs[shName].sized}
ShStat(p) ==
  /\ shPc[p] = "stat"
  /\ \E fits \in ShSizeFits :
       IF fits THEN ShGo(p, "lock") /\ UNCHANGED <<shTries, shFd>> ELSE ShRetry(p)
  /\ UNCHANGED <<shSet, shOwner, shPool, shMemory>>

\* mmap, and the file lock, which opens the name once more.
ShLock(p) ==
  /\ shPc[p] = "lock"
  /\ IF shName # ShNone THEN ShGo(p, "make") /\ UNCHANGED <<shTries, shFd>> ELSE ShRetry(p)
  /\ UNCHANGED <<shSet, shOwner, shPool, shMemory>>

\* allocate: the ring is constructed by who created the segment.
ShConstructs(p) == shOwner[p] > 0
ShMake(p) ==
  /\ shPc[p] = "make"
  /\ shSegs' = [shSegs EXCEPT ![shFd[p]].made = @ \/ ShConstructs(p)]
  /\ shTries' = [shTries EXCEPT ![p] = ShMaxTries] /\ ShGo(p, "pool")
  /\ UNCHANGED <<shSet, shOwner, shFd, shPool, shName, shPoolName>>

-----------------------------------------------------------------------------
(* ThreadCommBase's attachments' pool.                                      *)

\* Giving up destroys the allocator.
ShPoolRetry(p) ==
  /\ shTries' = [shTries EXCEPT ![p] = @ - 1]
  /\ ShGo(p, IF ShGivesUp(p) THEN "failed" ELSE "poolsleep")
  /\ shName' = IF ShGivesUp(p) /\ shOwner[p] > 0 THEN ShNone ELSE shName

ShMayAttach == shPoolName # ShNone
ShOpenPool(p) ==
  /\ shPc[p] = "pool"
  /\ \/ /\ shOwner[p] > 0
        /\ shPoolName' = ShNone /\ ShGo(p, "freshpool") /\ UNCHANGED <<shPool, shTries, shName>>
     \/ /\ shOwner[p] <= 0 /\ ShMayAttach
        /\ shPool' = [shPool EXCEPT ![p] = shPoolName] /\ ShGo(p, "up")
        /\ UNCHANGED <<shPoolName, shTries, shName>>
     \/ /\ shOwner[p] <= 0 /\ ~ShMayAttach
        /\ ShPoolRetry(p) /\ UNCHANGED <<shPool, shPoolName>>
  /\ UNCHANGED <<shSet, shOwner, shFd, shSegs>>
ShCreatePool(p) ==
  /\ shPc[p] = "freshpool"
  /\ \/ /\ shPoolName = ShNone
        /\ shPoolName' = p /\ shPool' = [shPool EXCEPT ![p] = p] /\ ShGo(p, "up")
        /\ UNCHANGED <<shTries, shName>>
     \/ /\ shPoolName # ShNone
        /\ ShPoolRetry(p) /\ UNCHANGED <<shPool, shPoolName>>
  /\ UNCHANGED <<shSet, shOwner, shFd, shSegs>>

\* Mutant of ShBye: the segment goes before the pool.
ShByeSwapped == <<"segment", "pool">>
\* Leaving: the pool is destroyed first, then the allocator; an owner removes names.
ShBye == <<"pool", "segment">>
ShRemove(p, what) ==
  /\ shPoolName' = IF what = "pool" /\ shOwner[p] > 0 THEN ShNone ELSE shPoolName
  /\ shName' = IF what = "segment" /\ shOwner[p] > 0 THEN ShNone ELSE shName
ShLeave(p) ==
  /\ p \in shSet.exits
  /\ \/ shPc[p] = "up" /\ ShRemove(p, ShBye[1]) /\ ShGo(p, "leaving")
     \/ shPc[p] = "leaving" /\ ShRemove(p, ShBye[2]) /\ ShGo(p, "gone")
  /\ UNCHANGED <<shSet, shOwner, shTries, shFd, shPool, shSegs>>

ShCrash(p) ==
  /\ p \in shSet.crashes /\ shPc[p] \notin {"failed", "gone"}
  /\ ShGo(p, "gone")
  /\ UNCHANGED <<shSet, shOwner, shTries, shFd, shPool, shMemory>>

-----------------------------------------------------------------------------
ShInit ==
  /\ shSet \in ShSettings
  /\ shPc = [p \in ShProcs |-> "begin"] /\ shOwner = shSet.own
  /\ shTries = [p \in ShProcs |-> ShMaxTries] /\ shFd = [p \in ShProcs |-> ShNone]
  /\ shPool = [p \in ShProcs |-> ShNone]
  /\ shSegs = <<>> /\ shName = ShNone /\ shPoolName = ShNone

ShStep(p) ==
  \/ ShWakes(p) \/ ShBegin(p) \/ ShCreate(p) \/ ShAttach(p) \/ ShSize(p) \/ ShStat(p)
  \/ ShLock(p) \/ ShMake(p) \/ ShOpenPool(p) \/ ShCreatePool(p)
ShNext == \E p \in ShProcs : ShStep(p) \/ ShLeave(p) \/ ShCrash(p)

\* Processes that are opening the memory are scheduled.
ShFairness == WF_shVars(\E p \in ShProcs : ShStep(p))
ShSpec == ShInit /\ [][ShNext]_shVars /\ ShFairness

-----------------------------------------------------------------------------
\* Type correctness.
ShTypeOK ==
  /\ shName \in 0..Len(shSegs) /\ shPoolName \in {ShNone} \cup ShProcs
  /\ \A p \in ShProcs : /\ shFd[p] \in 0..Len(shSegs) /\ shTries[p] \in 0..ShMaxTries
                        /\ shOwner[p] \in {-1, 0, 1}

\* Nothing is left over from a crash and nobody removes what it has not created.
ShOrderly == shSet.crashes = {} /\ \A p \in ShProcs : shSet.own[p] < 1
ShUp(p) == shPc[p] = "up"

\* Nobody works on a ring that is not constructed yet, whether it created the memory
\* or found it between its creation and its construction (Allocators.hpp:249-263,
\* Context.hpp:667).
ShReady ==
  \A p \in ShProcs :
    ShUp(p) /\ (ShOrderly \/ shOwner[p] > 0) => shSegs[shFd[p]].sized /\ shSegs[shFd[p]].made

\* While an owner is there both names stand for what it created: an owner that leaves
\* removes only its own, although it removes them by name (Allocators.hpp:289,
\* Context.hpp:737).
ShNamesKept ==
  \A p \in ShProcs :
    ShUp(p) /\ shOwner[p] > 0 /\ ShOrderly => shName = shFd[p] /\ shPoolName = p

\* Processes that find each other share both memories: who attached to the ring of an
\* owner that is still there has the owner's pool, too.
ShTogether ==
  \A p \in ShProcs :
    ShUp(p) /\ ShOrderly =>
      LET owner == shSegs[shFd[p]].by IN ShUp(owner) => shPool[p] = owner

\* However their steps interleave, one process becomes the owner and all the others
\* attach within their tries, if the owner needs less than a second.
ShAllUp ==
  shSet.prompt =>
    /\ \A p \in ShProcs : ShUp(p) /\ shFd[p] = shName
    /\ ShProcs # {} => Cardinality({p \in ShProcs : shOwner[p] > 0}) = 1

\* What owner and attachers of the shared memory keep true: whoever is up uses constructed
\* objects of one and the same owner, and names go with their objects.
ShSafety == ShTypeOK /\ ShReady /\ ShNamesKept /\ ShTogether

\* Where opening the memory leads to in the end.
ShSettled == ShAllUp
=============================================================================
