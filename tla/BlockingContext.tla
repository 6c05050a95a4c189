-------------------------- MODULE BlockingContext --------------------------
(***************************************************************************)
(* hmbdc/app/BlockingContext.hpp over hmbdc/pattern/BlockingBuffer.hpp: a  *)
(* Context whose clients sleep when they have nothing to do.  Each client  *)
(* has a queue of its own, or several clients share one (load sharing).  A *)
(* sender puts its message into one queue after the other and sleeps where *)
(* a queue is full.                                                        *)
(*                                                                         *)
(* A queue is a ring with a mutex and two condition variables, and one     *)
(* action is one critical section.  Waiting on a condition variable, being *)
(* notified and finding the predicate again are separate steps, and so is  *)
(* a notification sent after the mutex was released.  A message is         *)
(* identified with its position in the queue.                              *)
(***************************************************************************)
EXTENDS Integers, FiniteSets

CONSTANTS
  Senders,      \* sender threads
  Clients,      \* client threads
  Queues,       \* the transports of the Context, numbered in the order they are visited
  Deployments,  \* the ways the clients may be started: the queue of each client
  Routes,       \* where interests and deliver predicates let a message go
  capacity,     \* slots in a queue
  SIZE_MAX,     \* numeric_limits<size_t>::max()
  MaxSeq,       \* bound: messages ever sent
  Lengths,      \* n of the range sent, empty when nobody calls it
  Throwers,     \* clients whose callbacks may throw
  MayStop       \* is the Context stopped at some time?

ASSUME BlockingAssumption ==
  /\ Queues \subseteq Nat /\ IsFiniteSet(Queues)
  /\ IsFiniteSet(Clients)
  /\ Deployments \subseteq [Clients -> Queues]
  /\ Routes \subseteq SUBSET Queues
  /\ capacity \in Nat \ {0}
  /\ SIZE_MAX \in Nat
  /\ MaxSeq \in Nat
  /\ Lengths \subseteq 1 .. capacity
  /\ capacity + MaxSeq < SIZE_MAX
  /\ Throwers \subseteq Clients
  /\ MayStop \in BOOLEAN

VARIABLES
  serves,         \* the queue of each client, settled by start before the first send
  size, seq,      \* of each queue: messages in it, messages ever put
  store,          \* the message in each slot of each queue
  outstanding,    \* of each queue: outstandingPeekExclusiveSeqs_
  peeked,         \* of each queue: peekedExclusiveInSize_
  sent,           \* messages sent so far
  pc,             \* what each sender is doing
  pmode, pn,      \* its call: send, try or range, and the number of messages
  pdest,          \* the queues it still has to visit
  stopped,        \* stopped_ of the Context
  cpc,            \* what each client thread is doing
  cpos, cend,     \* the messages it peeked and has not given to the client
  ccount,         \* what peek returned
  given, again    \* history: of each queue, the messages clients were given, and more than once

queueVars == <<size, seq, store, outstanding, peeked>>
sendVars == <<sent, pc, pmode, pn, pdest>>
rangeVars == <<cpos, cend, ccount>>
ctxVars == <<serves, stopped>>
history == <<given, again>>
vars == <<queueVars, sendVars, ctxVars, cpc, rangeVars, history>>

Wrap(x) == x % (SIZE_MAX + 1)       \* size_t
Slot(s) == s % capacity             \* getItem

\* seq_ - n, in size_t; seq_ itself never comes to wrap.
Back(q, n) == IF n <= seq[q] THEN seq[q] - n ELSE seq[q] - n + SIZE_MAX + 1

ClientsOf(q) == {c \in Clients : serves[c] = q}

\* Queues started with a range of clients.
Sharing == {q \in Queues : Cardinality(ClientsOf(q)) > 1}

isFull(q) == size[q] = capacity

-----------------------------------------------------------------------------
(***************************************************************************)
(* Senders.                                                                *)
(***************************************************************************)
\* A call of send, sendInPlace, trySend or trySendInPlace, or of the range send.
Send(p, mode, n, dest) ==
  /\ pc[p] = "idle"
  /\ sent + n <= MaxSeq
  /\ sent' = sent + n
  /\ pmode' = [pmode EXCEPT ![p] = mode]
  /\ pn' = [pn EXCEPT ![p] = n]
  /\ pdest' = [pdest EXCEPT ![p] = dest]
  /\ pc' = [pc EXCEPT ![p] = "put"]
  /\ UNCHANGED <<queueVars, ctxVars, cpc, rangeVars, history>>

\* The queue the sender is at: it visits them in order.
At(p) == CHOOSE q \in pdest[p] : \A r \in pdest[p] : q <= r

\* Mutant of HasSlot: one slot too many.
HasSlotOneMore(p) == capacity >= Wrap(size[At(p)] + pn[p] - 1)

HasSlot(p) == capacity > Wrap(size[At(p)] + pn[p] - 1)

Return(p) ==
  /\ pc' = [pc EXCEPT ![p] = "idle"]
  /\ pmode' = [pmode EXCEPT ![p] = "none"]
  /\ pn' = [pn EXCEPT ![p] = 0]
  /\ pdest' = [pdest EXCEPT ![p] = {}]

\* The sender is done with its queue and goes on to the next one.
Onward(p) ==
  \/ pdest[p] = {At(p)} /\ Return(p)
  \/ /\ pdest[p] # {At(p)}
     /\ pdest' = [pdest EXCEPT ![p] = @ \ {At(p)}]
     /\ pc' = [pc EXCEPT ![p] = "put"]
     /\ UNCHANGED <<pmode, pn>>

\* putInPlace, tryPut and tryPutBatchInPlace with room in the queue: fill the slots
\* and, if the queue was empty, unlock and notify.
Put(p) ==
  /\ pc[p] = "put" \/ (pc[p] = "asleep" /\ pmode[p] = "try")
  /\ HasSlot(p)
  /\ LET q == At(p)
         new == seq[q] .. seq[q] + pn[p] - 1
     IN /\ store' = [store EXCEPT ![q] = [i \in 0 .. capacity - 1 |->
             IF \E s \in new : Slot(s) = i THEN CHOOSE s \in new : Slot(s) = i ELSE @[i]]]
        /\ seq' = [seq EXCEPT ![q] = @ + pn[p]]
        /\ size' = [size EXCEPT ![q] = Wrap(@ + pn[p])]
        /\ \/ /\ size'[q] = pn[p]
              /\ pc' = [pc EXCEPT ![p] = "notify"]
              /\ UNCHANGED <<pmode, pn, pdest>>
           \/ size'[q] # pn[p] /\ Onward(p)
  /\ UNCHANGED <<outstanding, peeked, sent, ctxVars, cpc, rangeVars, history>>

\* hasSlot_.wait; a range send polls in place of waiting.
Sleep(p) ==
  /\ pc[p] = "put"
  /\ pmode[p] \in {"send", "try"}
  /\ ~HasSlot(p)
  /\ pc' = [pc EXCEPT ![p] = "asleep"]
  /\ UNCHANGED <<queueVars, sent, pmode, pn, pdest, ctxVars, cpc, rangeVars, history>>

\* trySend gives up, at once or when its time is over; what it has put stays put.
TryFails(p) ==
  /\ pc[p] \in {"put", "asleep"}
  /\ pmode[p] = "try"
  /\ ~HasSlot(p)
  /\ Return(p)
  /\ UNCHANGED <<queueVars, sent, ctxVars, cpc, rangeVars, history>>

\* hasItem_.notify_all, after the mutex was released.
NotifyItem(p) ==
  /\ pc[p] = "notify"
  /\ cpc' = [c \in Clients |->
       IF serves[c] = At(p) /\ cpc[c] = "asleep" THEN "wait" ELSE cpc[c]]
  /\ Onward(p)
  /\ UNCHANGED <<queueVars, sent, ctxVars, rangeVars, history>>

SendStep(p) == Put(p) \/ Sleep(p) \/ TryFails(p) \/ NotifyItem(p)

-----------------------------------------------------------------------------
(***************************************************************************)
(* Clients: kickOffClientThread around runOnceImpl and                     *)
(* runOnceLoadSharingImpl.                                                 *)
(***************************************************************************)
Stop ==
  /\ MayStop /\ ~stopped
  /\ stopped' = TRUE
  /\ UNCHANGED <<serves, queueVars, sendVars, cpc, rangeVars, history>>

Goto(c, where) == cpc' = [cpc EXCEPT ![c] = where]

NoRange(c) ==
  /\ cpos' = [cpos EXCEPT ![c] = 0]
  /\ cend' = [cend EXCEPT ![c] = 0]
  /\ ccount' = [ccount EXCEPT ![c] = 0]

\* while(!stopped_ && ...
Loop(c) ==
  /\ cpc[c] = "loop"
  /\ \/ stopped /\ Goto(c, "exit")
     \/ ~stopped /\ Goto(c, "peek")
  /\ UNCHANGED <<queueVars, sendVars, ctxVars, rangeVars, history>>

\* peek: all that is in the queue.
Peek(c) ==
  LET q == serves[c] IN
  /\ cpc[c] = "peek"
  /\ q \notin Sharing
  /\ cpos' = [cpos EXCEPT ![c] = Back(q, size[q])]
  /\ cend' = [cend EXCEPT ![c] = seq[q]]
  /\ ccount' = [ccount EXCEPT ![c] = size[q]]
  /\ Goto(c, "handle")
  /\ UNCHANGED <<queueVars, sendVars, ctxVars, history>>

\* Mutant of PeekExclusive: the message is not counted as peeked.
PeekShared(c) ==
  LET q == serves[c] IN
  /\ cpc[c] = "peek"
  /\ q \in Sharing
  /\ size[q] > 0
  /\ outstanding' = [outstanding EXCEPT ![q] = @ \cup {seq[q] - size[q]}]
  /\ cpos' = [cpos EXCEPT ![c] = seq[q] - size[q]]
  /\ cend' = [cend EXCEPT ![c] = seq[q] - size[q] + 1]
  /\ ccount' = [ccount EXCEPT ![c] = 1]
  /\ Goto(c, "handle")
  /\ UNCHANGED <<size, seq, store, peeked, sendVars, ctxVars, history>>

\* peekExclusive: the first message nobody has peeked, if there is one.
PeekExclusive(c) ==
  LET q == serves[c]
      s == Back(q, size[q] - peeked[q])
  IN
  /\ cpc[c] = "peek"
  /\ q \in Sharing
  /\ \/ /\ size[q] > peeked[q]
        /\ peeked' = [peeked EXCEPT ![q] = @ + 1]
        /\ outstanding' = [outstanding EXCEPT ![q] = @ \cup {s}]
        /\ cpos' = [cpos EXCEPT ![c] = s]
        /\ cend' = [cend EXCEPT ![c] = s + 1]
        /\ ccount' = [ccount EXCEPT ![c] = 1]
        /\ Goto(c, "handle")
     \/ /\ size[q] <= peeked[q]
        /\ Goto(c, "wait")
        /\ UNCHANGED <<peeked, outstanding, rangeVars>>
  /\ UNCHANGED <<size, seq, store, sendVars, ctxVars, history>>

\* A client is given message m.
Given(q, m) ==
  /\ given' = [given EXCEPT ![q] = @ \cup {m}]
  /\ again' = [again EXCEPT ![q] = @ \cup ({m} \cap given[q])]

Handle(c) ==
  /\ cpc[c] = "handle"
  /\ cpos[c] < cend[c]
  /\ Given(serves[c], store[serves[c]][Slot(cpos[c])])
  /\ cpos' = [cpos EXCEPT ![c] = @ + 1]
  /\ UNCHANGED <<queueVars, sendVars, ctxVars, cpc, cend, ccount>>

\* A callback throws.  The client leaves, or droppedCb puts it back; what it had
\* peeked is not wasted.  Once the Context is stopped the exception is ignored.
Throw(c) ==
  /\ cpc[c] = "handle"
  /\ c \in Throwers
  /\ ccount[c] - (cend[c] - cpos[c]) > 0
  /\ NoRange(c)
  /\ \/ ~stopped /\ Goto(c, "exit")
     \/ Goto(c, "loop")
  /\ UNCHANGED <<queueVars, sendVars, ctxVars, history>>

\* if (size_ == capacity_) hasSlot_.notify_all(), inside the critical section.
NotifySlot(q) ==
  pc' = [p \in Senders |->
    IF isFull(q) /\ pc[p] = "asleep" /\ At(p) = q THEN "put" ELSE pc[p]]

\* Mutant of wasteAfterPeek: the queue is tested after the messages were taken out.
WasteThenTest(c) ==
  LET q == serves[c] IN
  /\ cpc[c] = "handle"
  /\ q \notin Sharing
  /\ cpos[c] = cend[c]
  /\ size' = [size EXCEPT ![q] = Wrap(@ - ccount[c])]
  /\ pc' = [p \in Senders |-> IF size'[q] = capacity /\ pc[p] = "asleep" /\ At(p) = q
                               THEN "put" ELSE pc[p]]
  /\ Goto(c, IF ccount[c] = 0 THEN "wait" ELSE "loop")
  /\ NoRange(c)
  /\ UNCHANGED <<seq, store, outstanding, peeked, sent, pmode, pn, pdest, ctxVars, history>>

wasteAfterPeek(c) ==
  LET q == serves[c] IN
  /\ cpc[c] = "handle"
  /\ q \notin Sharing
  /\ cpos[c] = cend[c]
  /\ NotifySlot(q)
  /\ size' = [size EXCEPT ![q] = Wrap(@ - ccount[c])]
  /\ Goto(c, IF ccount[c] = 0 THEN "wait" ELSE "loop")
  /\ NoRange(c)
  /\ UNCHANGED <<seq, store, outstanding, peeked, sent, pmode, pn, pdest, ctxVars, history>>

First(S) == CHOOSE s \in S : \A t \in S : s <= t

\* Mutant of reduction: seqLow is read after the message was erased.
ReductionAfterErase(q, left) == IF left = {} THEN peeked[q] ELSE 0

\* The messages up to the first one that is still outstanding leave the queue; all
\* that was peeked leaves it when none is.
reduction(q, left) == IF left = {} THEN peeked[q] ELSE First(left) - First(outstanding[q])

wasteAfterPeekExclusive(c) ==
  LET q == serves[c]
      left == outstanding[q] \ {cend[c] - 1}
      n == reduction(q, left)
  IN
  /\ cpc[c] = "handle"
  /\ q \in Sharing
  /\ cpos[c] = cend[c]
  /\ outstanding' = [outstanding EXCEPT ![q] = left]
  /\ \/ n = 0 /\ left # {} /\ UNCHANGED pc
     \/ (n # 0 \/ left = {}) /\ NotifySlot(q)
  /\ size' = [size EXCEPT ![q] = Wrap(@ - n)]
  /\ peeked' = [peeked EXCEPT ![q] = Wrap(@ - n)]
  /\ Goto(c, "loop")
  /\ NoRange(c)
  /\ UNCHANGED <<seq, store, sent, pmode, pn, pdest, ctxVars, history>>

\* waitItem: sleep unless the queue has something.
WaitItem(c) ==
  /\ cpc[c] = "wait"
  /\ Goto(c, IF size[serves[c]] = 0 THEN "asleep" ELSE "loop")
  /\ UNCHANGED <<queueVars, sendVars, ctxVars, rangeVars, history>>

\* maxBlockingTime is over.
WaitTimeout(c) ==
  /\ cpc[c] = "asleep"
  /\ Goto(c, "loop")
  /\ UNCHANGED <<queueVars, sendVars, ctxVars, rangeVars, history>>

\* Out of the loop: if (stopped_) drain.
Exit(c) ==
  /\ cpc[c] = "exit"
  /\ Goto(c, IF stopped THEN "drain" ELSE "gone")
  /\ UNCHANGED <<queueVars, sendVars, ctxVars, rangeVars, history>>

\* Peek and waste until the queue is empty.
DrainPeek(c) ==
  /\ cpc[c] = "drain"
  /\ ccount' = [ccount EXCEPT ![c] = size[serves[c]]]
  /\ Goto(c, "drainWaste")
  /\ UNCHANGED <<queueVars, sendVars, ctxVars, cpos, cend, history>>

DrainWaste(c) ==
  LET q == serves[c] IN
  /\ cpc[c] = "drainWaste"
  /\ NotifySlot(q)
  /\ size' = [size EXCEPT ![q] = Wrap(@ - ccount[c])]
  /\ Goto(c, IF ccount[c] = 0 THEN "gone" ELSE "drain")
  /\ NoRange(c)
  /\ UNCHANGED <<seq, store, outstanding, peeked, sent, pmode, pn, pdest, ctxVars, history>>

ClientStep(c) ==
  \/ Loop(c) \/ Peek(c) \/ PeekExclusive(c) \/ Handle(c)
  \/ wasteAfterPeek(c) \/ wasteAfterPeekExclusive(c)
  \/ WaitItem(c) \/ WaitTimeout(c) \/ Exit(c) \/ DrainPeek(c) \/ DrainWaste(c)

-----------------------------------------------------------------------------
Init ==
  /\ serves \in Deployments
  /\ size = [q \in Queues |-> 0]
  /\ seq = [q \in Queues |-> 0]
  /\ store = [q \in Queues |-> [i \in 0 .. capacity - 1 |-> 0]]
  /\ outstanding = [q \in Queues |-> {}]
  /\ peeked = [q \in Queues |-> 0]
  /\ sent = 0
  /\ pc = [p \in Senders |-> "idle"]
  /\ pmode = [p \in Senders |-> "none"]
  /\ pn = [p \in Senders |-> 0]
  /\ pdest = [p \in Senders |-> {}]
  /\ stopped = FALSE
  /\ cpc = [c \in Clients |-> "loop"]
  /\ cpos = [c \in Clients |-> 0]
  /\ cend = [c \in Clients |-> 0]
  /\ ccount = [c \in Clients |-> 0]
  /\ given = [q \in Queues |-> {}]
  /\ again = [q \in Queues |-> {}]

Call(p) ==
  \E route \in Routes :
    LET dest == {serves[c] : c \in Clients} \cap route IN
    /\ dest # {}
    /\ \/ \E mode \in {"send", "try"} : Send(p, mode, 1, dest)
       \/ \E n \in Lengths : Send(p, "range", n, dest)

Next ==
  \/ \E p \in Senders : Call(p) \/ SendStep(p)
  \/ \E c \in Clients : ClientStep(c) \/ Throw(c)
  \/ Stop

Spec == Init /\ [][Next]_vars

\* Threads keep running and waits with a timeout end; nobody is obliged to send, to
\* throw or to stop the Context.
FairSpec ==
  /\ Spec
  /\ \A p \in Senders : WF_vars(SendStep(p))
  /\ \A c \in Clients : WF_vars(ClientStep(c))

-----------------------------------------------------------------------------
\* Nobody drains a queue that others still work on, which only happens when a Context
\* with load sharing clients is stopped (their two steps of draining overlap).
Ours(q) == stopped => q \notin Sharing

\* Every client of q has left.
Gone(q) == \A c \in ClientsOf(q) : cpc[c] = "gone"

\* Every variable has its type.
TypeOK ==
  /\ serves \in Deployments
  /\ size \in [Queues -> 0 .. SIZE_MAX]
  /\ seq \in [Queues -> Nat]
  /\ store \in [Queues -> [0 .. capacity - 1 -> Nat]]
  /\ outstanding \in [Queues -> SUBSET Nat]
  /\ peeked \in [Queues -> 0 .. SIZE_MAX]
  /\ sent \in 0 .. MaxSeq
  /\ pc \in [Senders -> {"idle", "put", "asleep", "notify"}]
  /\ pmode \in [Senders -> {"none", "send", "try", "range"}]
  /\ pn \in [Senders -> 0 .. capacity]
  /\ pdest \in [Senders -> SUBSET Queues]
  /\ stopped \in BOOLEAN
  /\ cpc \in [Clients -> {"loop", "peek", "handle", "wait", "asleep", "exit", "drain",
                          "drainWaste", "gone"}]
  /\ cpos \in [Clients -> Nat]
  /\ cend \in [Clients -> Nat]
  /\ ccount \in [Clients -> 0 .. SIZE_MAX]
  /\ given \in [Queues -> SUBSET Nat]
  /\ again \in [Queues -> SUBSET Nat]

\* A message a client has peeked is not overwritten before it was handled, whatever
\* the other clients of a shared queue waste meanwhile and in whatever order.
PeekedStaysPut ==
  \A c \in Clients : cpc[c] = "handle" /\ Ours(serves[c]) =>
    \A s \in cpos[c] .. cend[c] - 1 : store[serves[c]][Slot(s)] = s

\* Until the Context is stopped a message leaves a queue only after a client was
\* given it, exceptions and load sharing included.
NothingSkipped ==
  \A q \in Queues : ~stopped =>
    \A s \in 0 .. seq[q] - size[q] - 1 : s \in given[q]

\* The clients of a shared queue never handle one message twice.
OneAndOnlyOne ==
  \A q \in Sharing : Ours(q) => again[q] = {}

\* No wakeup is lost: a sender sleeps only at a full queue, and a client only at an
\* empty one or while a sender is on its way to notify it.
NobodySleepsInVain ==
  /\ \A p \in Senders : pc[p] = "asleep" /\ Ours(At(p)) => isFull(At(p))
  /\ \A c \in Clients : cpc[c] = "asleep" /\ Ours(serves[c]) =>
       \/ size[serves[c]] = 0
       \/ \E p \in Senders : pc[p] = "notify" /\ At(p) = serves[c]

\* What a queue keeps while clients peek, share, throw and leave: its counters, the
\* messages in hand and the order in which they are given up.
QueueInv == TypeOK /\ PeekedStaysPut /\ NothingSkipped

\* assert(size_ == peekedExclusiveInSize_) in peekExclusive, which finds nothing to peek.
\* It may fail once the Context is stopped and another client has begun to drain.
PeekAssertion ==
  \A q \in Sharing : ~stopped /\ size[q] <= peeked[q] => size[q] = peeked[q]

\* Every message put into a queue is in the end given to a client, unless the Context
\* is stopped or the queue's clients have left.
AllHandled ==
  \A q \in Queues : stopped \/ Gone(q) \/ 0 .. seq[q] - 1 \subseteq given[q]

\* A message peeked from q by a client that threw and holds it no longer.
Leaked(q) ==
  \E s \in outstanding[q] :
    \A c \in ClientsOf(q) : ~(cpc[c] = "handle" /\ cend[c] = s + 1)

\* Every sending call returns, unless it is at a queue whose clients have left or
\* that an exception has left a message in for good.
AllSent ==
  \A p \in Senders :
    pc[p] = "idle" \/ \E q \in pdest[p] : Gone(q) \/ Leaked(q) \/ ~Ours(q)

\* Where senders and clients that keep running lead to in the end.
Settled == AllHandled /\ AllSent

-----------------------------------------------------------------------------
(***************************************************************************)
(* The inductive invariant behind these properties.                        *)
(***************************************************************************)
\* The oldest message in the queue, and the first one no client of a shared queue has.
Oldest(q) == seq[q] - size[q]
Fresh(q) == Oldest(q) + peeked[q]

\* A sender in a call has a queue to visit and as many messages as its kind of call.
CallInv ==
  \A p \in Senders : pc[p] # "idle" =>
    /\ pdest[p] # {}
    /\ pn[p] \in 1 .. MaxSeq
    /\ pmode[p] \in {"send", "try"} => pn[p] = 1
    /\ pc[p] = "asleep" => pmode[p] \in {"send", "try"}

\* A queue holds its last messages, each in its slot.
StoreInv ==
  \A q \in Queues : Ours(q) =>
    /\ size[q] <= capacity /\ size[q] <= seq[q]
    /\ \A s \in Oldest(q) .. seq[q] - 1 : store[q][Slot(s)] = s

\* The only client of a queue has peeked its oldest messages and was given the first of them.
OwnInv ==
  \A c \in Clients : LET q == serves[c] IN
    q \notin Sharing =>
      /\ cpc[c] = "drainWaste" => ccount[c] <= size[q]
      /\ cpc[c] = "handle" =>
           /\ ccount[c] <= size[q]
           /\ cend[c] = Oldest(q) + ccount[c]
           /\ Oldest(q) <= cpos[c] /\ cpos[c] <= cend[c]
           /\ \A s \in Oldest(q) .. cpos[c] - 1 : s \in given[q]

\* The outstanding messages of a shared queue are among the peeked ones, the oldest of
\* them is outstanding, and the others were given to a client.
OutstandingInv ==
  \A q \in Sharing : ~stopped =>
    /\ peeked[q] <= size[q]
    /\ \A s \in outstanding[q] : Oldest(q) <= s /\ s < Fresh(q)
    /\ peeked[q] > 0 => Oldest(q) \in outstanding[q]
    /\ \A s \in Oldest(q) .. Fresh(q) - 1 : s \in outstanding[q] \/ s \in given[q]
    /\ \A s \in given[q] : s < Fresh(q)
    /\ again[q] = {}

\* A client of a shared queue has an outstanding message of its own, which it was given or
\* nobody was.
HandInv ==
  \A c \in Clients : LET q == serves[c]  s == cend[c] - 1 IN
    q \in Sharing /\ ~stopped /\ cpc[c] = "handle" =>
      /\ s \in outstanding[q]
      /\ \/ cpos[c] = s /\ s \notin given[q]
         \/ cpos[c] = cend[c] /\ s \in given[q]
      /\ \A d \in Clients \ {c} : serves[d] = q /\ cpc[d] = "handle" => cend[d] # cend[c]

\* A queue is drained only when the Context was stopped.
DrainInv == \A c \in Clients : cpc[c] \in {"drain", "drainWaste"} => stopped

BlockingInv ==
  /\ TypeOK /\ CallInv /\ StoreInv /\ OwnInv /\ OutstandingInv /\ HandInv /\ DrainInv
  /\ NothingSkipped /\ NobodySleepsInVain
=============================================================================
