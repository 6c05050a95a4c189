----------------------- MODULE BlockingContext_proofs -----------------------
(***************************************************************************)
(* Proofs about BlockingContext for every number of senders, clients and   *)
(* queues, every deployment, capacity and length of a range.               *)
(***************************************************************************)
EXTENDS BlockingContext, RingArithmetic, FiniteSetTheorems, WellFoundedInduction

\* A set of numbers has a first one.
LEMMA FirstExists ==
  ASSUME NEW S \in SUBSET Nat, S # {}
  PROVE  First(S) \in S /\ \A t \in S : First(S) <= t
<1>1. PICK s \in S : \A t \in S : ~(<<t, s>> \in OpToRel(<, Nat))
  BY WFMin, NatLessThanWellFounded
<1>2. \A t \in S : s <= t
  <2>1. ASSUME NEW t \in S, t < s PROVE FALSE
    <3>1. <<t, s>> \in {x \in Nat \X Nat : x[1] < x[2]}
      BY <2>1
    <3>2. <<t, s>> \in OpToRel(<, Nat)
      BY <3>1, Zenon DEF OpToRel
    <3> QED BY <1>1, <3>2, Zenon
  <2> QED BY ONLY <2>1, s \in Nat, S \in SUBSET Nat
<1> QED BY <1>2 DEF First

\* The queue a sender is at is one of those it has to visit.
LEMMA AtVisits ==
  ASSUME TypeOK, NEW p \in Senders, pdest[p] # {}
  PROVE  At(p) \in pdest[p] /\ At(p) \in Queues
<1>1. pdest[p] \in SUBSET Nat /\ pdest[p] \subseteq Queues
  BY BlockingAssumption DEF TypeOK
<1>2. At(p) = First(pdest[p])
  BY DEF At, First
<1> QED BY <1>1, <1>2, FirstExists

\* What size_t can hold is kept.
LEMMA WrapFits == \A x \in 0 .. SIZE_MAX : Wrap(x) = x
BY BlockingAssumption DEF Wrap

\* Whatever is calculated is held as some size_t.
LEMMA WrapRange == \A x \in Int : Wrap(x) \in 0 .. SIZE_MAX
<1>1. SIZE_MAX + 1 \in Nat \ {0}
  BY BlockingAssumption
<1>2. SUFFICES ASSUME NEW x \in Int PROVE x % (SIZE_MAX + 1) \in 0 .. SIZE_MAX
  BY DEF Wrap
<1>3. x % (SIZE_MAX + 1) \in 0 .. (SIZE_MAX + 1) - 1
  BY <1>1, ModRange
<1> QED BY <1>3, BlockingAssumption

\* A queue that is not shared has one client.
LEMMA OnlyClient ==
  ASSUME TypeOK, NEW c \in Clients, NEW d \in Clients, serves[c] = serves[d],
         serves[c] \notin Sharing
  PROVE  c = d
<1> DEFINE q == serves[c]
<1>1. q \in Queues
  BY BlockingAssumption DEF TypeOK
<1>2. ~(Cardinality(ClientsOf(q)) > 1)
  BY <1>1 DEF Sharing
<1>3. ASSUME c # d PROVE FALSE
  <2>1. {c, d} \subseteq ClientsOf(q) /\ IsFiniteSet(ClientsOf(q))
    BY BlockingAssumption, FS_Subset DEF ClientsOf
  <2>2. Cardinality({c, d}) = 2
    <3>1. IsFiniteSet({c}) /\ Cardinality({c}) = 1
      BY FS_Singleton
    <3>2. Cardinality({c} \cup {d}) = 2
      BY <1>3, <3>1, FS_AddElement
    <3>3. {c, d} = {c} \cup {d}
      OBVIOUS
    <3> QED BY <3>2, <3>3
  <2>3. Cardinality({c, d}) <= Cardinality(ClientsOf(q))
    BY <2>1, FS_Subset
  <2>4. Cardinality(ClientsOf(q)) \in Nat
    BY <2>1, FS_CardinalityType
  <2> QED BY <1>2, <2>2, <2>3, <2>4
<1> QED BY <1>3

-----------------------------------------------------------------------------
(***************************************************************************)
(* Type correctness.                                                       *)
(***************************************************************************)
QueueTypes ==
  /\ size \in [Queues -> 0 .. SIZE_MAX]
  /\ seq \in [Queues -> Nat]
  /\ store \in [Queues -> [0 .. capacity - 1 -> Nat]]
  /\ outstanding \in [Queues -> SUBSET Nat]
  /\ peeked \in [Queues -> 0 .. SIZE_MAX]

CallTypes ==
  /\ sent \in 0 .. MaxSeq
  /\ pc \in [Senders -> {"idle", "put", "asleep", "notify"}]
  /\ pmode \in [Senders -> {"none", "send", "try", "range"}]
  /\ pn \in [Senders -> 0 .. capacity]
  /\ pdest \in [Senders -> SUBSET Queues]

ClientTypes ==
  /\ serves \in Deployments
  /\ stopped \in BOOLEAN
  /\ cpc \in [Clients -> {"loop", "peek", "handle", "wait", "asleep", "exit", "drain",
                          "drainWaste", "gone"}]
  /\ cpos \in [Clients -> Nat]
  /\ cend \in [Clients -> Nat]
  /\ ccount \in [Clients -> 0 .. SIZE_MAX]
  /\ given \in [Queues -> SUBSET Nat]
  /\ again \in [Queues -> SUBSET Nat]

\* The types of the queues, of the calls and of the clients are all there is.
LEMMA TypeParts == TypeOK <=> QueueTypes /\ CallTypes /\ ClientTypes
BY DEF TypeOK, QueueTypes, CallTypes, ClientTypes

\* What the constants are, as far as arithmetic needs it.
LEMMA ConstantFacts ==
  /\ capacity \in Nat /\ capacity > 0
  /\ SIZE_MAX \in Nat /\ MaxSeq \in Nat /\ capacity + MaxSeq < SIZE_MAX
BY BlockingAssumption

\* What the variables of a queue are.
LEMMA QueueFacts ==
  ASSUME TypeOK, NEW q \in Queues
  PROVE  /\ size[q] \in Nat /\ size[q] <= SIZE_MAX /\ size[q] \in 0 .. SIZE_MAX
         /\ seq[q] \in Nat
         /\ store[q] \in [0 .. capacity - 1 -> Nat]
         /\ peeked[q] \in Nat /\ peeked[q] <= SIZE_MAX
         /\ outstanding[q] \in SUBSET Nat /\ given[q] \in SUBSET Nat /\ again[q] \in SUBSET Nat
<1>1. size[q] \in 0 .. SIZE_MAX /\ peeked[q] \in 0 .. SIZE_MAX
  BY DEF TypeOK
<1>2. seq[q] \in Nat /\ store[q] \in [0 .. capacity - 1 -> Nat]
  BY DEF TypeOK
<1>3. outstanding[q] \in SUBSET Nat /\ given[q] \in SUBSET Nat /\ again[q] \in SUBSET Nat
  BY DEF TypeOK
<1> QED BY <1>1, <1>2, <1>3, ConstantFacts

\* What the variables of a sender are.
LEMMA SenderFacts ==
  ASSUME TypeOK, NEW p \in Senders
  PROVE  pn[p] \in Nat /\ pn[p] <= capacity /\ pdest[p] \in SUBSET Queues
<1>1. pn[p] \in 0 .. capacity /\ pdest[p] \in SUBSET Queues
  BY DEF TypeOK
<1> QED BY <1>1, ConstantFacts

\* What the variables of a client are.
LEMMA ClientFacts ==
  ASSUME TypeOK, NEW c \in Clients
  PROVE  /\ cpos[c] \in Nat /\ cend[c] \in Nat
         /\ ccount[c] \in Nat /\ ccount[c] <= SIZE_MAX /\ ccount[c] \in 0 .. SIZE_MAX
<1>1. cpos[c] \in Nat /\ cend[c] \in Nat /\ ccount[c] \in 0 .. SIZE_MAX
  BY DEF TypeOK
<1> QED BY <1>1, ConstantFacts

\* A client was started with one of the queues.
LEMMA ServesTyped == ASSUME TypeOK, NEW c \in Clients PROVE serves[c] \in Queues
BY BlockingAssumption DEF TypeOK

\* A new call keeps the types: its messages are a message or a range no longer than a queue.
LEMMA CallTyped == ASSUME TypeOK, NEW p \in Senders, Call(p) PROVE TypeOK'
<1>0. QueueTypes /\ CallTypes /\ ClientTypes
  BY TypeParts
<1>4. pdest[p] # {} => At(p) \in Queues
  BY AtVisits
<1>1. QueueTypes'
  BY <1>0, <1>4 DEF Call, Send, queueVars, sendVars, ctxVars, rangeVars, history, QueueTypes
<1>2. CallTypes'
  <2>1. PICK mode \in {"send", "try", "range"}, n \in 1 .. capacity, dest \in SUBSET Queues : Send(p, mode, n, dest)
    <3>1. PICK route \in Routes :
            LET dest == {serves[c] : c \in Clients} \cap route
            IN \/ \E mode \in {"send", "try"} : Send(p, mode, 1, dest)
               \/ \E n \in Lengths : Send(p, "range", n, dest)
      BY DEF Call
    <3> DEFINE dest == {serves[c] : c \in Clients} \cap route
    <3>2. dest \in SUBSET Queues
      BY ServesTyped
    <3>3. 1 \in 1 .. capacity /\ Lengths \subseteq 1 .. capacity
      BY BlockingAssumption
    <3> HIDE DEF dest
    <3> QED BY <3>1, <3>2, <3>3 DEF dest
  <2> QED BY <1>0, <2>1 DEF Send, queueVars, sendVars, ctxVars, rangeVars, history, CallTypes
<1>3. ClientTypes'
  BY <1>0, <1>4 DEF Call, Send, queueVars, sendVars, ctxVars, rangeVars, history, QueueTypes, ClientTypes
<1> QED BY <1>1, <1>2, <1>3 DEF TypeOK, QueueTypes, CallTypes, ClientTypes

\* A put keeps the types, wrapping or not.
LEMMA PutTyped == ASSUME TypeOK, CallInv, NEW p \in Senders, Put(p) PROVE TypeOK'
<1>0. QueueTypes /\ CallTypes /\ ClientTypes
  BY TypeParts
<1>4. At(p) \in Queues
  BY AtVisits DEF Put, CallInv
<1>1. QueueTypes'
  <2> DEFINE q == At(p)  new == seq[q] .. seq[q] + pn[p] - 1
             slots == [i \in 0 .. capacity - 1 |->
                         IF \E s \in new : Slot(s) = i THEN CHOOSE s \in new : Slot(s) = i ELSE store[q][i]]
  <2>1. seq[q] \in Nat /\ pn[p] \in Nat /\ size[q] \in Nat /\ store[q] \in [0 .. capacity - 1 -> Nat]
    BY <1>0, <1>4, QueueFacts, SenderFacts
  <2>2. slots \in [0 .. capacity - 1 -> Nat]
    <3>1. ASSUME NEW i \in 0 .. capacity - 1 PROVE slots[i] \in Nat
      <4>1. ASSUME NEW s \in new PROVE s \in Nat
        BY <2>1
      <4>2. CASE \E s \in new : Slot(s) = i
        <5>1. (CHOOSE s \in new : Slot(s) = i) \in new
          BY <4>2
        <5> HIDE DEF new
        <5> QED BY <4>1, <4>2, <5>1
      <4> QED BY <2>1, <4>2
    <3> QED BY <3>1
  <2>3. store' = [store EXCEPT ![q] = slots] /\ seq' = [seq EXCEPT ![q] = @ + pn[p]]
        /\ size' = [size EXCEPT ![q] = Wrap(@ + pn[p])] /\ outstanding' = outstanding /\ peeked' = peeked
    BY DEF Put
  <2>4. Wrap(size[q] + pn[p]) \in 0 .. SIZE_MAX
    <3>1. size[q] + pn[p] \in Int
      BY <2>1
    <3> QED BY <3>1, WrapRange
  <2>5. seq[q] + pn[p] \in Nat
    BY <2>1
  <2> HIDE DEF slots, q
  <2> QED BY <1>0, <1>4, <2>1, <2>2, <2>3, <2>4, <2>5 DEF QueueTypes
<1>2. CallTypes'
  <2>1. \/ pc' = [pc EXCEPT ![p] = "notify"] /\ UNCHANGED <<pmode, pn, pdest>>
        \/ Onward(p)
    BY DEF Put
  <2>2. sent' = sent
    BY DEF Put
  <2>3. CASE pc' = [pc EXCEPT ![p] = "notify"] /\ UNCHANGED <<pmode, pn, pdest>>
    BY <1>0, <2>2, <2>3 DEF CallTypes
  <2>4. CASE Onward(p)
    BY <1>0, <2>2, <2>4, ConstantFacts DEF Onward, Return, CallTypes
  <2> QED BY <2>1, <2>3, <2>4
<1>3. ClientTypes'
  BY <1>0, <1>4 DEF Put, Onward, Return, queueVars, sendVars, ctxVars, rangeVars, history, QueueTypes, ClientTypes
<1> QED BY <1>1, <1>2, <1>3 DEF TypeOK, QueueTypes, CallTypes, ClientTypes

\* A sender that falls asleep keeps the types.
LEMMA SleepTyped == ASSUME TypeOK, NEW p \in Senders, Sleep(p) PROVE TypeOK'
<1>0. QueueTypes /\ CallTypes /\ ClientTypes
  BY TypeParts
<1>4. pdest[p] # {} => At(p) \in Queues
  BY AtVisits
<1>1. QueueTypes'
  BY <1>0, <1>4 DEF Sleep, queueVars, sendVars, ctxVars, rangeVars, history, QueueTypes
<1>2. CallTypes'
  BY <1>0, <1>4 DEF Sleep, queueVars, sendVars, ctxVars, rangeVars, history, CallTypes
<1>3. ClientTypes'
  BY <1>0, <1>4 DEF Sleep, queueVars, sendVars, ctxVars, rangeVars, history, QueueTypes, ClientTypes
<1> QED BY <1>1, <1>2, <1>3 DEF TypeOK, QueueTypes, CallTypes, ClientTypes

\* A trySend that gives up keeps the types.
LEMMA TryFailsTyped == ASSUME TypeOK, NEW p \in Senders, TryFails(p) PROVE TypeOK'
<1>0. QueueTypes /\ CallTypes /\ ClientTypes
  BY TypeParts
<1>4. pdest[p] # {} => At(p) \in Queues
  BY AtVisits
<1>1. QueueTypes'
  BY <1>0, <1>4 DEF TryFails, Return, queueVars, sendVars, ctxVars, rangeVars, history, QueueTypes
<1>2. CallTypes'
  BY <1>0, ConstantFacts DEF TryFails, Return, CallTypes
<1>3. ClientTypes'
  BY <1>0, <1>4 DEF TryFails, Return, queueVars, sendVars, ctxVars, rangeVars, history, QueueTypes, ClientTypes
<1> QED BY <1>1, <1>2, <1>3 DEF TypeOK, QueueTypes, CallTypes, ClientTypes

\* notify_all to the clients keeps the types.
LEMMA NotifyItemTyped == ASSUME TypeOK, NEW p \in Senders, NotifyItem(p) PROVE TypeOK'
<1>0. QueueTypes /\ CallTypes /\ ClientTypes
  BY TypeParts
<1>4. pdest[p] # {} => At(p) \in Queues
  BY AtVisits
<1>1. QueueTypes'
  BY <1>0, <1>4 DEF NotifyItem, Onward, Return, queueVars, sendVars, ctxVars, rangeVars, history, QueueTypes
<1>2. CallTypes'
  BY <1>0, ConstantFacts DEF NotifyItem, Onward, Return, CallTypes
<1>3. ClientTypes'
  BY <1>0, <1>4 DEF NotifyItem, Onward, Return, queueVars, sendVars, ctxVars, rangeVars, history, QueueTypes, ClientTypes
<1> QED BY <1>1, <1>2, <1>3 DEF TypeOK, QueueTypes, CallTypes, ClientTypes

\* A stop keeps the types.
LEMMA StopTyped == ASSUME TypeOK, Stop PROVE TypeOK'
<1>0. QueueTypes /\ CallTypes /\ ClientTypes
  BY TypeParts
<1>1. QueueTypes'
  BY <1>0 DEF Stop, queueVars, sendVars, ctxVars, rangeVars, history, QueueTypes
<1>2. CallTypes'
  BY <1>0 DEF Stop, queueVars, sendVars, ctxVars, rangeVars, history, CallTypes
<1>3. ClientTypes'
  BY <1>0 DEF Stop, queueVars, sendVars, ctxVars, rangeVars, history, QueueTypes, ClientTypes
<1> QED BY <1>1, <1>2, <1>3 DEF TypeOK, QueueTypes, CallTypes, ClientTypes

\* A client that goes elsewhere in its loop keeps the types.
LEMMA GoesTyped ==
  ASSUME TypeOK, NEW c \in Clients,
         NEW where \in {"loop", "peek", "wait", "asleep", "exit", "drain", "gone"}, Goto(c, where),
         UNCHANGED <<queueVars, sendVars, ctxVars, rangeVars, history>>
  PROVE  TypeOK'
<1>1. QueueTypes' /\ CallTypes'
  BY TypeParts DEF queueVars, sendVars, QueueTypes, CallTypes
<1>2. ClientTypes'
  BY TypeParts DEF Goto, ctxVars, rangeVars, history, ClientTypes
<1> QED BY <1>1, <1>2, TypeParts DEF TypeOK, QueueTypes, CallTypes, ClientTypes

\* The test of stopped_ keeps the types.
LEMMA LoopTyped == ASSUME TypeOK, NEW c \in Clients, Loop(c) PROVE TypeOK'
<1>1. PICK where \in {"exit", "peek"} : Goto(c, where)
  BY DEF Loop
<1> QED BY <1>1, GoesTyped DEF Loop

\* peek keeps the types.
LEMMA PeekTyped == ASSUME TypeOK, NEW c \in Clients, Peek(c) PROVE TypeOK'
<1>0. QueueTypes /\ CallTypes /\ ClientTypes
  BY TypeParts
<1>4. serves[c] \in Queues
  BY ServesTyped
<1>1. QueueTypes'
  BY <1>0, <1>4 DEF Peek, Goto, queueVars, sendVars, ctxVars, rangeVars, history, QueueTypes
<1>2. CallTypes'
  BY <1>0, <1>4 DEF Peek, Goto, queueVars, sendVars, ctxVars, rangeVars, history, CallTypes
<1>3. ClientTypes'
  <2>1. Back(serves[c], size[serves[c]]) \in Nat
    BY <1>4, QueueFacts, ConstantFacts DEF Back
  <2> QED BY <1>0, <1>4, <2>1 DEF Peek, Goto, queueVars, sendVars, ctxVars, rangeVars, history, QueueTypes, ClientTypes
<1> QED BY <1>1, <1>2, <1>3 DEF TypeOK, QueueTypes, CallTypes, ClientTypes

\* peekExclusive keeps the types.
LEMMA PeekExclusiveTyped == ASSUME TypeOK, NEW c \in Clients, PeekExclusive(c) PROVE TypeOK'
<1>0. QueueTypes /\ CallTypes /\ ClientTypes
  BY TypeParts
<1>4. serves[c] \in Queues
  BY ServesTyped
<1>1. QueueTypes'
  <2>1. CASE cpc' = [cpc EXCEPT ![c] = "wait"] /\ UNCHANGED <<peeked, outstanding, rangeVars>>
    BY <1>0, <2>1 DEF PeekExclusive, queueVars, sendVars, ctxVars, rangeVars, history, QueueTypes, ClientTypes
  <2>2. CASE size[serves[c]] > peeked[serves[c]] /\ cpc' = [cpc EXCEPT ![c] = "handle"]
    <3>1. Back(serves[c], size[serves[c]] - peeked[serves[c]]) \in Nat
      BY <1>4, <2>2, QueueFacts, ConstantFacts DEF Back
    <3>2. peeked[serves[c]] + 1 \in 0 .. SIZE_MAX
      BY <1>4, <2>2, QueueFacts, ConstantFacts
    <3> DEFINE q == serves[c]  s == Back(q, size[q] - peeked[q])
    <3>3. /\ peeked' = [peeked EXCEPT ![q] = @ + 1]
          /\ outstanding' = [outstanding EXCEPT ![q] = @ \cup {s}]
          /\ cpos' = [cpos EXCEPT ![c] = s] /\ cend' = [cend EXCEPT ![c] = s + 1]
          /\ ccount' = [ccount EXCEPT ![c] = 1]
      BY <1>4, <2>2, QueueFacts DEF PeekExclusive
    <3>4. s + 1 \in Nat /\ outstanding[q] \cup {s} \in SUBSET Nat /\ 1 \in 0 .. SIZE_MAX
      BY <1>4, <3>1, QueueFacts, ConstantFacts
    <3> HIDE DEF q, s
    <3> QED BY <1>0, <2>2, <3>1, <3>2, <3>3, <3>4 DEF PeekExclusive, ctxVars, history, QueueTypes, q, s
  <2> QED BY <2>1, <2>2 DEF PeekExclusive, Goto
<1>2. CallTypes'
  BY <1>0, <1>4 DEF PeekExclusive, Goto, queueVars, sendVars, ctxVars, rangeVars, history, CallTypes
<1>3. ClientTypes'
  <2>1. CASE cpc' = [cpc EXCEPT ![c] = "wait"] /\ UNCHANGED <<peeked, outstanding, rangeVars>>
    BY <1>0, <2>1 DEF PeekExclusive, queueVars, sendVars, ctxVars, rangeVars, history, QueueTypes, ClientTypes
  <2>2. CASE size[serves[c]] > peeked[serves[c]] /\ cpc' = [cpc EXCEPT ![c] = "handle"]
    <3>1. Back(serves[c], size[serves[c]] - peeked[serves[c]]) \in Nat
      BY <1>4, <2>2, QueueFacts, ConstantFacts DEF Back
    <3>2. peeked[serves[c]] + 1 \in 0 .. SIZE_MAX
      BY <1>4, <2>2, QueueFacts, ConstantFacts
    <3> DEFINE q == serves[c]  s == Back(q, size[q] - peeked[q])
    <3>3. /\ peeked' = [peeked EXCEPT ![q] = @ + 1]
          /\ outstanding' = [outstanding EXCEPT ![q] = @ \cup {s}]
          /\ cpos' = [cpos EXCEPT ![c] = s] /\ cend' = [cend EXCEPT ![c] = s + 1]
          /\ ccount' = [ccount EXCEPT ![c] = 1]
      BY <1>4, <2>2, QueueFacts DEF PeekExclusive
    <3>4. s + 1 \in Nat /\ outstanding[q] \cup {s} \in SUBSET Nat /\ 1 \in 0 .. SIZE_MAX
      BY <1>4, <3>1, QueueFacts, ConstantFacts
    <3> HIDE DEF q, s
    <3> QED BY <1>0, <2>2, <3>1, <3>2, <3>3, <3>4 DEF PeekExclusive, ctxVars, history, ClientTypes, q, s
  <2> QED BY <2>1, <2>2 DEF PeekExclusive, Goto
<1> QED BY <1>1, <1>2, <1>3 DEF TypeOK, QueueTypes, CallTypes, ClientTypes

\* A callback keeps the types.
LEMMA HandleTyped == ASSUME TypeOK, NEW c \in Clients, Handle(c) PROVE TypeOK'
<1>0. QueueTypes /\ CallTypes /\ ClientTypes
  BY TypeParts
<1>4. serves[c] \in Queues
  BY ServesTyped
<1>1. QueueTypes'
  BY <1>0, <1>4 DEF Handle, Given, queueVars, sendVars, ctxVars, rangeVars, history, QueueTypes
<1>2. CallTypes'
  BY <1>0, <1>4 DEF Handle, Given, queueVars, sendVars, ctxVars, rangeVars, history, CallTypes
<1>3. ClientTypes'
  <2>1. store[serves[c]][Slot(cpos[c])] \in Nat
    <3>1. Slot(cpos[c]) \in 0 .. capacity - 1
      <4>1. capacity \in Nat \ {0} /\ cpos[c] \in Int
        BY ConstantFacts, ClientFacts
      <4> QED BY <4>1, ModRange DEF Slot
    <3> QED BY <1>4, <3>1, QueueFacts
  <2> QED BY <1>0, <1>4, <2>1 DEF Handle, Given, queueVars, sendVars, ctxVars, rangeVars, history, QueueTypes, ClientTypes
<1> QED BY <1>1, <1>2, <1>3 DEF TypeOK, QueueTypes, CallTypes, ClientTypes

\* An exception keeps the types.
LEMMA ThrowTyped == ASSUME TypeOK, NEW c \in Clients, Throw(c) PROVE TypeOK'
<1>0. QueueTypes /\ CallTypes /\ ClientTypes
  BY TypeParts
<1>4. serves[c] \in Queues
  BY ServesTyped
<1>1. QueueTypes'
  BY <1>0, <1>4 DEF Throw, Goto, NoRange, queueVars, sendVars, ctxVars, rangeVars, history, QueueTypes
<1>2. CallTypes'
  BY <1>0, <1>4 DEF Throw, Goto, NoRange, queueVars, sendVars, ctxVars, rangeVars, history, CallTypes
<1>3. ClientTypes'
  <2>1. PICK where \in {"exit", "loop"} : cpc' = [cpc EXCEPT ![c] = where]
    BY DEF Throw, Goto
  <2> QED BY <1>0, <2>1, ConstantFacts DEF Throw, NoRange, queueVars, sendVars, ctxVars, rangeVars, history, ClientTypes
<1> QED BY <1>1, <1>2, <1>3 DEF TypeOK, QueueTypes, CallTypes, ClientTypes

\* wasteAfterPeek keeps the types.
LEMMA WasteAfterPeekTyped == ASSUME TypeOK, NEW c \in Clients, wasteAfterPeek(c) PROVE TypeOK'
<1>0. QueueTypes /\ CallTypes /\ ClientTypes
  BY TypeParts
<1>4. serves[c] \in Queues
  BY ServesTyped
<1>1. QueueTypes'
  <2>1. Wrap(size[serves[c]] - ccount[c]) \in 0 .. SIZE_MAX
    <3>1. size[serves[c]] - ccount[c] \in Int
      BY <1>4, QueueFacts, ClientFacts
    <3> QED BY <3>1, WrapRange
  <2> QED BY <1>0, <1>4, <2>1 DEF wasteAfterPeek, NotifySlot, Goto, NoRange, queueVars, sendVars, ctxVars, rangeVars, history, QueueTypes
<1>2. CallTypes'
  BY <1>0, <1>4 DEF wasteAfterPeek, NotifySlot, Goto, NoRange, queueVars, sendVars, ctxVars, rangeVars, history, CallTypes
<1>3. ClientTypes'
  BY <1>0, ConstantFacts DEF wasteAfterPeek, NotifySlot, Goto, NoRange, queueVars, sendVars, ctxVars, rangeVars, history, QueueTypes, ClientTypes
<1> QED BY <1>1, <1>2, <1>3 DEF TypeOK, QueueTypes, CallTypes, ClientTypes

\* wasteAfterPeekExclusive keeps the types.
LEMMA WasteAfterPeekExclusiveTyped == ASSUME TypeOK, NEW c \in Clients, wasteAfterPeekExclusive(c) PROVE TypeOK'
<1>0. QueueTypes /\ CallTypes /\ ClientTypes
  BY TypeParts
<1>4. serves[c] \in Queues
  BY ServesTyped
<1>1. QueueTypes'
  <2> DEFINE q == serves[c]
             left == outstanding[q] \ {cend[c] - 1}
             taken == IF left = {} THEN peeked[q] ELSE First(left) - First(outstanding[q])
  <2>1. taken \in Int
    <3>1. CASE left = {}
      BY <1>4, <3>1, QueueFacts
    <3>2. CASE left # {}
      <4>1. left \in SUBSET Nat /\ outstanding[q] \in SUBSET Nat /\ outstanding[q] # {}
        BY <1>0, <1>4, <3>2 DEF QueueTypes
      <4>2. First(left) \in Nat /\ First(outstanding[q]) \in Nat
        BY <3>2, <4>1, FirstExists
      <4> QED BY <3>2, <4>2
    <3> QED BY <3>1, <3>2
  <2>2. Wrap(size[q] - taken) \in 0 .. SIZE_MAX /\ Wrap(peeked[q] - taken) \in 0 .. SIZE_MAX
    <3>1. size[q] - taken \in Int /\ peeked[q] - taken \in Int
      BY <1>4, <2>1, QueueFacts
    <3> QED BY <3>1, WrapRange
  <2>3. /\ outstanding' = [outstanding EXCEPT ![q] = left]
        /\ size' = [size EXCEPT ![q] = Wrap(@ - taken)]
        /\ peeked' = [peeked EXCEPT ![q] = Wrap(@ - taken)]
        /\ seq' = seq /\ store' = store
    BY DEF reduction, wasteAfterPeekExclusive
  <2>4. left \in SUBSET Nat
    BY <1>0, <1>4 DEF QueueTypes
  <2> HIDE DEF q, left, taken
  <2> QED BY <1>0, <2>2, <2>3, <2>4 DEF QueueTypes
<1>2. CallTypes'
  BY <1>0, <1>4 DEF wasteAfterPeekExclusive, NotifySlot, Goto, NoRange, queueVars, sendVars, ctxVars, rangeVars, history, CallTypes
<1>3. ClientTypes'
  BY <1>0, ConstantFacts DEF wasteAfterPeekExclusive, NotifySlot, Goto, NoRange, queueVars, sendVars, ctxVars, rangeVars, history, QueueTypes, ClientTypes
<1> QED BY <1>1, <1>2, <1>3 DEF TypeOK, QueueTypes, CallTypes, ClientTypes

\* waitItem keeps the types.
LEMMA WaitItemTyped == ASSUME TypeOK, NEW c \in Clients, WaitItem(c) PROVE TypeOK'
<1>1. PICK where \in {"asleep", "loop"} : Goto(c, where)
  BY DEF WaitItem
<1> QED BY <1>1, GoesTyped DEF WaitItem

\* The end of a wait keeps the types.
LEMMA WaitTimeoutTyped == ASSUME TypeOK, NEW c \in Clients, WaitTimeout(c) PROVE TypeOK'
BY GoesTyped DEF WaitTimeout

\* The way out of the loop keeps the types.
LEMMA ExitTyped == ASSUME TypeOK, NEW c \in Clients, Exit(c) PROVE TypeOK'
<1>1. PICK where \in {"drain", "gone"} : Goto(c, where)
  BY DEF Exit
<1> QED BY <1>1, GoesTyped DEF Exit

\* A peek of the drain keeps the types.
LEMMA DrainPeekTyped == ASSUME TypeOK, NEW c \in Clients, DrainPeek(c) PROVE TypeOK'
<1>0. QueueTypes /\ CallTypes /\ ClientTypes
  BY TypeParts
<1>4. serves[c] \in Queues
  BY ServesTyped
<1>1. QueueTypes'
  BY <1>0, <1>4 DEF DrainPeek, Goto, queueVars, sendVars, ctxVars, rangeVars, history, QueueTypes
<1>2. CallTypes'
  BY <1>0, <1>4 DEF DrainPeek, Goto, queueVars, sendVars, ctxVars, rangeVars, history, CallTypes
<1>3. ClientTypes'
  BY <1>0, <1>4 DEF DrainPeek, Goto, queueVars, sendVars, ctxVars, rangeVars, history, QueueTypes, ClientTypes
<1> QED BY <1>1, <1>2, <1>3 DEF TypeOK, QueueTypes, CallTypes, ClientTypes

\* A waste of the drain keeps the types.
LEMMA DrainWasteTyped == ASSUME TypeOK, NEW c \in Clients, DrainWaste(c) PROVE TypeOK'
<1>0. QueueTypes /\ CallTypes /\ ClientTypes
  BY TypeParts
<1>4. serves[c] \in Queues
  BY ServesTyped
<1>1. QueueTypes'
  <2>1. Wrap(size[serves[c]] - ccount[c]) \in 0 .. SIZE_MAX
    <3>1. size[serves[c]] - ccount[c] \in Int
      BY <1>4, QueueFacts, ClientFacts
    <3> QED BY <3>1, WrapRange
  <2> QED BY <1>0, <1>4, <2>1 DEF DrainWaste, NotifySlot, Goto, NoRange, queueVars, sendVars, ctxVars, rangeVars, history, QueueTypes
<1>2. CallTypes'
  BY <1>0, <1>4 DEF DrainWaste, NotifySlot, Goto, NoRange, queueVars, sendVars, ctxVars, rangeVars, history, CallTypes
<1>3. ClientTypes'
  BY <1>0, ConstantFacts DEF DrainWaste, NotifySlot, Goto, NoRange, queueVars, sendVars, ctxVars, rangeVars, history, QueueTypes, ClientTypes
<1> QED BY <1>1, <1>2, <1>3 DEF TypeOK, QueueTypes, CallTypes, ClientTypes

-----------------------------------------------------------------------------
(***************************************************************************)
(* The invariant under steps that leave the queues alone.                  *)
(***************************************************************************)
\* Which queues are shared is settled by start.
LEMMA SharingStill ==
  ASSUME UNCHANGED serves PROVE Sharing' = Sharing
BY DEF Sharing, ClientsOf

\* Only a stop makes a shared queue one that is drained.
LEMMA OursStill ==
  ASSUME UNCHANGED <<serves, stopped>> PROVE \A q : Ours(q)' <=> Ours(q)
BY SharingStill DEF Ours

\* A sender stays at its queue until it goes on.
LEMMA AtStill ==
  ASSUME NEW p, pdest'[p] = pdest[p] PROVE At(p)' = At(p)
BY DEF At

\* The oldest message changes with the counters only.
LEMMA OldestStill ==
  ASSUME NEW q, seq'[q] = seq[q], size'[q] = size[q] PROVE Oldest(q)' = Oldest(q)
BY DEF Oldest

\* The first message nobody has changes with the counters only.
LEMMA FreshStill ==
  ASSUME NEW q, seq'[q] = seq[q], size'[q] = size[q], peeked'[q] = peeked[q]
  PROVE  Fresh(q)' = Fresh(q)
BY DEF Fresh, Oldest

\* Clients may be woken up, and go on, but take nothing from a queue.
LEMMA QueuesAlone ==
  ASSUME BlockingInv, UNCHANGED <<queueVars, serves, stopped, history>>,
         NEW S \in SUBSET Clients,
         \A d \in Clients \ S : /\ cpc'[d] = cpc[d] \/ cpc'[d] \notin {"handle", "drain", "drainWaste"}
                               /\ cpos'[d] = cpos[d] /\ cend'[d] = cend[d] /\ ccount'[d] = ccount[d],
         \A d \in S : /\ cpc'[d] # "handle"
                      /\ cpc'[d] \in {"drain", "drainWaste"} => stopped
                      /\ cpc'[d] = "drainWaste" => ccount'[d] = size[serves[d]]
  PROVE  (StoreInv /\ OwnInv /\ OutstandingInv /\ HandInv /\ DrainInv /\ NothingSkipped)'
<1> USE DEF BlockingInv, queueVars, history
<1>1. Sharing' = Sharing /\ \A q : Ours(q)' <=> Ours(q)
  BY SharingStill, OursStill
<1>2. \A q \in Queues : Oldest(q)' = Oldest(q) /\ Fresh(q)' = Fresh(q)
  BY OldestStill, FreshStill
<1>3. StoreInv'
  BY <1>1, <1>2 DEF StoreInv
<1>4. OwnInv'
  BY <1>1, <1>2, ServesTyped, QueueFacts DEF OwnInv
<1>5. OutstandingInv'
  <2>1. Sharing \subseteq Queues
    BY DEF Sharing
  <2> QED BY <1>1, <1>2, <2>1 DEF OutstandingInv
<1>6. HandInv'
  BY <1>1 DEF HandInv
<1>7. DrainInv'
  BY DEF DrainInv
<1>8. NothingSkipped'
  BY DEF NothingSkipped
<1> QED BY <1>3, <1>4, <1>5, <1>6, <1>7, <1>8

\* Clients go on, and fall asleep only at an empty queue; no sender does anything.
LEMMA SendersAlone ==
  ASSUME BlockingInv, UNCHANGED <<pc, pmode, pn, pdest, size, serves, stopped>>,
         \A d \in Clients : cpc'[d] = "asleep" => cpc[d] = "asleep" \/ size[serves[d]] = 0
  PROVE  CallInv' /\ NobodySleepsInVain'
<1> USE DEF BlockingInv
<1>1. \A p \in Senders : At(p)' = At(p)
  BY AtStill
<1>2. \A q : Ours(q)' <=> Ours(q)
  BY OursStill
<1>3. CallInv'
  BY DEF CallInv
<1>4. NobodySleepsInVain'
  BY <1>1, <1>2 DEF NobodySleepsInVain, isFull
<1> QED BY <1>3, <1>4

\* Messages leave queue q, and whoever waits for room in it is woken if it was full.
LEMMA WasteWakes ==
  ASSUME BlockingInv, NEW q \in Queues, NotifySlot(q), NEW n \in Nat,
         UNCHANGED <<pmode, pn, pdest, serves, stopped>>,
         size' = [size EXCEPT ![q] = n],
         Ours(q) => n <= size[q],
         \A d \in Clients : cpc'[d] = "asleep" => cpc[d] = "asleep"
  PROVE  CallInv' /\ NobodySleepsInVain'
<1> USE DEF BlockingInv
<1>1. \A p \in Senders : At(p)' = At(p)
  BY AtStill
<1>2. \A r : Ours(r)' <=> Ours(r)
  BY OursStill
<1>3. \A p \in Senders : pc'[p] = IF isFull(q) /\ pc[p] = "asleep" /\ At(p) = q THEN "put" ELSE pc[p]
  BY DEF NotifySlot
<1>4. size'[q] = n /\ \A r \in Queues : r # q => size'[r] = size[r]
  BY DEF TypeOK
<1>5. CallInv'
  BY <1>3 DEF CallInv
<1>6. ASSUME NEW p \in Senders, pc'[p] = "asleep", Ours(At(p)) PROVE isFull(At(p))'
  <2>1. pc[p] = "asleep" /\ ~(isFull(q) /\ At(p) = q)
    BY <1>3, <1>6
  <2>2. isFull(At(p))
    BY <1>6, <2>1 DEF NobodySleepsInVain
  <2>3. At(p) # q
    BY <2>1, <2>2
  <2>4. At(p) \in Queues
    BY <2>1, AtVisits DEF CallInv
  <2>5. size'[At(p)] = size[At(p)]
    BY <1>4, <2>3, <2>4
  <2> QED BY <1>1, <2>2, <2>5 DEF isFull
<1>7. ASSUME NEW c \in Clients, cpc'[c] = "asleep", Ours(serves[c])
      PROVE  \/ size'[serves[c]] = 0
             \/ \E p \in Senders : pc'[p] = "notify" /\ At(p) = serves[c]
  <2>1. \/ size[serves[c]] = 0
        \/ \E p \in Senders : pc[p] = "notify" /\ At(p) = serves[c]
    BY <1>7 DEF NobodySleepsInVain
  <2>2. CASE size[serves[c]] = 0
    <3>1. serves[c] \in Queues /\ size[q] \in Nat
      BY ServesTyped, QueueFacts
    <3>2. CASE serves[c] = q
      BY <1>4, <1>7, <2>2, <3>1, <3>2
    <3> QED BY <1>4, <2>2, <3>1, <3>2
  <2>3. CASE \E p \in Senders : pc[p] = "notify" /\ At(p) = serves[c]
    BY <1>3, <2>3
  <2> QED BY <2>1, <2>2, <2>3
<1>8. NobodySleepsInVain'
  BY <1>1, <1>2, <1>6, <1>7 DEF NobodySleepsInVain
<1> QED BY <1>5, <1>8

-----------------------------------------------------------------------------
(***************************************************************************)
(* The invariant holds at the start and is kept by each action.            *)
(***************************************************************************)
\* The invariant holds of empty queues.
LEMMA InitHolds == Init => BlockingInv
<1> SUFFICES ASSUME Init PROVE BlockingInv
  OBVIOUS
<1> USE DEF Init
<1>1. TypeOK
  <2>1. QueueTypes
    BY ConstantFacts DEF QueueTypes
  <2>2. CallTypes
    BY ConstantFacts DEF CallTypes
  <2>3. ClientTypes
    <3>1. serves \in Deployments /\ stopped \in BOOLEAN
      OBVIOUS
    <3>2. /\ cpc \in [Clients -> {"loop", "peek", "handle", "wait", "asleep", "exit", "drain",
                                 "drainWaste", "gone"}]
          /\ cpos \in [Clients -> Nat] /\ cend \in [Clients -> Nat]
          /\ ccount \in [Clients -> 0 .. SIZE_MAX]
      BY ConstantFacts
    <3>3. given \in [Queues -> SUBSET Nat] /\ again \in [Queues -> SUBSET Nat]
      OBVIOUS
    <3> QED BY <3>1, <3>2, <3>3 DEF ClientTypes
  <2> QED BY <2>1, <2>2, <2>3, TypeParts
<1>2. CallInv
  BY DEF CallInv
<1>3. StoreInv
  BY ConstantFacts DEF StoreInv, Oldest
<1>4. OwnInv
  BY DEF OwnInv
<1>5. OutstandingInv
  BY DEF OutstandingInv, Oldest, Fresh, Sharing
<1>6. HandInv
  BY DEF HandInv
<1>7. DrainInv
  BY DEF DrainInv
<1>8. NothingSkipped
  BY DEF NothingSkipped
<1>9. NobodySleepsInVain
  BY DEF NobodySleepsInVain
<1> QED BY <1>1, <1>2, <1>3, <1>4, <1>5, <1>6, <1>7, <1>8, <1>9 DEF BlockingInv

\* The clients as a sender's step leaves them when it wakes nobody.
LEMMA ClientsAlone ==
  ASSUME BlockingInv, UNCHANGED <<queueVars, ctxVars, cpc, rangeVars, history>>
  PROVE  (StoreInv /\ OwnInv /\ OutstandingInv /\ HandInv /\ DrainInv /\ NothingSkipped)'
<1>1. UNCHANGED <<queueVars, serves, stopped, history>>
  BY DEF ctxVars
<1>0. PICK none \in SUBSET Clients : none = {}
  OBVIOUS
<1>2. \A d \in Clients \ none :
        /\ cpc'[d] = cpc[d] \/ cpc'[d] \notin {"handle", "drain", "drainWaste"}
        /\ cpos'[d] = cpos[d] /\ cend'[d] = cend[d] /\ ccount'[d] = ccount[d]
  BY DEF rangeVars
<1>3. \A d \in none : FALSE
  BY <1>0
<1> HIDE DEF queueVars, history
<1> QED BY <1>1, <1>2, <1>3, QueuesAlone

\* A sender goes on with its call or returns from it.
LEMMA OnwardCall ==
  ASSUME TypeOK, CallInv, NEW p \in Senders, pc[p] # "idle", Onward(p)
  PROVE  /\ pdest'[p] # {} \/ pc'[p] = "idle"
         /\ pc'[p] \in {"idle", "put"}
         /\ pc'[p] = "put" => pn'[p] = pn[p] /\ pmode'[p] = pmode[p]
         /\ \A r \in Senders \ {p} : /\ pc'[r] = pc[r] /\ pdest'[r] = pdest[r]
                                     /\ pn'[r] = pn[r] /\ pmode'[r] = pmode[r]
<1> USE DEF TypeOK
<1>1. CASE Return(p)
  BY <1>1 DEF Return
<1>2. CASE /\ pdest[p] # {At(p)}
           /\ pdest' = [pdest EXCEPT ![p] = @ \ {At(p)}]
           /\ pc' = [pc EXCEPT ![p] = "put"]
           /\ UNCHANGED <<pmode, pn>>
  <2>1. pdest[p] # {}
    BY DEF CallInv
  <2>2. pdest'[p] # {}
    BY <1>2, <2>1
  <2> QED BY <1>2, <2>2
<1> QED BY <1>1, <1>2 DEF Onward

\* A new call disturbs nobody.
LEMMA CallKeeps == ASSUME BlockingInv, NEW p \in Senders, Call(p) PROVE BlockingInv'
<1> USE DEF BlockingInv
<1>1. TypeOK'
  BY CallTyped
<1>2. PICK dest : /\ dest # {}
                  /\ \/ \E mode \in {"send", "try"} : Send(p, mode, 1, dest)
                     \/ \E n \in Lengths : Send(p, "range", n, dest)
  BY DEF Call
<1>3. PICK n \in 1 .. capacity, mode \in {"send", "try", "range"} :
        Send(p, mode, n, dest) /\ (mode \in {"send", "try"} => n = 1)
  <2>1. 1 \in 1 .. capacity /\ Lengths \subseteq 1 .. capacity
    BY BlockingAssumption
  <2> QED BY <1>2, <2>1
<1>4. (StoreInv /\ OwnInv /\ OutstandingInv /\ HandInv /\ DrainInv /\ NothingSkipped)'
  <2>1. UNCHANGED <<queueVars, ctxVars, cpc, rangeVars, history>>
    BY <1>3 DEF Send
  <2> QED BY <2>1, ClientsAlone
<1>5. /\ pc[p] = "idle" /\ pc'[p] = "put" /\ pn'[p] = n /\ pmode'[p] = mode /\ pdest'[p] = dest
      /\ \A r \in Senders \ {p} : /\ pc'[r] = pc[r] /\ pdest'[r] = pdest[r]
                                  /\ pn'[r] = pn[r] /\ pmode'[r] = pmode[r]
  BY <1>3 DEF Send, TypeOK
<1>6. n \in 1 .. MaxSeq
  <2>1. sent \in 0 .. MaxSeq /\ sent + n <= MaxSeq
    BY <1>3 DEF Send, TypeOK
  <2> QED BY <2>1, ConstantFacts
<1>7. CallInv'
  BY <1>2, <1>3, <1>5, <1>6 DEF CallInv
<1>8. NobodySleepsInVain'
  <2>1. \A q : Ours(q)' <=> Ours(q)
    BY <1>3, OursStill DEF Send, ctxVars
  <2>2. \A r \in Senders : pc'[r] \in {"asleep", "notify"} <=> pc[r] \in {"asleep", "notify"}
    BY <1>5
  <2>3. \A r \in Senders : pc'[r] \in {"asleep", "notify"} => At(r)' = At(r) /\ pc'[r] = pc[r]
    BY <1>5, AtStill
  <2>4. \A r \in Senders : pc[r] = "notify" => pc'[r] = "notify" /\ At(r)' = At(r)
    BY <1>5, AtStill
  <2>5. UNCHANGED <<size, serves, cpc>>
    BY <1>3 DEF Send, queueVars, ctxVars
  <2> QED BY <2>1, <2>3, <2>4, <2>5 DEF NobodySleepsInVain, isFull
<1> QED BY <1>1, <1>4, <1>7, <1>8

\* A sender that falls asleep found its queue full: it had one message to put.
LEMMA SleepKeeps == ASSUME BlockingInv, NEW p \in Senders, Sleep(p) PROVE BlockingInv'
<1> USE DEF BlockingInv
<1>1. TypeOK'
  BY SleepTyped
<1>2. (StoreInv /\ OwnInv /\ OutstandingInv /\ HandInv /\ DrainInv /\ NothingSkipped)'
  BY ClientsAlone DEF Sleep
<1>3. /\ pc[p] = "put" /\ pc'[p] = "asleep" /\ pmode[p] \in {"send", "try"}
      /\ \A r \in Senders \ {p} : pc'[r] = pc[r]
      /\ UNCHANGED <<pmode, pn, pdest, size, serves, stopped, cpc>>
  BY DEF Sleep, TypeOK, queueVars, ctxVars
<1>4. CallInv'
  BY <1>3 DEF CallInv
<1>5. \A r \in Senders : At(r)' = At(r)
  BY <1>3, AtStill
<1>6. \A q : Ours(q)' <=> Ours(q)
  BY <1>3, OursStill
<1>7. Ours(At(p)) => isFull(At(p))
  <2> SUFFICES ASSUME Ours(At(p)) PROVE isFull(At(p))
    OBVIOUS
  <2>1. pn[p] = 1 /\ At(p) \in Queues
    BY <1>3, AtVisits DEF CallInv
  <2>2. size[At(p)] \in 0 .. SIZE_MAX /\ size[At(p)] <= capacity
    BY <2>1, QueueFacts DEF StoreInv
  <2>3. Wrap(size[At(p)] + pn[p] - 1) = size[At(p)]
    <3>1. size[At(p)] + pn[p] - 1 = size[At(p)]
      BY <2>1, <2>2
    <3> QED BY <2>2, <3>1, WrapFits
  <2>4. ~(capacity > size[At(p)])
    BY <2>3 DEF Sleep, HasSlot
  <2> QED BY <2>2, <2>4, ConstantFacts DEF isFull
<1>8. NobodySleepsInVain'
  BY <1>3, <1>5, <1>6, <1>7 DEF NobodySleepsInVain, isFull
<1> QED BY <1>1, <1>2, <1>4, <1>8

\* A trySend that gives up leaves the queue to others.
LEMMA TryFailsKeeps == ASSUME BlockingInv, NEW p \in Senders, TryFails(p) PROVE BlockingInv'
<1> USE DEF BlockingInv
<1>1. TypeOK'
  BY TryFailsTyped
<1>2. (StoreInv /\ OwnInv /\ OutstandingInv /\ HandInv /\ DrainInv /\ NothingSkipped)'
  BY ClientsAlone DEF TryFails
<1>3. /\ pc[p] \in {"put", "asleep"} /\ pc'[p] = "idle"
      /\ \A r \in Senders \ {p} : /\ pc'[r] = pc[r] /\ pdest'[r] = pdest[r]
                                  /\ pn'[r] = pn[r] /\ pmode'[r] = pmode[r]
      /\ UNCHANGED <<size, serves, stopped, cpc>>
  BY DEF TryFails, Return, TypeOK, queueVars, ctxVars
<1>4. CallInv'
  BY <1>3 DEF CallInv
<1>5. \A r \in Senders \ {p} : At(r)' = At(r)
  BY <1>3, AtStill
<1>6. \A q : Ours(q)' <=> Ours(q)
  BY <1>3, OursStill
<1>7. NobodySleepsInVain'
  BY <1>3, <1>5, <1>6 DEF NobodySleepsInVain, isFull
<1> QED BY <1>1, <1>2, <1>4, <1>7

\* The sender that owed the clients a notification has sent it: none of them is asleep.
LEMMA NotifyItemKeeps == ASSUME BlockingInv, NEW p \in Senders, NotifyItem(p) PROVE BlockingInv'
<1> USE DEF BlockingInv
<1>1. TypeOK'
  BY NotifyItemTyped
<1>0. \A d \in Clients : cpc'[d] = IF serves[d] = At(p) /\ cpc[d] = "asleep" THEN "wait" ELSE cpc[d]
  BY DEF NotifyItem
<1>2. (StoreInv /\ OwnInv /\ OutstandingInv /\ HandInv /\ DrainInv /\ NothingSkipped)'
  <2>1. UNCHANGED <<queueVars, serves, stopped, history>>
    BY DEF NotifyItem, ctxVars
  <2>0. PICK none \in SUBSET Clients : none = {}
    OBVIOUS
  <2>2. \A d \in Clients \ none :
          /\ cpc'[d] = cpc[d] \/ cpc'[d] \notin {"handle", "drain", "drainWaste"}
          /\ cpos'[d] = cpos[d] /\ cend'[d] = cend[d] /\ ccount'[d] = ccount[d]
    BY <1>0 DEF NotifyItem, rangeVars
  <2>3. \A d \in none : FALSE
    BY <2>0
  <2> HIDE DEF BlockingInv
  <2> QED BY <2>1, <2>2, <2>3, QueuesAlone
<1>3. /\ pc[p] = "notify" /\ pc'[p] \in {"idle", "put"}
      /\ pdest'[p] # {} \/ pc'[p] = "idle"
      /\ pc'[p] = "put" => pn'[p] = pn[p] /\ pmode'[p] = pmode[p]
      /\ \A r \in Senders \ {p} : /\ pc'[r] = pc[r] /\ pdest'[r] = pdest[r]
                                  /\ pn'[r] = pn[r] /\ pmode'[r] = pmode[r]
  BY OnwardCall DEF NotifyItem
<1>4. UNCHANGED <<size, serves, stopped>>
  BY DEF NotifyItem, queueVars, ctxVars
<1>5. CallInv'
  BY <1>3 DEF CallInv
<1>6. \A r \in Senders \ {p} : At(r)' = At(r)
  BY <1>3, AtStill
<1>7. \A q : Ours(q)' <=> Ours(q)
  BY <1>4, OursStill
<1>8. NobodySleepsInVain'
  BY <1>0, <1>3, <1>4, <1>6, <1>7 DEF NobodySleepsInVain, isFull
<1> QED BY <1>1, <1>2, <1>5, <1>8

\* A stop takes nothing out of a queue; shared ones are given up from here on.
LEMMA StopKeeps == ASSUME BlockingInv, Stop PROVE BlockingInv'
<1> USE DEF BlockingInv
<1>1. TypeOK'
  BY StopTyped
<1>2. stopped' = TRUE /\ UNCHANGED <<serves, queueVars, sendVars, cpc, rangeVars, history>>
  BY DEF Stop
<1>3. Sharing' = Sharing
  BY <1>2, SharingStill
<1>4. \A q : Ours(q)' => Ours(q)
  BY <1>2, <1>3 DEF Ours
<1>5. \A q : Oldest(q)' = Oldest(q)
  BY <1>2 DEF Oldest, queueVars
<1>6. \A p \in Senders : At(p)' = At(p)
  BY <1>2, AtStill DEF sendVars
<1>7. CallInv'
  BY <1>2 DEF CallInv, sendVars
<1>8. StoreInv'
  BY <1>2, <1>4, <1>5 DEF StoreInv, queueVars
<1>9. OwnInv'
  BY <1>2, <1>3, <1>5 DEF OwnInv, queueVars, rangeVars, history
<1>10. (OutstandingInv /\ HandInv /\ DrainInv /\ NothingSkipped)'
  BY <1>2 DEF OutstandingInv, HandInv, DrainInv, NothingSkipped
<1>11. NobodySleepsInVain'
  BY <1>2, <1>4, <1>6 DEF NobodySleepsInVain, isFull, queueVars, sendVars
<1> QED BY <1>1, <1>7, <1>8, <1>9, <1>10, <1>11

\* A client that holds no messages goes to another place in its loop.
LEMMA ClientGoes ==
  ASSUME BlockingInv, NEW c \in Clients, NEW where, Goto(c, where),
         UNCHANGED <<queueVars, sendVars, ctxVars, history>>,
         \A d \in Clients \ {c} : /\ cpos'[d] = cpos[d] /\ cend'[d] = cend[d]
                                  /\ ccount'[d] = ccount[d],
         where # "handle",
         where \in {"drain", "drainWaste"} => stopped,
         where = "drainWaste" => ccount'[c] = size[serves[c]],
         where = "asleep" => size[serves[c]] = 0,
         TypeOK'
  PROVE  BlockingInv'
<1>1. /\ \A d \in Clients \ {c} : cpc'[d] = cpc[d]
      /\ cpc'[c] = where
  BY DEF Goto, TypeOK, BlockingInv
<1>2. PICK S \in SUBSET Clients : S = {c}
  OBVIOUS
<1>3. (StoreInv /\ OwnInv /\ OutstandingInv /\ HandInv /\ DrainInv /\ NothingSkipped)'
  <2>1. UNCHANGED <<queueVars, serves, stopped, history>>
    BY DEF ctxVars
  <2>2. \A d \in Clients \ S :
          /\ cpc'[d] = cpc[d] \/ cpc'[d] \notin {"handle", "drain", "drainWaste"}
          /\ cpos'[d] = cpos[d] /\ cend'[d] = cend[d] /\ ccount'[d] = ccount[d]
    BY <1>1, <1>2
  <2>3. \A d \in S : /\ cpc'[d] # "handle"
                     /\ cpc'[d] \in {"drain", "drainWaste"} => stopped
                     /\ cpc'[d] = "drainWaste" => ccount'[d] = size[serves[d]]
    BY <1>1, <1>2
  <2> QED BY <2>1, <2>2, <2>3, QueuesAlone
<1>4. CallInv' /\ NobodySleepsInVain'
  <2>1. UNCHANGED <<pc, pmode, pn, pdest, size, serves, stopped>>
    BY DEF queueVars, sendVars, ctxVars
  <2>2. \A d \in Clients : cpc'[d] = "asleep" => cpc[d] = "asleep" \/ size[serves[d]] = 0
    BY <1>1
  <2> QED BY <2>1, <2>2, SendersAlone
<1> QED BY <1>3, <1>4 DEF BlockingInv

\* The test of stopped_ keeps the invariant.
LEMMA LoopKeeps == ASSUME BlockingInv, NEW c \in Clients, Loop(c) PROVE BlockingInv'
<1>1. TypeOK'
  BY LoopTyped DEF BlockingInv
<1>2. PICK where \in {"exit", "peek"} : Goto(c, where)
  BY DEF Loop
<1>3. UNCHANGED <<queueVars, sendVars, ctxVars, history>> /\ UNCHANGED rangeVars
  BY DEF Loop
<1> QED BY <1>1, <1>2, <1>3, ClientGoes DEF rangeVars

\* An exception leaves what was peeked in the queue.
LEMMA ThrowKeeps == ASSUME BlockingInv, NEW c \in Clients, Throw(c) PROVE BlockingInv'
<1>1. TypeOK'
  BY ThrowTyped DEF BlockingInv
<1>2. PICK where \in {"exit", "loop"} : Goto(c, where)
  BY DEF Throw
<1>3. UNCHANGED <<queueVars, sendVars, ctxVars, history>>
  BY DEF Throw
<1>4. \A d \in Clients \ {c} : cpos'[d] = cpos[d] /\ cend'[d] = cend[d] /\ ccount'[d] = ccount[d]
  BY DEF Throw, NoRange, BlockingInv, TypeOK
<1> QED BY <1>1, <1>2, <1>3, <1>4, ClientGoes

\* A client falls asleep at an empty queue only.
LEMMA WaitItemKeeps == ASSUME BlockingInv, NEW c \in Clients, WaitItem(c) PROVE BlockingInv'
<1>1. TypeOK'
  BY WaitItemTyped DEF BlockingInv
<1>2. PICK where \in {"asleep", "loop"} :
        Goto(c, where) /\ (where = "asleep" => size[serves[c]] = 0)
  BY DEF WaitItem
<1>3. UNCHANGED <<queueVars, sendVars, ctxVars, history>> /\ UNCHANGED rangeVars
  BY DEF WaitItem
<1> QED BY <1>1, <1>2, <1>3, ClientGoes DEF rangeVars

\* The end of a wait keeps the invariant.
LEMMA WaitTimeoutKeeps == ASSUME BlockingInv, NEW c \in Clients, WaitTimeout(c) PROVE BlockingInv'
<1>1. TypeOK'
  BY WaitTimeoutTyped DEF BlockingInv
<1>2. Goto(c, "loop")
  BY DEF WaitTimeout
<1>3. UNCHANGED <<queueVars, sendVars, ctxVars, history>> /\ UNCHANGED rangeVars
  BY DEF WaitTimeout
<1> QED BY <1>1, <1>2, <1>3, ClientGoes DEF rangeVars

\* A client drains when the Context was stopped.
LEMMA ExitKeeps == ASSUME BlockingInv, NEW c \in Clients, Exit(c) PROVE BlockingInv'
<1>1. TypeOK'
  BY ExitTyped DEF BlockingInv
<1>2. PICK where \in {"drain", "gone"} : Goto(c, where) /\ (where = "drain" => stopped)
  BY DEF Exit
<1>3. UNCHANGED <<queueVars, sendVars, ctxVars, history>> /\ UNCHANGED rangeVars
  BY DEF Exit
<1> QED BY <1>1, <1>2, <1>3, ClientGoes DEF rangeVars

\* A peek of the drain counts the messages that are in the queue.
LEMMA DrainPeekKeeps == ASSUME BlockingInv, NEW c \in Clients, DrainPeek(c) PROVE BlockingInv'
<1>1. TypeOK'
  BY DrainPeekTyped DEF BlockingInv
<1>2. Goto(c, "drainWaste") /\ stopped
  BY DEF DrainPeek, BlockingInv, DrainInv
<1>3. UNCHANGED <<queueVars, sendVars, ctxVars, history>>
  BY DEF DrainPeek
<1>4. /\ ccount'[c] = size[serves[c]]
      /\ \A d \in Clients \ {c} : cpos'[d] = cpos[d] /\ cend'[d] = cend[d] /\ ccount'[d] = ccount[d]
  BY DEF DrainPeek, BlockingInv, TypeOK
<1> QED BY <1>1, <1>2, <1>3, <1>4, ClientGoes

\* The queues are what they were, whatever the clients do.
LEMMA QueuesStill ==
  ASSUME BlockingInv, UNCHANGED <<queueVars, serves, stopped, history>>
  PROVE  /\ Sharing' = Sharing
         /\ \A q : Oldest(q)' = Oldest(q)
         /\ (StoreInv /\ OutstandingInv /\ NothingSkipped)'
<1> USE DEF BlockingInv, queueVars, history
<1>1. Sharing' = Sharing /\ \A q : Ours(q)' <=> Ours(q)
  BY SharingStill, OursStill
<1>2. \A q : Oldest(q)' = Oldest(q) /\ Fresh(q)' = Fresh(q)
  BY OldestStill, FreshStill
<1>3. StoreInv'
  BY <1>1, <1>2 DEF StoreInv
<1>4. OutstandingInv'
  BY <1>1, <1>2 DEF OutstandingInv
<1>5. NothingSkipped'
  BY DEF NothingSkipped
<1> QED BY <1>1, <1>2, <1>3, <1>4, <1>5

\* The only client of a queue has peeked all that is in it and was given none.
LEMMA PeekKeeps == ASSUME BlockingInv, NEW c \in Clients, Peek(c) PROVE BlockingInv'
<1> DEFINE q == serves[c]
<1>1. TypeOK'
  BY PeekTyped DEF BlockingInv
<1>2. UNCHANGED <<queueVars, sendVars, serves, stopped, history>>
  BY DEF Peek, ctxVars
<1>3. Sharing' = Sharing /\ (\A r : Oldest(r)' = Oldest(r)) /\ (StoreInv /\ OutstandingInv /\ NothingSkipped)'
  BY <1>2, QueuesStill
<1>4. q \in Queues /\ q \notin Sharing
  BY ServesTyped DEF Peek, BlockingInv
<1>5. size[q] \in Nat /\ seq[q] \in Nat /\ size[q] <= seq[q]
  BY <1>4, QueueFacts DEF BlockingInv, StoreInv, Ours
<1>6. /\ cpc'[c] = "handle" /\ cpos'[c] = Oldest(q) /\ cend'[c] = seq[q] /\ ccount'[c] = size[q]
      /\ \A d \in Clients \ {c} : /\ cpc'[d] = cpc[d] /\ cpos'[d] = cpos[d]
                                  /\ cend'[d] = cend[d] /\ ccount'[d] = ccount[d]
  BY <1>5 DEF Peek, Goto, Back, Oldest, BlockingInv, TypeOK
<1>7. OwnInv'
  <2>1. ASSUME NEW d \in Clients, serves[d] \notin Sharing
        PROVE  LET r == serves[d] IN
               /\ cpc'[d] = "drainWaste" => ccount'[d] <= size[r]
               /\ cpc'[d] = "handle" =>
                    /\ ccount'[d] <= size[r]
                    /\ cend'[d] = Oldest(r) + ccount'[d]
                    /\ Oldest(r) <= cpos'[d] /\ cpos'[d] <= cend'[d]
                    /\ \A s \in Oldest(r) .. cpos'[d] - 1 : s \in given[r]
    <3>1. CASE d = c
      BY <1>5, <1>6, <3>1 DEF Oldest
    <3>2. CASE d # c
      BY <1>6, <2>1, <3>2 DEF BlockingInv, OwnInv
    <3> QED BY <3>1, <3>2
  <2> QED BY <1>2, <1>3, <2>1 DEF OwnInv, queueVars, history
<1>8. HandInv'
  BY <1>2, <1>3, <1>4, <1>6 DEF BlockingInv, HandInv, queueVars, history
<1>9. DrainInv'
  BY <1>2, <1>6 DEF BlockingInv, DrainInv
<1>10. CallInv' /\ NobodySleepsInVain'
  <2>1. UNCHANGED <<pc, pmode, pn, pdest, size, serves, stopped>>
    BY <1>2 DEF queueVars, sendVars
  <2>2. \A d \in Clients : cpc'[d] = "asleep" => cpc[d] = "asleep" \/ size[serves[d]] = 0
    BY <1>6
  <2> QED BY <2>1, <2>2, SendersAlone
<1> QED BY <1>1, <1>3, <1>7, <1>8, <1>9, <1>10 DEF BlockingInv

\* A client of a shared queue takes the first message nobody has.
LEMMA PeekExclusiveTakes ==
  ASSUME BlockingInv, NEW c \in Clients, PeekExclusive(c), size[serves[c]] > peeked[serves[c]]
  PROVE  BlockingInv'
<1> DEFINE q == serves[c]  s == Back(q, size[q] - peeked[q])
<1>1. TypeOK'
  BY PeekExclusiveTyped DEF BlockingInv
<1>2. q \in Queues /\ q \in Sharing
  BY ServesTyped DEF PeekExclusive, BlockingInv
<1>3. /\ size[q] \in Nat /\ seq[q] \in Nat /\ peeked[q] \in Nat /\ peeked[q] < size[q]
      /\ outstanding[q] \in SUBSET Nat /\ given[q] \in SUBSET Nat
  BY <1>2, QueueFacts DEF BlockingInv
<1>4. UNCHANGED <<size, seq, store, sendVars, serves, stopped, given, again>>
  BY DEF PeekExclusive, ctxVars, history
<1>5. /\ peeked' = [peeked EXCEPT ![q] = @ + 1]
      /\ outstanding' = [outstanding EXCEPT ![q] = @ \cup {s}]
      /\ cpc' = [cpc EXCEPT ![c] = "handle"]
      /\ cpos' = [cpos EXCEPT ![c] = s] /\ cend' = [cend EXCEPT ![c] = s + 1]
      /\ ccount' = [ccount EXCEPT ![c] = 1]
  BY <1>3 DEF PeekExclusive, Goto
<1> HIDE DEF s
<1>6. /\ peeked'[q] = peeked[q] + 1 /\ outstanding'[q] = outstanding[q] \cup {s}
      /\ \A r \in Queues \ {q} : peeked'[r] = peeked[r] /\ outstanding'[r] = outstanding[r]
      /\ cpc'[c] = "handle" /\ cpos'[c] = s /\ cend'[c] = s + 1
      /\ \A d \in Clients \ {c} : /\ cpc'[d] = cpc[d] /\ cpos'[d] = cpos[d]
                                  /\ cend'[d] = cend[d] /\ ccount'[d] = ccount[d]
  BY <1>2, <1>5 DEF BlockingInv, TypeOK
<1>7. Sharing' = Sharing /\ (\A r : Ours(r)' <=> Ours(r)) /\ (\A r : Oldest(r)' = Oldest(r))
  BY <1>4, SharingStill, OursStill DEF Oldest
<1>8. ~stopped => s = Fresh(q) /\ s \in Nat
  <2>1. ~stopped => size[q] <= seq[q]
    BY <1>2 DEF BlockingInv, StoreInv, Ours
  <2> QED BY <1>3, <2>1 DEF s, Back, Fresh, Oldest
<1>9. StoreInv'
  BY <1>4, <1>7 DEF BlockingInv, StoreInv
<1>10. OwnInv'
  BY <1>2, <1>4, <1>6, <1>7 DEF BlockingInv, OwnInv
<1>11. OutstandingInv'
  <2>1. ASSUME ~stopped
        PROVE  /\ peeked'[q] <= size[q]
               /\ \A t \in outstanding'[q] : Oldest(q) <= t /\ t < Oldest(q) + peeked'[q]
               /\ peeked'[q] > 0 => Oldest(q) \in outstanding'[q]
               /\ \A t \in Oldest(q) .. (Oldest(q) + peeked'[q]) - 1 : t \in outstanding'[q] \/ t \in given[q]
               /\ \A t \in given[q] : t < Oldest(q) + peeked'[q]
               /\ again[q] = {}
    <3>1. /\ \A t \in outstanding[q] : Oldest(q) <= t /\ t < Oldest(q) + peeked[q]
          /\ peeked[q] > 0 => Oldest(q) \in outstanding[q]
          /\ \A t \in Oldest(q) .. (Oldest(q) + peeked[q]) - 1 : t \in outstanding[q] \/ t \in given[q]
          /\ \A t \in given[q] : t < Oldest(q) + peeked[q]
          /\ again[q] = {}
      <4> HIDE DEF q
      <4> QED BY <1>2, <2>1, Zenon DEF BlockingInv, OutstandingInv, Fresh
    <3>2. s = Oldest(q) + peeked[q] /\ Oldest(q) \in Int
      BY <1>3, <1>8, <2>1 DEF Fresh, Oldest
    <3> HIDE DEF q
    <3>3. peeked'[q] <= size[q]
      BY <1>3, <1>6
    <3>4. \A t \in outstanding'[q] : Oldest(q) <= t /\ t < Oldest(q) + peeked'[q]
      BY <1>3, <1>6, <3>1, <3>2
    <3>5. peeked'[q] > 0 => Oldest(q) \in outstanding'[q]
      <4>1. CASE peeked[q] = 0
        BY <1>6, <3>2, <4>1
      <4> QED BY <1>3, <1>6, <3>1, <4>1
    <3>6. ASSUME NEW t \in Oldest(q) .. (Oldest(q) + peeked'[q]) - 1
          PROVE  t \in outstanding'[q] \/ t \in given[q]
      <4>1. t = s \/ t \in Oldest(q) .. (Oldest(q) + peeked[q]) - 1
        BY <1>3, <1>6, <3>2
      <4> QED BY <1>6, <3>1, <4>1
    <3>7. \A t \in given[q] : t < Oldest(q) + peeked'[q]
      BY <1>3, <1>6, <3>1, <3>2
    <3> QED BY <3>1, <3>3, <3>4, <3>5, <3>6, <3>7
  <2>2. ASSUME NEW r \in Sharing, ~stopped
        PROVE  /\ peeked'[r] <= size[r]
               /\ \A t \in outstanding'[r] : Oldest(r) <= t /\ t < Oldest(r) + peeked'[r]
               /\ peeked'[r] > 0 => Oldest(r) \in outstanding'[r]
               /\ \A t \in Oldest(r) .. (Oldest(r) + peeked'[r]) - 1 : t \in outstanding'[r] \/ t \in given[r]
               /\ \A t \in given[r] : t < Oldest(r) + peeked'[r]
               /\ again[r] = {}
    <3>1. CASE r = q
      BY <2>1, <2>2, <3>1
    <3>2. CASE r # q
      <4>1. peeked'[r] = peeked[r] /\ outstanding'[r] = outstanding[r]
        BY <1>6, <3>2 DEF Sharing
      <4> QED BY <2>2, <4>1, Zenon DEF BlockingInv, OutstandingInv, Fresh
    <3> QED BY <3>1, <3>2
  <2>3. \A r : Fresh(r)' = Oldest(r) + peeked'[r]
    BY <1>7 DEF Fresh
  <2>4. Sharing' = Sharing /\ stopped' = stopped /\ size' = size /\ given' = given /\ again' = again
    BY <1>4, <1>7
  <2>5. \A r : Oldest(r)' = Oldest(r)
    BY <1>7
  <2> QED BY <2>2, <2>3, <2>4, <2>5, Zenon DEF OutstandingInv
<1>12. HandInv'
  <2>1. ASSUME NEW d \in Clients, serves[d] \in Sharing, ~stopped, cpc'[d] = "handle"
        PROVE  LET r == serves[d]  t == cend'[d] - 1 IN
               /\ t \in outstanding'[r]
               /\ \/ cpos'[d] = t /\ t \notin given[r]
                  \/ cpos'[d] = cend'[d] /\ t \in given[r]
               /\ \A e \in Clients \ {d} : serves[e] = r /\ cpc'[e] = "handle" => cend'[e] # cend'[d]
    <3>0. serves[d] \in Queues
      BY ServesTyped DEF BlockingInv
    <3>1. \A t \in outstanding[q] : t < s
      BY <1>2, <1>8, <2>1 DEF BlockingInv, OutstandingInv
    <3>2. s \notin given[q]
      BY <1>2, <1>3, <1>8, <2>1 DEF BlockingInv, OutstandingInv
    <3>3. \A e \in Clients \ {c} : serves[e] = q /\ cpc[e] = "handle" => cend[e] - 1 \in outstanding[q]
      BY <1>2, <2>1 DEF BlockingInv, HandInv
    <3>4. \A e \in Clients \ {c} : serves[e] = q /\ cpc[e] = "handle" => cend[e] # s + 1
      BY <1>8, <2>1, <3>1, <3>3, ClientFacts DEF BlockingInv
    <3>5. CASE d = c
      <4>1. cend'[c] - 1 = s
        BY <1>6, <1>8, <2>1
      <4> QED BY <1>6, <3>2, <3>4, <3>5, <4>1
    <3>6. CASE d # c
      <4>1. /\ cend[d] - 1 \in outstanding[serves[d]]
            /\ \/ cpos[d] = cend[d] - 1 /\ cend[d] - 1 \notin given[serves[d]]
               \/ cpos[d] = cend[d] /\ cend[d] - 1 \in given[serves[d]]
            /\ \A e \in Clients \ {d} : serves[e] = serves[d] /\ cpc[e] = "handle" => cend[e] # cend[d]
        BY <1>6, <2>1, <3>6 DEF BlockingInv, HandInv
      <4>2. cend[d] - 1 \in outstanding'[serves[d]]
        BY <1>6, <3>0, <4>1
      <4>3. ASSUME NEW e \in Clients \ {d}, serves[e] = serves[d], cpc'[e] = "handle"
            PROVE  cend'[e] # cend'[d]
        <5>1. CASE e = c
          BY <1>6, <2>1, <3>4, <3>6, <4>3, <5>1
        <5>2. CASE e # c
          BY <1>6, <3>6, <4>1, <4>3, <5>2
        <5> QED BY <5>1, <5>2
      <4> QED BY <1>6, <3>6, <4>1, <4>2, <4>3
    <3> QED BY <3>5, <3>6
  <2> QED BY <1>4, <1>7, <2>1 DEF HandInv
<1>13. DrainInv'
  BY <1>4, <1>6 DEF BlockingInv, DrainInv
<1>14. NothingSkipped'
  BY <1>4 DEF BlockingInv, NothingSkipped
<1>15. CallInv' /\ NobodySleepsInVain'
  <2>1. UNCHANGED <<pc, pmode, pn, pdest, size, serves, stopped>>
    BY <1>4 DEF sendVars
  <2>2. \A d \in Clients : cpc'[d] = "asleep" => cpc[d] = "asleep" \/ size[serves[d]] = 0
    BY <1>6
  <2> QED BY <2>1, <2>2, SendersAlone
<1> QED BY <1>1, <1>9, <1>10, <1>11, <1>12, <1>13, <1>14, <1>15 DEF BlockingInv

\* peekExclusive hands out a message or sends the client to wait.
LEMMA PeekExclusiveKeeps == ASSUME BlockingInv, NEW c \in Clients, PeekExclusive(c) PROVE BlockingInv'
<1>1. CASE size[serves[c]] > peeked[serves[c]]
  BY <1>1, PeekExclusiveTakes
<1>2. CASE ~(size[serves[c]] > peeked[serves[c]])
  <2>1. TypeOK'
    BY PeekExclusiveTyped DEF BlockingInv
  <2>2. Goto(c, "wait") /\ UNCHANGED <<queueVars, sendVars, ctxVars, history>> /\ UNCHANGED rangeVars
    BY <1>2 DEF PeekExclusive, queueVars
  <2> QED BY <2>1, <2>2, ClientGoes DEF rangeVars
<1> QED BY <1>1, <1>2

\* The message a client is given is the one it has come to.
LEMMA HandledMessage ==
  ASSUME BlockingInv, NEW c \in Clients, cpc[c] = "handle", cpos[c] < cend[c],
         serves[c] \notin Sharing \/ ~stopped
  PROVE  store[serves[c]][Slot(cpos[c])] = cpos[c]
<1> DEFINE q == serves[c]
<1>1. q \in Queues /\ size[q] \in Nat /\ seq[q] \in Nat /\ peeked[q] \in Nat
  BY ServesTyped, QueueFacts DEF BlockingInv
<1>2. cpos[c] \in Nat /\ cend[c] \in Nat /\ ccount[c] \in Nat
  BY ClientFacts DEF BlockingInv
<1>3. /\ size[q] <= seq[q]
      /\ \A s \in Oldest(q) .. seq[q] - 1 : store[q][Slot(s)] = s
  BY <1>1 DEF BlockingInv, StoreInv, Ours
<1>4. Oldest(q) \in Int /\ Oldest(q) + size[q] = seq[q]
  BY <1>1 DEF Oldest
<1>5. CASE q \notin Sharing
  <2>1. ccount[c] <= size[q] /\ cend[c] = Oldest(q) + ccount[c] /\ Oldest(q) <= cpos[c]
    BY <1>5 DEF BlockingInv, OwnInv
  <2> HIDE DEF q
  <2>2. cpos[c] \in Oldest(q) .. seq[q] - 1
    BY <1>1, <1>2, <1>4, <2>1
  <2> QED BY <1>3, <2>2 DEF q
<1>6. CASE q \in Sharing /\ ~stopped
  <2>1. cend[c] - 1 \in outstanding[q] /\ (cpos[c] = cend[c] - 1 \/ cpos[c] = cend[c])
    BY <1>6 DEF BlockingInv, HandInv
  <2>2. /\ peeked[q] <= size[q]
        /\ \A s \in outstanding[q] : Oldest(q) <= s /\ s < Oldest(q) + peeked[q]
    <3> HIDE DEF q
    <3> QED BY <1>6, Zenon DEF BlockingInv, OutstandingInv, Fresh
  <2> HIDE DEF q
  <2>3. cpos[c] = cend[c] - 1
    BY <1>2, <2>1
  <2>4. cpos[c] \in Oldest(q) .. seq[q] - 1
    BY <1>1, <1>2, <1>4, <2>1, <2>2, <2>3
  <2> QED BY <1>3, <2>4 DEF q
<1> QED BY <1>5, <1>6

\* A callback is given the next message in hand, which nobody was given before.
LEMMA HandleKeeps == ASSUME BlockingInv, NEW c \in Clients, Handle(c) PROVE BlockingInv'
<1> DEFINE q == serves[c]  m == store[q][Slot(cpos[c])]
<1>1. TypeOK'
  BY HandleTyped DEF BlockingInv
<1>2. q \in Queues
  BY ServesTyped DEF BlockingInv
<1>3. cpc[c] = "handle" /\ cpos[c] < cend[c] /\ UNCHANGED <<queueVars, sendVars, serves, stopped, cpc, cend, ccount>>
  BY DEF Handle, ctxVars
<1>4. q \notin Sharing \/ ~stopped => m = cpos[c]
  BY <1>3, HandledMessage
<1>5. /\ given' = [given EXCEPT ![q] = @ \cup {m}]
      /\ again' = [again EXCEPT ![q] = @ \cup ({m} \cap given[q])]
      /\ cpos' = [cpos EXCEPT ![c] = @ + 1]
  BY DEF Handle, Given
<1> HIDE DEF m
<1>6. /\ given'[q] = given[q] \cup {m} /\ again'[q] = again[q] \cup ({m} \cap given[q])
      /\ \A r \in Queues \ {q} : given'[r] = given[r] /\ again'[r] = again[r]
      /\ cpos'[c] = cpos[c] + 1 /\ \A d \in Clients \ {c} : cpos'[d] = cpos[d]
  BY <1>2, <1>5 DEF BlockingInv, TypeOK
<1>7. \A r \in Queues : given[r] \subseteq given'[r]
  BY <1>6
<1>8. cpos[c] \in Nat /\ cend[c] \in Nat /\ ccount[c] \in Nat
  BY ClientFacts DEF BlockingInv
<1>9. /\ Sharing' = Sharing /\ \A r : Ours(r)' <=> Ours(r)
      /\ \A r : Oldest(r)' = Oldest(r) /\ Fresh(r)' = Fresh(r)
  BY <1>3, SharingStill, OursStill, OldestStill, FreshStill DEF queueVars
<1>10. StoreInv'
  BY <1>3, <1>9 DEF BlockingInv, StoreInv, queueVars
<1>11. OwnInv'
  <2>1. ASSUME NEW d \in Clients, serves[d] \notin Sharing, cpc[d] = "handle"
        PROVE  LET r == serves[d] IN
               /\ Oldest(r) <= cpos'[d] /\ cpos'[d] <= cend[d]
               /\ \A s \in Oldest(r) .. cpos'[d] - 1 : s \in given'[r]
    <3>1. LET r == serves[d] IN
          /\ Oldest(r) <= cpos[d] /\ cpos[d] <= cend[d]
          /\ \A s \in Oldest(r) .. cpos[d] - 1 : s \in given[r]
      BY <2>1 DEF BlockingInv, OwnInv
    <3>2. serves[d] \in Queues
      BY ServesTyped DEF BlockingInv
    <3>3. CASE d = c
      <4>1. Oldest(q) \in Int
        BY <1>2, QueueFacts DEF Oldest, BlockingInv
      <4>2. Oldest(q) <= cpos'[c] /\ cpos'[c] <= cend[c]
        BY <1>3, <1>6, <1>8, <3>1, <3>3, <4>1
      <4>3. ASSUME NEW s \in Oldest(q) .. cpos'[c] - 1 PROVE s \in given'[q]
        <5>1. s = cpos[c] \/ s \in Oldest(q) .. cpos[c] - 1
          BY <1>6, <1>8, <4>1
        <5>2. m = cpos[c]
          BY <1>4, <2>1, <3>3
        <5> QED BY <1>6, <3>1, <3>3, <5>1, <5>2
      <4> QED BY <3>3, <4>2, <4>3
    <3>4. CASE d # c
      BY <1>6, <1>7, <3>1, <3>2, <3>4
    <3> QED BY <3>3, <3>4
  <2> QED BY <1>3, <1>9, <2>1 DEF BlockingInv, OwnInv, queueVars
<1>12. q \in Sharing /\ ~stopped => m = cend[c] - 1 /\ m \in outstanding[q] /\ m \notin given[q]
  <2> HIDE DEF q
  <2>1. ASSUME q \in Sharing, ~stopped
        PROVE  /\ cend[c] - 1 \in outstanding[q]
               /\ \/ cpos[c] = cend[c] - 1 /\ cend[c] - 1 \notin given[q]
                  \/ cpos[c] = cend[c] /\ cend[c] - 1 \in given[q]
    BY <1>3, <2>1 DEF BlockingInv, HandInv, q
  <2> QED BY <1>3, <1>4, <1>8, <2>1
<1>13. OutstandingInv'
  <2>1. ASSUME NEW r \in Sharing, ~stopped
        PROVE  /\ peeked[r] <= size[r]
               /\ \A s \in outstanding[r] : Oldest(r) <= s /\ s < Fresh(r)
               /\ peeked[r] > 0 => Oldest(r) \in outstanding[r]
               /\ \A s \in Oldest(r) .. Fresh(r) - 1 : s \in outstanding[r] \/ s \in given'[r]
               /\ \A s \in given'[r] : s < Fresh(r)
               /\ again'[r] = {}
    <3>1. /\ peeked[r] <= size[r]
          /\ \A s \in outstanding[r] : Oldest(r) <= s /\ s < Fresh(r)
          /\ peeked[r] > 0 => Oldest(r) \in outstanding[r]
          /\ \A s \in Oldest(r) .. Fresh(r) - 1 : s \in outstanding[r] \/ s \in given[r]
          /\ \A s \in given[r] : s < Fresh(r)
          /\ again[r] = {}
      BY <2>1, Zenon DEF BlockingInv, OutstandingInv
    <3>2. r \in Queues
      BY DEF Sharing
    <3>3. CASE r = q
      <4>1. m \in outstanding[r] /\ m \notin given[r]
        BY <1>12, <2>1, <3>3
      <4> HIDE DEF q
      <4> QED BY <1>6, <3>1, <3>3, <4>1
    <3>4. CASE r # q
      <4>1. given'[r] = given[r] /\ again'[r] = again[r]
        BY <1>6, <3>2, <3>4
      <4> QED BY <3>1, <4>1
    <3> QED BY <3>3, <3>4
  <2>2. UNCHANGED <<size, peeked, outstanding, stopped>>
    BY <1>3 DEF queueVars
  <2>3. size' = size /\ peeked' = peeked /\ outstanding' = outstanding /\ stopped' = stopped
    BY <2>2
  <2> QED BY <1>9, <2>1, <2>3, Zenon DEF OutstandingInv
<1>14. HandInv'
  <2>1. ASSUME NEW d \in Clients, serves[d] \in Sharing, ~stopped, cpc[d] = "handle"
        PROVE  LET r == serves[d]  t == cend[d] - 1 IN
               /\ t \in outstanding[r]
               /\ \/ cpos'[d] = t /\ t \notin given'[r]
                  \/ cpos'[d] = cend[d] /\ t \in given'[r]
               /\ \A e \in Clients \ {d} : serves[e] = r /\ cpc[e] = "handle" => cend[e] # cend[d]
    <3>1. LET r == serves[d]  t == cend[d] - 1 IN
          /\ t \in outstanding[r]
          /\ \/ cpos[d] = t /\ t \notin given[r]
             \/ cpos[d] = cend[d] /\ t \in given[r]
          /\ \A e \in Clients \ {d} : serves[e] = r /\ cpc[e] = "handle" => cend[e] # cend[d]
      BY <2>1 DEF BlockingInv, HandInv
    <3>2. serves[d] \in Queues /\ cend[d] \in Nat
      BY ServesTyped, ClientFacts DEF BlockingInv
    <3>3. CASE d = c
      <4>1. m = cend[c] - 1
        BY <1>12, <2>1, <3>3
      <4>2. cpos'[c] = cend[c]
        BY <1>3, <1>6, <1>8, <3>1, <3>3
      <4> QED BY <1>6, <3>1, <3>3, <4>1, <4>2
    <3>4. CASE d # c
      <4>1. cend[d] - 1 \in given'[serves[d]] <=> cend[d] - 1 \in given[serves[d]]
        <5>1. CASE serves[d] = q
          <6>1. m = cend[c] - 1 /\ cend[d] # cend[c]
            BY <1>3, <1>12, <2>1, <3>1, <3>4, <5>1
          <6>2. cend[d] - 1 # m
            BY <1>8, <3>2, <6>1
          <6> QED BY <1>6, <5>1, <6>2
        <5>2. CASE serves[d] # q
          BY <1>6, <3>2, <5>2
        <5> QED BY <5>1, <5>2
      <4> QED BY <1>6, <3>1, <3>4, <4>1
    <3> QED BY <3>3, <3>4
  <2> QED BY <1>3, <1>9, <2>1 DEF HandInv, queueVars
<1>15. DrainInv'
  BY <1>3 DEF BlockingInv, DrainInv
<1>16. NothingSkipped'
  BY <1>3, <1>7 DEF BlockingInv, NothingSkipped, queueVars
<1>17. CallInv' /\ NobodySleepsInVain'
  <2>1. UNCHANGED <<pc, pmode, pn, pdest, size, serves, stopped>>
    BY <1>3 DEF queueVars, sendVars
  <2>2. \A d \in Clients : cpc'[d] = "asleep" => cpc[d] = "asleep" \/ size[serves[d]] = 0
    BY <1>3
  <2> QED BY <2>1, <2>2, SendersAlone
<1> QED BY <1>1, <1>10, <1>11, <1>13, <1>14, <1>15, <1>16, <1>17 DEF BlockingInv

\* A message is put into slots that hold none the queue still has.
LEMMA PutStores ==
  ASSUME NEW first \in Nat, NEW next \in Nat, NEW n \in Nat,
         first <= next, (next - first) + n <= capacity,
         NEW old, NEW new,
         \A s \in first .. next - 1 : old[Slot(s)] = s,
         \A i \in 0 .. capacity - 1 :
           new[i] = IF \E s \in next .. next + n - 1 : Slot(s) = i
                    THEN CHOOSE s \in next .. next + n - 1 : Slot(s) = i ELSE old[i]
  PROVE  \A s \in first .. (next + n) - 1 : new[Slot(s)] = s
<1>1. capacity \in Nat \ {0}
  BY ConstantFacts
<1>2. ASSUME NEW s \in first .. (next + n) - 1, NEW t \in next .. next + n - 1, Slot(s) = Slot(t)
      PROVE  s = t
  <2>1. s \in Nat /\ t \in Nat
    OBVIOUS
  <2>2. s < t + capacity /\ t < s + capacity
    BY <1>1, <2>1
  <2>3. s # t => s % capacity # t % capacity
    BY <1>1, <2>1, <2>2, ModApart
  <2> QED BY <1>2, <2>3 DEF Slot
<1>3. ASSUME NEW s \in first .. (next + n) - 1 PROVE new[Slot(s)] = s
  <2>1. Slot(s) \in 0 .. capacity - 1
    BY <1>1, ModRange DEF Slot
  <2>2. CASE s \in next .. next + n - 1
    <3>1. \E t \in next .. next + n - 1 : Slot(t) = Slot(s)
      BY <2>2
    <3>2. new[Slot(s)] = CHOOSE t \in next .. next + n - 1 : Slot(t) = Slot(s)
      BY <2>1, <3>1
    <3> QED BY <1>2, <3>1, <3>2
  <2>3. CASE s \notin next .. next + n - 1
    <3>1. s \in first .. next - 1
      BY <2>3
    <3>2. ~(\E t \in next .. next + n - 1 : Slot(t) = Slot(s))
      BY <1>2, <2>3
    <3> QED BY <2>1, <3>1, <3>2
  <2> QED BY <2>2, <2>3
<1> QED BY <1>3

\* A put into an empty queue owes its clients a notification, and one into any other keeps what is in it.
LEMMA PutKeeps == ASSUME BlockingInv, NEW p \in Senders, Put(p) PROVE BlockingInv'
<1> DEFINE q == At(p)  n == pn[p]
<1>1. TypeOK'
  BY PutTyped DEF BlockingInv
<1>2. pc[p] \in {"put", "asleep"} /\ HasSlot(p)
  BY DEF Put
<1>3. q \in Queues /\ n \in 1 .. MaxSeq
  BY <1>2, AtVisits DEF BlockingInv, CallInv
<1>4. UNCHANGED <<outstanding, peeked, serves, stopped, cpc, cpos, cend, ccount, given, again>>
  BY DEF Put, ctxVars, rangeVars, history
<1>5. size[q] \in Nat /\ seq[q] \in Nat /\ n \in Nat /\ n >= 1
  BY <1>3, QueueFacts, SenderFacts, ConstantFacts DEF BlockingInv
<1>6. /\ seq'[q] = seq[q] + n /\ size'[q] = Wrap(size[q] + n)
      /\ \A r \in Queues \ {q} : seq'[r] = seq[r] /\ size'[r] = size[r] /\ store'[r] = store[r]
  BY <1>3 DEF Put, BlockingInv, TypeOK
<1>7. store'[q] = [i \in 0 .. capacity - 1 |->
                     IF \E s \in seq[q] .. seq[q] + n - 1 : Slot(s) = i
                     THEN CHOOSE s \in seq[q] .. seq[q] + n - 1 : Slot(s) = i ELSE store[q][i]]
  BY <1>3 DEF Put, BlockingInv, TypeOK
<1>8. \/ /\ size'[q] = n /\ pc' = [pc EXCEPT ![p] = "notify"]
         /\ UNCHANGED <<pmode, pn, pdest>>
      \/ size'[q] # n /\ Onward(p)
  BY DEF Put
<1>9. Ours(q) => /\ size'[q] = size[q] + n /\ size[q] + n <= capacity /\ size[q] <= seq[q]
                 /\ \A s \in Oldest(q) .. seq[q] - 1 : store[q][Slot(s)] = s
  <2> HIDE DEF q, n
  <2>1. SUFFICES ASSUME Ours(q) PROVE size'[q] = size[q] + n /\ size[q] + n <= capacity
    BY <1>3 DEF BlockingInv, StoreInv
  <2>2. size[q] <= capacity
    BY <1>3, <2>1 DEF BlockingInv, StoreInv
  <2>3. (size[q] + n) - 1 \in 0 .. SIZE_MAX /\ size[q] + n \in 0 .. SIZE_MAX
    BY <1>3, <1>5, <2>2, ConstantFacts
  <2>4. Wrap((size[q] + n) - 1) = (size[q] + n) - 1 /\ Wrap(size[q] + n) = size[q] + n
    BY <2>3, WrapFits
  <2>5. capacity > Wrap((size[q] + n) - 1)
    <3>1. size[q] + n - 1 = (size[q] + n) - 1
      BY <1>5
    <3> QED BY <1>2, <3>1 DEF HasSlot, q, n
  <2> QED BY <1>5, <1>6, <2>4, <2>5, ConstantFacts
<1>10. Sharing' = Sharing /\ \A r : Ours(r)' <=> Ours(r)
  BY <1>4, SharingStill, OursStill
<1>11. \A r \in Queues : Ours(r) => Oldest(r)' = Oldest(r) /\ Fresh(r)' = Fresh(r) /\ size[r] <= size'[r]
  <2>1. ASSUME NEW r \in Queues, Ours(r) PROVE seq'[r] - size'[r] = seq[r] - size[r] /\ size[r] <= size'[r]
    <3>1. CASE r = q
      <4> HIDE DEF q, n
      <4> QED BY <1>5, <1>6, <1>9, <2>1, <3>1
    <3>2. CASE r # q
      <4>1. size[r] \in Nat
        BY QueueFacts DEF BlockingInv
      <4> QED BY <1>6, <3>2, <4>1
    <3> QED BY <3>1, <3>2
  <2> QED BY <1>4, <2>1 DEF Oldest, Fresh
<1>12. StoreInv'
  <2>1. ASSUME NEW r \in Queues, Ours(r)
        PROVE  /\ size'[r] <= capacity /\ size'[r] <= seq'[r]
               /\ \A s \in Oldest(r) .. seq'[r] - 1 : store'[r][Slot(s)] = s
    <3>1. CASE r = q
      <4>1. Oldest(q) \in Nat /\ seq[q] - Oldest(q) = size[q] /\ Oldest(q) <= seq[q]
        <5> HIDE DEF q
        <5> QED BY <1>5, <1>9, <2>1, <3>1 DEF Oldest
      <4>2. \A i \in 0 .. capacity - 1 :
              store'[q][i] = IF \E s \in seq[q] .. seq[q] + n - 1 : Slot(s) = i
                             THEN CHOOSE s \in seq[q] .. seq[q] + n - 1 : Slot(s) = i
                             ELSE store[q][i]
        BY <1>7
      <4>3. (seq[q] - Oldest(q)) + n <= capacity
        BY <1>9, <2>1, <3>1, <4>1
      <4>4. \A s \in Oldest(q) .. seq[q] - 1 : store[q][Slot(s)] = s
        BY <1>9, <2>1, <3>1
      <4> HIDE DEF q, n
      <4>5. \A s \in Oldest(q) .. (seq[q] + n) - 1 : store'[q][Slot(s)] = s
        <5>1. seq[q] \in Nat /\ n \in Nat /\ Oldest(q) \in Nat /\ Oldest(q) <= seq[q]
          BY <1>5, <4>1
        <5>2. PICK first \in Nat, next \in Nat, k \in Nat :
                first = Oldest(q) /\ next = seq[q] /\ k = n
          BY <5>1
        <5>3. PICK old : old = store[q]
          OBVIOUS
        <5>4. PICK new : new = store'[q]
          OBVIOUS
        <5>5. /\ first <= next /\ (next - first) + k <= capacity
              /\ \A s \in first .. next - 1 : old[Slot(s)] = s
          BY <4>3, <4>4, <5>1, <5>2, <5>3
        <5>6. \A i \in 0 .. capacity - 1 :
                new[i] = IF \E s \in next .. next + k - 1 : Slot(s) = i
                         THEN CHOOSE s \in next .. next + k - 1 : Slot(s) = i ELSE old[i]
          BY <4>2, <5>2, <5>3, <5>4, Zenon
        <5>7. \A s \in first .. (next + k) - 1 : new[Slot(s)] = s
          BY <5>5, <5>6, PutStores, Zenon
        <5> QED BY <5>2, <5>4, <5>7
      <4>6. size'[q] <= capacity /\ size'[q] <= seq'[q]
        BY <1>5, <1>6, <1>9, <2>1, <3>1
      <4> QED BY <1>6, <3>1, <4>5, <4>6
    <3>2. CASE r # q
      BY <1>6, <2>1, <3>2 DEF BlockingInv, StoreInv
    <3> QED BY <3>1, <3>2
  <2> QED BY <1>10, <1>11, <2>1 DEF StoreInv
<1>13. OwnInv'
  <2>1. ASSUME NEW c \in Clients, serves[c] \notin Sharing
        PROVE  LET r == serves[c] IN
               /\ cpc[c] = "drainWaste" => ccount[c] <= size'[r]
               /\ cpc[c] = "handle" =>
                    /\ ccount[c] <= size'[r]
                    /\ cend[c] = Oldest(r) + ccount[c]
                    /\ Oldest(r) <= cpos[c] /\ cpos[c] <= cend[c]
                    /\ \A s \in Oldest(r) .. cpos[c] - 1 : s \in given[r]
    <3> DEFINE r == serves[c]
    <3>1. r \in Queues /\ Ours(r) /\ ccount[c] \in Nat
      BY <2>1, ServesTyped, ClientFacts DEF BlockingInv, Ours
    <3>2. size[r] <= size'[r] /\ size[r] \in Nat /\ size'[r] \in Nat
      <4>1. size'[r] \in 0 .. SIZE_MAX
        BY <1>1, <3>1 DEF TypeOK
      <4> QED BY <1>11, <3>1, <4>1, QueueFacts DEF BlockingInv
    <3>3. /\ cpc[c] = "drainWaste" => ccount[c] <= size[r]
          /\ cpc[c] = "handle" =>
                    /\ ccount[c] <= size[r]
                    /\ cend[c] = Oldest(r) + ccount[c]
                    /\ Oldest(r) <= cpos[c] /\ cpos[c] <= cend[c]
                    /\ \A s \in Oldest(r) .. cpos[c] - 1 : s \in given[r]
      BY <2>1 DEF BlockingInv, OwnInv
    <3> HIDE DEF r
    <3>4. ccount[c] <= size[r] => ccount[c] <= size'[r]
      BY <3>1, <3>2
    <3> QED BY <3>3, <3>4, Zenon DEF r
  <2>2. \A c \in Clients : serves[c] \notin Sharing => Oldest(serves[c])' = Oldest(serves[c])
    <3>1. ASSUME NEW c \in Clients, serves[c] \notin Sharing PROVE Oldest(serves[c])' = Oldest(serves[c])
      <4>1. serves[c] \in Queues /\ Ours(serves[c])
        BY <3>1, ServesTyped DEF BlockingInv, Ours
      <4>2. PICK r \in Queues : r = serves[c]
        BY <4>1
      <4>3. Oldest(r)' = Oldest(r)
        BY <1>11, <4>1, <4>2
      <4> QED BY <1>4, <4>2, <4>3 DEF Oldest
    <3> QED BY <1>4, <3>1 DEF Oldest
  <2> QED BY <1>4, <1>10, <2>1, <2>2 DEF OwnInv
<1>14. OutstandingInv'
  <2>1. ASSUME NEW r \in Sharing, ~stopped
        PROVE  /\ peeked[r] <= size'[r] /\ Oldest(r)' = Oldest(r) /\ Fresh(r)' = Fresh(r)
               /\ \A s \in outstanding[r] : Oldest(r) <= s /\ s < Fresh(r)
               /\ peeked[r] > 0 => Oldest(r) \in outstanding[r]
               /\ \A s \in Oldest(r) .. Fresh(r) - 1 : s \in outstanding[r] \/ s \in given[r]
               /\ \A s \in given[r] : s < Fresh(r)
               /\ again[r] = {}
    <3>1. r \in Queues /\ Ours(r)
      BY <2>1 DEF Sharing, Ours
    <3>2. /\ peeked[r] <= size[r]
          /\ \A s \in outstanding[r] : Oldest(r) <= s /\ s < Fresh(r)
          /\ peeked[r] > 0 => Oldest(r) \in outstanding[r]
          /\ \A s \in Oldest(r) .. Fresh(r) - 1 : s \in outstanding[r] \/ s \in given[r]
          /\ \A s \in given[r] : s < Fresh(r)
          /\ again[r] = {}
      BY <2>1, Zenon DEF BlockingInv, OutstandingInv
    <3>3. peeked[r] <= size'[r]
      <4>1. size'[r] \in 0 .. SIZE_MAX
        BY <1>1, <3>1 DEF TypeOK
      <4> QED BY <1>11, <3>1, <3>2, <4>1, QueueFacts DEF BlockingInv
    <3> QED BY <1>11, <3>1, <3>2, <3>3, Zenon
  <2>2. peeked' = peeked /\ outstanding' = outstanding /\ stopped' = stopped
        /\ given' = given /\ again' = again
    BY <1>4
  <2> QED BY <1>10, <2>1, <2>2, Zenon DEF OutstandingInv
<1>15. HandInv'
  BY <1>4, <1>10 DEF BlockingInv, HandInv
<1>16. DrainInv'
  BY <1>4 DEF BlockingInv, DrainInv
<1>17. NothingSkipped'
  <2>1. ~stopped => \A r \in Queues : seq'[r] - size'[r] = seq[r] - size[r]
    BY <1>11 DEF Ours, Oldest
  <2> QED BY <1>4, <2>1 DEF BlockingInv, NothingSkipped
<1>18. /\ pc'[p] \in {"idle", "put", "notify"}
       /\ pdest'[p] # {} \/ pc'[p] = "idle"
       /\ pc'[p] # "idle" => pn'[p] = pn[p] /\ pmode'[p] = pmode[p]
       /\ \A r \in Senders \ {p} : /\ pc'[r] = pc[r] /\ pdest'[r] = pdest[r]
                                   /\ pn'[r] = pn[r] /\ pmode'[r] = pmode[r]
       /\ size'[q] = n => pc'[p] = "notify" /\ pdest'[p] = pdest[p]
  <2>1. CASE /\ size'[q] = n /\ pc' = [pc EXCEPT ![p] = "notify"]
             /\ UNCHANGED <<pmode, pn, pdest>>
    <3>1. pdest[p] # {}
      BY <1>2 DEF BlockingInv, CallInv
    <3> QED BY <2>1, <3>1 DEF BlockingInv, TypeOK
  <2>2. CASE size'[q] # n /\ Onward(p)
    <3>1. pc[p] # "idle"
      BY <1>2
    <3>2. /\ pdest'[p] # {} \/ pc'[p] = "idle"
          /\ pc'[p] \in {"idle", "put"}
          /\ pc'[p] = "put" => pn'[p] = pn[p] /\ pmode'[p] = pmode[p]
          /\ \A r \in Senders \ {p} : /\ pc'[r] = pc[r] /\ pdest'[r] = pdest[r]
                                      /\ pn'[r] = pn[r] /\ pmode'[r] = pmode[r]
      BY <2>2, <3>1, OnwardCall DEF BlockingInv
    <3> QED BY <2>2, <3>2
  <2> QED BY <1>8, <2>1, <2>2
<1>19. CallInv'
  BY <1>2, <1>18 DEF BlockingInv, CallInv
<1>20. NobodySleepsInVain'
  <2>1. \A r \in Senders \ {p} : At(r)' = At(r)
    BY <1>18, AtStill
  <2>2. ASSUME NEW r \in Senders, pc'[r] = "asleep", Ours(At(r)')
        PROVE  size'[At(r)'] = capacity
    <3>1. r # p /\ pc[r] = "asleep" /\ At(r)' = At(r)
      BY <1>18, <2>1, <2>2
    <3>2. size[At(r)] = capacity /\ At(r) \in Queues
      BY <2>2, <3>1, AtVisits DEF BlockingInv, CallInv, NobodySleepsInVain, isFull
    <3>3. At(r) # q
      <4>1. ASSUME At(r) = q PROVE FALSE
        <5>1. Ours(q) /\ size[q] = capacity
          BY <2>2, <3>1, <3>2, <4>1
        <5> HIDE DEF q, n
        <5> QED BY <1>5, <1>9, <5>1, ConstantFacts
      <4> QED BY <4>1
    <3> QED BY <1>6, <3>1, <3>2, <3>3
  <2>3. ASSUME NEW c \in Clients, cpc[c] = "asleep", Ours(serves[c])
        PROVE  \/ size'[serves[c]] = 0
               \/ \E r \in Senders : pc'[r] = "notify" /\ At(r)' = serves[c]
    <3>1. \/ size[serves[c]] = 0
          \/ \E r \in Senders : pc[r] = "notify" /\ At(r) = serves[c]
      BY <2>3 DEF BlockingInv, NobodySleepsInVain
    <3>2. serves[c] \in Queues
      BY ServesTyped DEF BlockingInv
    <3>3. CASE size[serves[c]] = 0 /\ serves[c] = q
      <4>1. size'[q] = n
        <5>1. Ours(q) /\ size[q] = 0
          BY <2>3, <3>3
        <5> HIDE DEF q, n
        <5> QED BY <1>5, <1>9, <5>1
      <4>2. pc'[p] = "notify" /\ At(p)' = q
        BY <1>18, <4>1, AtStill
      <4> QED BY <3>3, <4>2
    <3>4. CASE size[serves[c]] = 0 /\ serves[c] # q
      BY <1>6, <3>2, <3>4
    <3>5. CASE \E r \in Senders : pc[r] = "notify" /\ At(r) = serves[c]
      BY <1>2, <1>18, <2>1, <3>5
    <3> QED BY <3>1, <3>3, <3>4, <3>5
  <2> QED BY <1>4, <1>10, <2>2, <2>3 DEF NobodySleepsInVain, isFull
<1> QED BY <1>1, <1>12, <1>13, <1>14, <1>15, <1>16, <1>17, <1>19, <1>20 DEF BlockingInv

\* The oldest n messages leave a queue, and it keeps the others.
LEMMA StoreShrinks ==
  ASSUME BlockingInv, NEW q \in Queues, NEW n \in Nat,
         UNCHANGED <<seq, store, serves, stopped>>,
         size' = [size EXCEPT ![q] = n],
         Ours(q) => n <= size[q]
  PROVE  StoreInv'
<1>1. size'[q] = n /\ \A r \in Queues \ {q} : size'[r] = size[r]
  BY DEF BlockingInv, TypeOK
<1>2. \A r : Ours(r)' <=> Ours(r)
  BY OursStill
<1>3. ASSUME NEW r \in Queues, Ours(r)
      PROVE  /\ size'[r] <= capacity /\ size'[r] <= seq[r]
             /\ \A s \in seq[r] - size'[r] .. seq[r] - 1 : store[r][Slot(s)] = s
  <2>1. /\ size[r] <= capacity /\ size[r] <= seq[r]
        /\ \A s \in seq[r] - size[r] .. seq[r] - 1 : store[r][Slot(s)] = s
    BY <1>3 DEF BlockingInv, StoreInv, Oldest
  <2>2. size[r] \in Nat /\ seq[r] \in Nat
    BY QueueFacts DEF BlockingInv
  <2>3. size'[r] \in Nat /\ size'[r] <= size[r]
    <3>1. CASE r = q
      BY <1>1, <1>3, <3>1
    <3>2. CASE r # q
      BY <1>1, <2>2, <3>2
    <3> QED BY <3>1, <3>2
  <2>4. size'[r] <= capacity /\ size'[r] <= seq[r]
    BY <2>1, <2>2, <2>3, ConstantFacts
  <2>5. \A s \in seq[r] - size'[r] .. seq[r] - 1 : s \in seq[r] - size[r] .. seq[r] - 1
    BY <2>2, <2>3
  <2> QED BY <2>1, <2>4, <2>5
<1> QED BY <1>2, <1>3 DEF StoreInv, Oldest

\* A client takes what it has peeked out of a queue that is its own, or drained.
LEMMA WasteKeeps ==
  ASSUME BlockingInv, TypeOK', NEW c \in Clients, NEW where \in {"wait", "loop", "drain", "gone"},
         NotifySlot(serves[c]), Goto(c, where), NoRange(c),
         size' = [size EXCEPT ![serves[c]] = Wrap(@ - ccount[c])],
         UNCHANGED <<seq, store, outstanding, peeked, pmode, pn, pdest, ctxVars, history>>,
         serves[c] \notin Sharing \/ stopped,
         serves[c] \notin Sharing => ccount[c] <= size[serves[c]],
         where = "drain" => stopped,
         ~stopped => \A s \in Oldest(serves[c]) .. (Oldest(serves[c]) + ccount[c]) - 1 : s \in given[serves[c]]
  PROVE  BlockingInv'
<1> DEFINE q == serves[c]  n == Wrap(size[q] - ccount[c])
<1>1. q \in Queues
  BY ServesTyped DEF BlockingInv
<1>2. size[q] \in 0 .. SIZE_MAX /\ ccount[c] \in Nat /\ seq[q] \in Nat
  BY <1>1, QueueFacts, ClientFacts DEF BlockingInv
<1>3. size'[q] = n /\ \A r \in Queues \ {q} : size'[r] = size[r]
  BY <1>1 DEF BlockingInv, TypeOK
<1>4. n \in Nat
  <2>1. size'[q] \in 0 .. SIZE_MAX
    BY <1>1 DEF TypeOK
  <2> QED BY <1>3, <2>1
<1>5. q \notin Sharing => n = size[q] - ccount[c] /\ ccount[c] <= size[q]
  <2> HIDE DEF q
  <2>1. ASSUME q \notin Sharing PROVE size[q] - ccount[c] \in 0 .. SIZE_MAX /\ ccount[c] <= size[q]
    BY <1>2, <2>1, ConstantFacts DEF q
  <2> QED BY <2>1, WrapFits
<1>6. Ours(q) => q \notin Sharing
  BY DEF Ours
<1>7. Ours(q) => n <= size[q]
  <2> HIDE DEF q, n
  <2> QED BY <1>2, <1>5, <1>6
<1>8. UNCHANGED <<serves, stopped, given, again>>
  BY DEF ctxVars, history
<1>9. /\ cpc'[c] = where
      /\ \A d \in Clients \ {c} : /\ cpc'[d] = cpc[d] /\ cpos'[d] = cpos[d]
                                  /\ cend'[d] = cend[d] /\ ccount'[d] = ccount[d]
  BY DEF Goto, NoRange, BlockingInv, TypeOK
<1>10. Sharing' = Sharing
  BY <1>8, SharingStill
<1>11. \A r \in Queues \ {q} : Oldest(r)' = Oldest(r) /\ Fresh(r)' = Fresh(r)
  BY <1>3 DEF Oldest, Fresh
<1> HIDE DEF n
<1>12. StoreInv'
  BY <1>1, <1>4, <1>7, <1>8, StoreShrinks DEF n
<1>13. CallInv' /\ NobodySleepsInVain'
  <2>1. size' = [size EXCEPT ![q] = n]
    BY DEF n
  <2>2. \A d \in Clients : cpc'[d] = "asleep" => cpc[d] = "asleep"
    BY <1>9
  <2> QED BY <1>1, <1>4, <1>7, <1>8, <2>1, <2>2, WasteWakes
<1>14. OwnInv'
  <2>1. ASSUME NEW d \in Clients, serves[d] \notin Sharing, cpc'[d] \in {"handle", "drainWaste"}
        PROVE  d # c /\ serves[d] \in Queues \ {q}
    <3>1. d # c
      BY <1>9, <2>1
    <3>2. serves[d] # q
      BY <2>1, <3>1, OnlyClient DEF BlockingInv
    <3> QED BY <3>1, <3>2, ServesTyped DEF BlockingInv
  <2>2. ASSUME NEW d \in Clients, serves[d] \notin Sharing, cpc'[d] \in {"handle", "drainWaste"}
        PROVE  LET r == serves[d] IN
               /\ cpc'[d] = "drainWaste" => ccount'[d] <= size'[r]
               /\ cpc'[d] = "handle" =>
                    /\ ccount'[d] <= size'[r]
                    /\ cend'[d] = Oldest(r)' + ccount'[d]
                    /\ Oldest(r)' <= cpos'[d] /\ cpos'[d] <= cend'[d]
                    /\ \A s \in Oldest(r)' .. cpos'[d] - 1 : s \in given[r]
    <3>1. d \in Clients \ {c} /\ serves[d] \in Queues \ {q}
      BY <2>1, <2>2
    <3>2. PICK r \in Queues \ {q} : r = serves[d]
      BY <3>1
    <3>3. size'[r] = size[r] /\ Oldest(r)' = Oldest(r)
      BY <1>3, <1>11
    <3>4. /\ cpc[d] = "drainWaste" => ccount[d] <= size[r]
          /\ cpc[d] = "handle" =>
                    /\ ccount[d] <= size[r]
                    /\ cend[d] = Oldest(r) + ccount[d]
                    /\ Oldest(r) <= cpos[d] /\ cpos[d] <= cend[d]
                    /\ \A s \in Oldest(r) .. cpos[d] - 1 : s \in given[r]
      BY <2>2, <3>2 DEF BlockingInv, OwnInv
    <3>5. /\ cpc'[d] = cpc[d] /\ cpos'[d] = cpos[d] /\ cend'[d] = cend[d] /\ ccount'[d] = ccount[d]
      BY <1>9, <3>1
    <3>6. Oldest(serves[d])' = Oldest(r)'
      BY <1>8, <3>2 DEF Oldest
    <3> QED BY <3>2, <3>3, <3>4, <3>5, <3>6 DEF Oldest
  <2>3. ASSUME NEW d \in Clients PROVE Oldest(serves[d])' = seq'[serves[d]] - size'[serves[d]]
    BY <1>8 DEF Oldest
  <2> QED BY <1>8, <1>10, <2>2, <2>3 DEF OwnInv, Oldest
<1>15. OutstandingInv'
  <2>1. ASSUME NEW r \in Sharing, ~stopped
        PROVE  /\ size'[r] = size[r] /\ Oldest(r)' = Oldest(r) /\ Fresh(r)' = Fresh(r)
    <3>1. r \in Queues \ {q}
      BY <2>1 DEF Sharing
    <3> QED BY <1>3, <1>11, <3>1
  <2>2. peeked' = peeked /\ outstanding' = outstanding /\ stopped' = stopped
        /\ given' = given /\ again' = again
    BY <1>8
  <2> QED BY <1>10, <2>1, <2>2 DEF BlockingInv, OutstandingInv
<1>16. HandInv'
  <2>1. \A d \in Clients : serves[d] \in Sharing /\ ~stopped => d # c
    OBVIOUS
  <2> QED BY <1>8, <1>9, <1>10, <2>1 DEF BlockingInv, HandInv
<1>17. DrainInv'
  BY <1>8, <1>9 DEF BlockingInv, DrainInv
<1>18. NothingSkipped'
  <2>1. ASSUME NEW r \in Queues, ~stopped, NEW s \in 0 .. seq[r] - size'[r] - 1 PROVE s \in given[r]
    <3>1. CASE r = q
      <4>1. q \notin Sharing
        BY <2>1
      <4>2. \A t \in 0 .. seq[q] - size[q] - 1 : t \in given[q]
        BY <1>1, <2>1 DEF BlockingInv, NothingSkipped
      <4>3. \A t \in Oldest(q) .. (Oldest(q) + ccount[c]) - 1 : t \in given[q]
        BY <2>1
      <4> HIDE DEF q
      <4>4. s \in 0 .. seq[q] - size[q] - 1 \/ s \in Oldest(q) .. (Oldest(q) + ccount[c]) - 1
        BY <1>2, <1>3, <1>5, <3>1, <4>1 DEF Oldest
      <4> QED BY <3>1, <4>2, <4>3, <4>4
    <3>2. CASE r # q
      BY <1>3, <2>1, <3>2 DEF BlockingInv, NothingSkipped
    <3> QED BY <3>1, <3>2
  <2> QED BY <1>8, <2>1 DEF NothingSkipped
<1> QED BY <1>12, <1>13, <1>14, <1>15, <1>16, <1>17, <1>18 DEF BlockingInv

\* wasteAfterPeek takes out what was handled.
LEMMA WasteAfterPeekKeeps == ASSUME BlockingInv, NEW c \in Clients, wasteAfterPeek(c) PROVE BlockingInv'
<1>1. TypeOK'
  BY WasteAfterPeekTyped DEF BlockingInv
<1>2. PICK where \in {"wait", "loop", "drain", "gone"} : where \in {"wait", "loop"} /\ Goto(c, where)
  BY DEF wasteAfterPeek
<1>3. /\ NotifySlot(serves[c]) /\ NoRange(c) /\ serves[c] \notin Sharing
      /\ size' = [size EXCEPT ![serves[c]] = Wrap(@ - ccount[c])]
      /\ UNCHANGED <<seq, store, outstanding, peeked, pmode, pn, pdest, ctxVars, history>>
  BY DEF wasteAfterPeek
<1>4. /\ ccount[c] <= size[serves[c]]
      /\ \A s \in Oldest(serves[c]) .. (Oldest(serves[c]) + ccount[c]) - 1 : s \in given[serves[c]]
  BY DEF BlockingInv, OwnInv, wasteAfterPeek
<1> QED BY <1>1, <1>2, <1>3, <1>4, WasteKeeps

\* A waste of the drain takes out what it had peeked.
LEMMA DrainWasteKeeps == ASSUME BlockingInv, NEW c \in Clients, DrainWaste(c) PROVE BlockingInv'
<1>1. TypeOK'
  BY DrainWasteTyped DEF BlockingInv
<1>2. PICK where \in {"wait", "loop", "drain", "gone"} : where \in {"drain", "gone"} /\ Goto(c, where)
  BY DEF DrainWaste
<1>3. /\ NotifySlot(serves[c]) /\ NoRange(c)
      /\ size' = [size EXCEPT ![serves[c]] = Wrap(@ - ccount[c])]
      /\ UNCHANGED <<seq, store, outstanding, peeked, pmode, pn, pdest, ctxVars, history>>
  BY DEF DrainWaste
<1>4. stopped /\ (serves[c] \notin Sharing => ccount[c] <= size[serves[c]])
  BY DEF BlockingInv, OwnInv, DrainInv, DrainWaste
<1> QED BY <1>1, <1>2, <1>3, <1>4, WasteKeeps

\* What a client of a shared queue takes out with its message: the oldest k of the peeked
\* ones, all of them given, up to the first one that is still outstanding.
LEMMA TakenOut ==
  ASSUME BlockingInv, NEW c \in Clients, wasteAfterPeekExclusive(c), ~stopped
  PROVE  LET q == serves[c]  left == outstanding[q] \ {cend[c] - 1} IN
         \E k \in 0 .. peeked[q] :
           /\ k = IF left = {} THEN peeked[q] ELSE First(left) - First(outstanding[q])
           /\ left # {} => Oldest(q) + k \in left /\ \A t \in left : Oldest(q) + k <= t
           /\ left = {} => k = peeked[q]
           /\ \A s \in Oldest(q) .. (Oldest(q) + k) - 1 : s \in given[q]
           /\ \A s \in Oldest(q) .. Fresh(q) - 1 : s \in left \/ s \in given[q]
<1> DEFINE q == serves[c]  mine == cend[c] - 1  left == outstanding[q] \ {mine}
<1>1. q \in Queues /\ q \in Sharing
  BY ServesTyped DEF BlockingInv, wasteAfterPeekExclusive
<1>2. /\ size[q] \in Nat /\ seq[q] \in Nat /\ peeked[q] \in Nat
      /\ outstanding[q] \in SUBSET Nat /\ given[q] \in SUBSET Nat
  BY <1>1, QueueFacts DEF BlockingInv
<1>3. mine \in outstanding[q] /\ mine \in given[q]
  <2>1. cpc[c] = "handle" /\ cpos[c] = cend[c]
    BY DEF wasteAfterPeekExclusive
  <2>2. /\ mine \in outstanding[q]
        /\ cpos[c] = mine \/ (cpos[c] = cend[c] /\ mine \in given[q])
    BY <1>1, <2>1 DEF BlockingInv, HandInv
  <2>3. cpos[c] # mine
    BY <2>1, ClientFacts DEF BlockingInv
  <2> QED BY <2>2, <2>3
<1> HIDE DEF q, mine
<1>4. /\ \A s \in outstanding[q] : Oldest(q) <= s /\ s < Oldest(q) + peeked[q]
      /\ peeked[q] > 0 => Oldest(q) \in outstanding[q]
      /\ \A s \in Oldest(q) .. (Oldest(q) + peeked[q]) - 1 : s \in outstanding[q] \/ s \in given[q]
  BY <1>1, Zenon DEF BlockingInv, OutstandingInv, Fresh
<1>5. Oldest(q) \in Int
  BY <1>2 DEF Oldest
<1>6. peeked[q] > 0
  <2>1. mine \in Nat /\ Oldest(q) <= mine /\ mine < Oldest(q) + peeked[q]
    BY <1>2, <1>3, <1>4
  <2> QED BY <1>2, <1>5, <2>1
<1>7. First(outstanding[q]) = Oldest(q)
  <2>1. /\ First(outstanding[q]) \in outstanding[q]
        /\ \A t \in outstanding[q] : First(outstanding[q]) <= t
    BY <1>2, <1>3, FirstExists
  <2>2. First(outstanding[q]) <= Oldest(q) /\ Oldest(q) <= First(outstanding[q])
    BY <1>4, <1>6, <2>1
  <2>3. First(outstanding[q]) \in Int
    BY <1>2, <2>1
  <2> QED BY ONLY <1>5, <2>2, <2>3
<1>8. \A s \in Oldest(q) .. (Oldest(q) + peeked[q]) - 1 : s \in left \/ s \in given[q]
  BY <1>3, <1>4
<1>9. CASE left = {}
  <2>1. /\ peeked[q] \in 0 .. peeked[q]
        /\ \A s \in Oldest(q) .. (Oldest(q) + peeked[q]) - 1 : s \in given[q]
    BY <1>2, <1>8, <1>9
  <2> HIDE DEF left
  <2>2. \E k \in 0 .. peeked[q] :
           /\ k = IF left = {} THEN peeked[q] ELSE First(left) - First(outstanding[q])
           /\ left # {} => Oldest(q) + k \in left /\ \A t \in left : Oldest(q) + k <= t
           /\ left = {} => k = peeked[q]
           /\ \A s \in Oldest(q) .. (Oldest(q) + k) - 1 : s \in given[q]
           /\ \A s \in Oldest(q) .. Fresh(q) - 1 : s \in left \/ s \in given[q]
    BY <1>8, <1>9, <2>1, Zenon DEF Fresh
  <2> QED BY <2>2 DEF q, left, mine
<1>10. CASE left # {}
  <2> DEFINE k == First(left) - First(outstanding[q])
  <2>1. First(left) \in left /\ \A t \in left : First(left) <= t
    BY <1>2, <1>10, FirstExists
  <2>2. First(left) \in Nat /\ Oldest(q) <= First(left) /\ First(left) < Oldest(q) + peeked[q]
    BY <1>2, <1>4, <2>1
  <2> HIDE DEF left
  <2>3. k \in 0 .. peeked[q] /\ Oldest(q) + k = First(left)
    BY <1>2, <1>5, <1>7, <2>2
  <2>4. ASSUME NEW s \in Oldest(q) .. First(left) - 1 PROVE s \in given[q]
    <3>1. s \in Oldest(q) .. (Oldest(q) + peeked[q]) - 1 /\ ~(First(left) <= s)
      BY <1>2, <1>5, <2>2
    <3> QED BY <1>8, <2>1, <3>1
  <2>5. /\ left # {} => Oldest(q) + k \in left /\ \A t \in left : Oldest(q) + k <= t
        /\ \A s \in Oldest(q) .. (Oldest(q) + k) - 1 : s \in given[q]
    BY <2>1, <2>3, <2>4
  <2>6. k = IF left = {} THEN peeked[q] ELSE First(left) - First(outstanding[q])
    BY <1>10
  <2> HIDE DEF k
  <2>7. \E j \in 0 .. peeked[q] :
           /\ j = IF left = {} THEN peeked[q] ELSE First(left) - First(outstanding[q])
           /\ left # {} => Oldest(q) + j \in left /\ \A t \in left : Oldest(q) + j <= t
           /\ left = {} => j = peeked[q]
           /\ \A s \in Oldest(q) .. (Oldest(q) + j) - 1 : s \in given[q]
           /\ \A s \in Oldest(q) .. Fresh(q) - 1 : s \in left \/ s \in given[q]
    BY <1>8, <1>10, <2>3, <2>5, <2>6, Zenon DEF Fresh
  <2> QED BY <2>7 DEF q, left, mine
<1> QED BY <1>9, <1>10

\* wasteAfterPeekExclusive takes out what was handled and keeps the oldest outstanding message first.
LEMMA WasteAfterPeekExclusiveKeeps ==
  ASSUME BlockingInv, NEW c \in Clients, wasteAfterPeekExclusive(c) PROVE BlockingInv'
<1> DEFINE q == serves[c]
           left == outstanding[q] \ {cend[c] - 1}
           taken == IF left = {} THEN peeked[q] ELSE First(left) - First(outstanding[q])
           n == Wrap(size[q] - taken)
<1>1. TypeOK'
  BY WasteAfterPeekExclusiveTyped DEF BlockingInv
<1>2. q \in Queues /\ q \in Sharing
  BY ServesTyped DEF BlockingInv, wasteAfterPeekExclusive
<1>3. /\ size[q] \in 0 .. SIZE_MAX /\ seq[q] \in Nat /\ peeked[q] \in 0 .. SIZE_MAX
      /\ outstanding[q] \in SUBSET Nat /\ given[q] \in SUBSET Nat
  BY <1>2 DEF BlockingInv, TypeOK
<1>4. /\ UNCHANGED <<seq, store, pmode, pn, pdest, serves, stopped, given, again>>
      /\ outstanding' = [outstanding EXCEPT ![q] = left]
      /\ size' = [size EXCEPT ![q] = n]
      /\ peeked' = [peeked EXCEPT ![q] = Wrap(@ - taken)]
      /\ (taken = 0 /\ left # {} /\ UNCHANGED pc) \/ NotifySlot(q)
  BY DEF reduction, wasteAfterPeekExclusive, ctxVars, history
<1>5. /\ cpc'[c] = "loop"
      /\ \A d \in Clients \ {c} : /\ cpc'[d] = cpc[d] /\ cpos'[d] = cpos[d]
                                  /\ cend'[d] = cend[d] /\ ccount'[d] = ccount[d]
  BY DEF wasteAfterPeekExclusive, Goto, NoRange, BlockingInv, TypeOK
<1>6. Ours(q) => ~stopped
  BY <1>2 DEF Ours
<1>7. ~stopped =>
        \E k \in 0 .. peeked[q] :
           /\ k = taken
           /\ left # {} => Oldest(q) + k \in left /\ \A t \in left : Oldest(q) + k <= t
           /\ left = {} => k = peeked[q]
           /\ \A s \in Oldest(q) .. (Oldest(q) + k) - 1 : s \in given[q]
           /\ \A s \in Oldest(q) .. Fresh(q) - 1 : s \in left \/ s \in given[q]
  BY TakenOut
<1>8. /\ size'[q] = n /\ peeked'[q] = Wrap(peeked[q] - taken) /\ outstanding'[q] = left
      /\ \A r \in Queues \ {q} : size'[r] = size[r] /\ peeked'[r] = peeked[r] /\ outstanding'[r] = outstanding[r]
  BY <1>2, <1>4 DEF BlockingInv, TypeOK
<1>9. n \in Nat
  <2>1. size'[q] \in 0 .. SIZE_MAX
    BY <1>1, <1>2 DEF TypeOK
  <2> QED BY <1>8, <2>1
<1> HIDE DEF q, left, taken, n
<1>10. ~stopped => /\ peeked[q] <= size[q] /\ size[q] <= seq[q]
                   /\ \A s \in outstanding[q] : Oldest(q) <= s /\ s < Fresh(q)
                   /\ \A s \in given[q] : s < Fresh(q)
                   /\ again[q] = {}
  <2>1. ~stopped => size[q] <= seq[q]
    BY <1>2 DEF BlockingInv, StoreInv, Ours
  <2> QED BY <1>2, <2>1, Zenon DEF BlockingInv, OutstandingInv
<1>11. ~stopped => /\ taken \in 0 .. peeked[q]
                   /\ n = size[q] - taken /\ peeked'[q] = peeked[q] - taken
  <2> SUFFICES ASSUME ~stopped PROVE /\ taken \in 0 .. peeked[q]
                                     /\ n = size[q] - taken /\ peeked'[q] = peeked[q] - taken
    OBVIOUS
  <2>1. taken \in 0 .. peeked[q]
    BY <1>7
  <2>2. size[q] - taken \in 0 .. SIZE_MAX /\ peeked[q] - taken \in 0 .. SIZE_MAX
    BY <1>3, <1>10, <2>1, ConstantFacts
  <2> QED BY <1>8, <2>1, <2>2, WrapFits DEF n
<1>12. Ours(q) => n <= size[q]
  BY <1>3, <1>6, <1>9, <1>11
<1>13. Sharing' = Sharing /\ \A r : Ours(r)' <=> Ours(r)
  BY <1>4, SharingStill, OursStill
<1>14. \A r \in Queues \ {q} : Oldest(r)' = Oldest(r) /\ Fresh(r)' = Fresh(r)
  BY <1>4, <1>8 DEF Oldest, Fresh
<1>15. ~stopped => seq[q] - size'[q] = Oldest(q) + taken
                   /\ (seq[q] - size'[q]) + peeked'[q] = Fresh(q)
  BY <1>3, <1>8, <1>11 DEF Oldest, Fresh
<1>16. StoreInv'
  <2>1. UNCHANGED <<seq, store, serves, stopped>>
    BY <1>4
  <2> QED BY <1>2, <1>4, <1>9, <1>12, <2>1, StoreShrinks
<1>17. CallInv' /\ NobodySleepsInVain'
  <2>1. \A d \in Clients : cpc'[d] = "asleep" => cpc[d] = "asleep"
    BY <1>5
  <2>2. CASE NotifySlot(q)
    <3>1. UNCHANGED <<pmode, pn, pdest, serves, stopped>>
      BY <1>4
    <3> QED BY <1>2, <1>4, <1>9, <1>12, <2>1, <2>2, <3>1, WasteWakes
  <2>3. CASE taken = 0 /\ left # {} /\ UNCHANGED pc
    <3>1. n = size[q]
      <4>1. size[q] - taken = size[q]
        BY <1>3, <2>3
      <4> QED BY <1>3, <4>1, WrapFits DEF n
    <3>2. size' = size
      BY <1>4, <3>1 DEF BlockingInv, TypeOK
    <3>3. UNCHANGED <<pc, pmode, pn, pdest, size, serves, stopped>>
      BY <1>4, <2>3, <3>2
    <3> QED BY <2>1, <3>3, SendersAlone
  <2> QED BY <1>4, <2>2, <2>3
<1>18. OwnInv'
  <2>1. ASSUME NEW d \in Clients, serves[d] \notin Sharing
        PROVE  /\ d \in Clients \ {c} /\ size'[serves[d]] = size[serves[d]]
               /\ Oldest(serves[d])' = Oldest(serves[d])
    <3>1. serves[d] \in Queues \ {q} /\ d # c
      BY <1>2, <2>1, ServesTyped DEF BlockingInv, q
    <3> QED BY <1>4, <1>8, <3>1 DEF Oldest
  <2> QED BY <1>4, <1>5, <1>13, <2>1 DEF BlockingInv, OwnInv
<1>19. OutstandingInv'
  <2>1. ASSUME NEW r \in Sharing, ~stopped
        PROVE  /\ peeked'[r] <= size'[r]
               /\ \A s \in outstanding'[r] : Oldest(r)' <= s /\ s < Fresh(r)'
               /\ peeked'[r] > 0 => Oldest(r)' \in outstanding'[r]
               /\ \A s \in Oldest(r)' .. Fresh(r)' - 1 : s \in outstanding'[r] \/ s \in given[r]
               /\ \A s \in given[r] : s < Fresh(r)'
               /\ again[r] = {}
    <3>1. CASE r = q
      <4>0. PICK k \in 0 .. peeked[q] :
              /\ k = taken
              /\ left # {} => Oldest(q) + k \in left /\ \A t \in left : Oldest(q) + k <= t
              /\ left = {} => k = peeked[q]
              /\ \A s \in Oldest(q) .. Fresh(q) - 1 : s \in left \/ s \in given[q]
        BY <1>7, <2>1
      <4>1. Oldest(r)' = Oldest(q) + k /\ Fresh(r)' = Fresh(q) /\ Oldest(q) \in Int
            /\ Fresh(q) = Oldest(q) + peeked[q]
        BY <1>3, <1>4, <1>15, <2>1, <3>1, <4>0 DEF Oldest, Fresh
      <4>2. peeked'[q] <= size'[q] /\ peeked'[q] = peeked[q] - k
        BY <1>3, <1>8, <1>10, <1>11, <2>1, <4>0
      <4>3. left \subseteq outstanding[q]
        BY DEF left
      <4>4. \A s \in left : Oldest(q) + k <= s /\ s < Fresh(q)
        BY <1>10, <2>1, <4>0, <4>3
      <4>5. peeked'[q] > 0 => Oldest(q) + k \in left
        BY <1>3, <4>0, <4>2
      <4>6. \A s \in Oldest(q) + k .. Fresh(q) - 1 : s \in left \/ s \in given[q]
        <5>1. \A s \in Oldest(q) + k .. Fresh(q) - 1 : s \in Oldest(q) .. Fresh(q) - 1
          BY <1>3, <4>1
        <5> QED BY <4>0, <5>1
      <4> QED BY <1>8, <1>10, <2>1, <3>1, <4>1, <4>2, <4>4, <4>5, <4>6, Zenon
    <3>2. CASE r # q
      <4>1. r \in Queues \ {q}
        BY <3>2 DEF Sharing
      <4>2. /\ peeked'[r] = peeked[r] /\ size'[r] = size[r] /\ outstanding'[r] = outstanding[r]
            /\ Oldest(r)' = Oldest(r) /\ Fresh(r)' = Fresh(r)
        BY <1>8, <1>14, <4>1
      <4> QED BY <2>1, <4>2, Zenon DEF BlockingInv, OutstandingInv
    <3> QED BY <3>1, <3>2
  <2>2. stopped' = stopped /\ given' = given /\ again' = again /\ Sharing' = Sharing
    BY <1>4, <1>13
  <2> QED BY <2>1, <2>2, Zenon DEF OutstandingInv
<1>20. HandInv'
  <2>1. ASSUME NEW d \in Clients, serves[d] \in Sharing, ~stopped, cpc'[d] = "handle"
        PROVE  LET r == serves[d]  t == cend[d] - 1 IN
               /\ d # c
               /\ t \in outstanding'[r]
               /\ \/ cpos[d] = t /\ t \notin given[r]
                  \/ cpos[d] = cend[d] /\ t \in given[r]
               /\ \A e \in Clients \ {d} : serves[e] = r /\ cpc'[e] = "handle" => cend'[e] # cend[d]
    <3>1. d # c /\ cpc[d] = "handle"
      BY <1>5, <2>1
    <3>2. LET r == serves[d]  t == cend[d] - 1 IN
          /\ t \in outstanding[r]
          /\ \/ cpos[d] = t /\ t \notin given[r]
             \/ cpos[d] = cend[d] /\ t \in given[r]
          /\ \A e \in Clients \ {d} : serves[e] = r /\ cpc[e] = "handle" => cend[e] # cend[d]
      BY <2>1, <3>1 DEF BlockingInv, HandInv
    <3>3. serves[d] \in Queues /\ cend[d] \in Nat /\ cend[c] \in Nat
      BY ServesTyped, ClientFacts DEF BlockingInv
    <3>4. cend[d] - 1 \in outstanding'[serves[d]]
      <4>1. CASE serves[d] = q
        <5>1. cpc[c] = "handle"
          BY DEF wasteAfterPeekExclusive
        <5>2. cend[d] # cend[c]
          BY <3>1, <3>2, <4>1, <5>1 DEF q
        <5>3. cend[d] - 1 # cend[c] - 1
          BY <3>3, <5>2
        <5> QED BY <1>8, <3>2, <4>1, <5>3 DEF left
      <4>2. CASE serves[d] # q
        BY <1>8, <3>2, <3>3, <4>2
      <4> QED BY <4>1, <4>2
    <3>5. \A e \in Clients \ {d} : serves[e] = serves[d] /\ cpc'[e] = "handle" => cend'[e] # cend[d]
      BY <1>5, <3>2
    <3> QED BY <3>1, <3>2, <3>4, <3>5
  <2> QED BY <1>4, <1>5, <1>13, <2>1 DEF HandInv
<1>21. DrainInv'
  BY <1>4, <1>5 DEF BlockingInv, DrainInv
<1>22. NothingSkipped'
  <2>1. ASSUME NEW r \in Queues, ~stopped, NEW s \in 0 .. seq[r] - size'[r] - 1 PROVE s \in given[r]
    <3>1. CASE r = q
      <4>1. \A t \in 0 .. seq[q] - size[q] - 1 : t \in given[q]
        BY <1>2, <2>1 DEF BlockingInv, NothingSkipped
      <4>2. \A t \in Oldest(q) .. (Oldest(q) + taken) - 1 : t \in given[q]
        BY <1>7, <2>1
      <4>3. s \in 0 .. seq[q] - size[q] - 1 \/ s \in Oldest(q) .. (Oldest(q) + taken) - 1
        BY <1>3, <1>8, <1>11, <2>1, <3>1 DEF Oldest
      <4> QED BY <3>1, <4>1, <4>2, <4>3
    <3>2. CASE r # q
      BY <1>8, <2>1, <3>2 DEF BlockingInv, NothingSkipped
    <3> QED BY <3>1, <3>2
  <2> QED BY <1>4, <2>1 DEF NothingSkipped
<1> QED BY <1>1, <1>16, <1>17, <1>18, <1>19, <1>20, <1>21, <1>22 DEF BlockingInv

\* A step that changes nothing keeps the invariant.
LEMMA StutterKeeps == ASSUME BlockingInv, UNCHANGED vars PROVE BlockingInv'
<1>1. UNCHANGED <<queueVars, ctxVars, cpc, rangeVars, history>>
  BY DEF vars
<1>2. (StoreInv /\ OwnInv /\ OutstandingInv /\ HandInv /\ DrainInv /\ NothingSkipped)'
  BY <1>1, ClientsAlone
<1>3. TypeOK'
  BY DEF BlockingInv, TypeOK, vars, queueVars, sendVars, ctxVars, rangeVars, history
<1>4. CallInv' /\ NobodySleepsInVain'
  <2>1. UNCHANGED <<pc, pmode, pn, pdest, size, serves, stopped>>
    BY DEF vars, queueVars, sendVars, ctxVars
  <2>2. cpc' = cpc
    BY <1>1
  <2> QED BY <2>1, <2>2, SendersAlone
<1> QED BY <1>2, <1>3, <1>4 DEF BlockingInv

-----------------------------------------------------------------------------
(***************************************************************************)
(* The theorems.                                                           *)
(***************************************************************************)
\* Senders, clients and a stopping Context, in any order, keep the queues, what clients have
\* in hand, what they were given and who may sleep in step.
THEOREM BlockingInductive == Spec => []BlockingInv
<1>1. Init => BlockingInv
  BY InitHolds
<1>2. BlockingInv /\ [Next]_vars => BlockingInv'
  <2> SUFFICES ASSUME BlockingInv, [Next]_vars PROVE BlockingInv'
    OBVIOUS
  <2>1. CASE \E p \in Senders : Call(p) \/ SendStep(p)
    <3> SUFFICES ASSUME NEW p \in Senders, Call(p) \/ SendStep(p) PROVE BlockingInv'
      BY <2>1
    <3> QED BY CallKeeps, PutKeeps, SleepKeeps, TryFailsKeeps, NotifyItemKeeps DEF SendStep
  <2>2. CASE \E c \in Clients : ClientStep(c) \/ Throw(c)
    <3> SUFFICES ASSUME NEW c \in Clients, ClientStep(c) \/ Throw(c) PROVE BlockingInv'
      BY <2>2
    <3> QED BY LoopKeeps, PeekKeeps, PeekExclusiveKeeps, HandleKeeps, WasteAfterPeekKeeps,
               WasteAfterPeekExclusiveKeeps, WaitItemKeeps, WaitTimeoutKeeps, ExitKeeps,
               DrainPeekKeeps, DrainWasteKeeps, ThrowKeeps DEF ClientStep
  <2>3. CASE Stop
    BY <2>3, StopKeeps
  <2>4. CASE UNCHANGED vars
    BY <2>4, StutterKeeps
  <2> QED BY <2>1, <2>2, <2>3, <2>4 DEF Next
<1> QED BY <1>1, <1>2, PTL DEF Spec

\* A message a client has in hand is not overwritten before it was handled.
LEMMA HandStays == BlockingInv => PeekedStaysPut
<1> SUFFICES ASSUME BlockingInv, NEW c \in Clients, cpc[c] = "handle", Ours(serves[c]),
                    NEW s \in cpos[c] .. cend[c] - 1
             PROVE  store[serves[c]][Slot(s)] = s
  BY DEF PeekedStaysPut
<1> DEFINE q == serves[c]
<1>1. q \in Queues /\ size[q] \in Nat /\ seq[q] \in Nat /\ peeked[q] \in Nat
  BY ServesTyped, QueueFacts DEF BlockingInv
<1>2. cpos[c] \in Nat /\ cend[c] \in Nat /\ ccount[c] \in Nat
  BY ClientFacts DEF BlockingInv
<1>3. /\ size[q] <= seq[q]
      /\ \A t \in Oldest(q) .. seq[q] - 1 : store[q][Slot(t)] = t
  BY <1>1 DEF BlockingInv, StoreInv
<1>4. Oldest(q) \in Int /\ Oldest(q) + size[q] = seq[q]
  BY <1>1 DEF Oldest
<1>5. CASE q \notin Sharing
  <2>1. ccount[c] <= size[q] /\ cend[c] = Oldest(q) + ccount[c] /\ Oldest(q) <= cpos[c]
    BY <1>5 DEF BlockingInv, OwnInv
  <2> HIDE DEF q
  <2>2. s \in Oldest(q) .. seq[q] - 1
    BY <1>1, <1>2, <1>4, <2>1
  <2> QED BY <1>3, <2>2 DEF q
<1>6. CASE q \in Sharing
  <2>0. ~stopped
    BY <1>6 DEF Ours
  <2>1. cend[c] - 1 \in outstanding[q] /\ (cpos[c] = cend[c] - 1 \/ cpos[c] = cend[c])
    BY <1>6, <2>0 DEF BlockingInv, HandInv
  <2> HIDE DEF q
  <2>2. /\ peeked[q] <= size[q]
        /\ \A t \in outstanding[q] : Oldest(q) <= t /\ t < Oldest(q) + peeked[q]
    BY <1>6, <2>0, Zenon DEF BlockingInv, OutstandingInv, Fresh
  <2>3. s = cend[c] - 1
    BY <1>2, <2>1
  <2>4. s \in Oldest(q) .. seq[q] - 1
    BY <1>1, <1>2, <1>4, <2>1, <2>2, <2>3
  <2> QED BY <1>3, <2>4 DEF q
<1> QED BY <1>5, <1>6

\* What a queue keeps while clients peek, share, throw and leave: its counters stay what
\* size_t can hold, nothing in hand is overwritten, and nothing leaves before it was given.
THEOREM QueuesKeep == Spec => []QueueInv
<1>1. BlockingInv => QueueInv
  BY HandStays DEF BlockingInv, QueueInv
<1> QED BY <1>1, BlockingInductive, PTL

\* However many clients share a queue, no two of them, and none of them twice, are given a message.
THEOREM SharedOnce == Spec => []OneAndOnlyOne
<1>1. BlockingInv => OneAndOnlyOne
  BY DEF BlockingInv, OutstandingInv, OneAndOnlyOne, Ours
<1> QED BY <1>1, BlockingInductive, PTL

\* The assertion in peekExclusive holds until the Context is stopped.
THEOREM PeekAsserted == Spec => []PeekAssertion
<1>1. BlockingInv => PeekAssertion
  <2> SUFFICES ASSUME BlockingInv, NEW q \in Sharing, ~stopped, size[q] <= peeked[q]
               PROVE  size[q] = peeked[q]
    BY DEF PeekAssertion
  <2>1. q \in Queues
    BY DEF Sharing
  <2>2. peeked[q] <= size[q]
    BY DEF BlockingInv, OutstandingInv
  <2> QED BY <2>1, <2>2, QueueFacts DEF BlockingInv
<1> QED BY <1>1, BlockingInductive, PTL

\* No wakeup is lost, whichever of notify_all and the two waits comes first.
THEOREM NoLostWakeup == Spec => []NobodySleepsInVain
<1>1. BlockingInv => NobodySleepsInVain
  BY DEF BlockingInv
<1> QED BY <1>1, BlockingInductive, PTL
=============================================================================
