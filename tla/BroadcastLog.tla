---------------------------- MODULE BroadcastLog ----------------------------
(***************************************************************************)
(* What the broadcast ring promises, without slots, cursors or threads: a  *)
(* log in which message number s is announced (claimed), becomes readable  *)
(* (published) in any order, and every member receives the messages from   *)
(* where it joined on, each one exactly once, in order and unaltered.      *)
(***************************************************************************)
EXTENDS Integers

CONSTANTS Members, MaxSeq, OFF, NONE

VARIABLES
  claimed,    \* messages announced so far: 0 .. claimed - 1
  published,  \* those that can be read
  next,       \* the next message of each member, OFF for the others
  got         \* the last message each member received

vars == <<claimed, published, next, got>>

Init ==
  /\ claimed = 0
  /\ published = {}
  /\ next \in [Members -> {0, OFF}]
  /\ got = [m \in Members |-> NONE]

Announce ==
  /\ claimed' \in claimed + 1 .. MaxSeq
  /\ UNCHANGED <<published, next, got>>

Publish ==
  /\ published' \in {published \cup {s} : s \in (0 .. claimed - 1) \ published}
  /\ UNCHANGED <<claimed, next, got>>

\* A member joins at or before the first message not announced yet.
Join(m) ==
  /\ next[m] = OFF
  /\ next' \in {[next EXCEPT ![m] = s] : s \in 0 .. claimed}
  /\ got' = [got EXCEPT ![m] = NONE]
  /\ UNCHANGED <<claimed, published>>

Leave(m) ==
  /\ next[m] # OFF
  /\ next' = [next EXCEPT ![m] = OFF]
  /\ got' = [got EXCEPT ![m] = NONE]
  /\ UNCHANGED <<claimed, published>>

Deliver(m) ==
  /\ next[m] # OFF
  /\ next[m] \in published
  /\ got' = [got EXCEPT ![m] = next[m]]
  /\ next' = [next EXCEPT ![m] = @ + 1]
  /\ UNCHANGED <<claimed, published>>

\* Every step changes the log; a step of an implementation that does not is a stutter.
Next ==
  /\ vars' # vars
  /\ \/ Announce \/ Publish
     \/ \E m \in Members : Join(m) \/ Leave(m) \/ Deliver(m)

Spec == Init /\ [][Next]_vars
=============================================================================
