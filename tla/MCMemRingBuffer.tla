-------------------------- MODULE MCMemRingBuffer --------------------------
(* Instances of MemRingBuffer for TLC. *)
EXTENDS MemRingBuffer, TLC

\* Senders are interchangeable.
ProducerSymmetry == Permutations(Producers)

\* A ring that no purger looks after (HasPurger is FALSE): Spec without its purge.
ThreadsNext ==
  \/ \E p \in Producers : Send(p)
  \/ \E c \in Consumers : Consume(c) \/ Leave(c)
ThreadsSpec == Init /\ [][ThreadsNext]_vars
=============================================================================
