-------------------------- MODULE MCPartitionRing --------------------------
(* Instances of PartitionRing for TLC. *)
EXTENDS PartitionRing, TLC

\* Senders are interchangeable, and so are consumers.
ThreadSymmetry == Permutations(Producers) \cup Permutations(Consumers)

\* A ring that was reset under running consumers is not followed any further.
Undisturbed == thrown # "among"
=============================================================================
