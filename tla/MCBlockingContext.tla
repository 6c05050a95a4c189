------------------------- MODULE MCBlockingContext -------------------------
(* Instances of BlockingContext for TLC. *)
EXTENDS BlockingContext, TLC

CONSTANTS c1, c2

\* Each client has a queue of its own.
Own == (c1 :> 1) @@ (c2 :> 2)

\* The two clients share a queue.
Share == (c1 :> 1) @@ (c2 :> 1)

OwnOrShare == {Own, Share}

\* Senders are interchangeable.
SenderSymmetry == Permutations(Senders)
=============================================================================
