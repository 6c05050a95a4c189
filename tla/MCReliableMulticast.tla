----------------------- MODULE MCReliableMulticast -----------------------
(* Instances of ReliableMulticast for TLC. *)
EXTENDS ReliableMulticast, TLC

CONSTANT r1

\* One receiver with one connection.
OwnerOnce == 1 :> r1
SubsOnce == 1 :> {"a"}

\* One receiver that reconnects with fewer subscriptions.
OwnerAgain == (1 :> r1) @@ (2 :> r1)
SubsFewer == (1 :> {"a", "b"}) @@ (2 :> {"a"})

\* Any tag at any time, or one tag for each message.
AnyTag == [i \in 1..MaxSeq |-> Tags]
Scripted == [i \in 1..MaxSeq |-> IF i = 1 THEN {"b"} ELSE {"a"}]

=============================================================================
