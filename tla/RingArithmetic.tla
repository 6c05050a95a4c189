--------------------------- MODULE RingArithmetic ---------------------------
(***************************************************************************)
(* What the rings' slot index, a sequence number modulo the capacity, is   *)
(* good for.                                                               *)
(***************************************************************************)
EXTENDS Integers, TLAPS

\* A remainder is below the divisor: every number is mapped to a slot (seq & MASK).
LEMMA ModRange ==
  ASSUME NEW C \in Nat \ {0}, NEW a \in Int PROVE a % C \in 0 .. C - 1
OBVIOUS

\* Two numbers less than one lap apart share no slot.
LEMMA ModApart ==
  ASSUME NEW C \in Nat \ {0}, NEW a \in Nat, NEW b \in Nat,
         a # b, a < b + C, b < a + C
  PROVE  a % C # b % C
<1>1. SUFFICES ASSUME a % C = b % C PROVE FALSE
  OBVIOUS
<1>2. a = C * (a \div C) + (a % C) /\ a \div C \in Int /\ a % C \in Int
  OBVIOUS
<1>3. b = C * (b \div C) + (a % C) /\ b \div C \in Int
  BY <1>1
<1>4. ASSUME NEW q \in Int, NEW k \in Int, NEW r \in Int,
             a = C * q + r, b = C * k + r
      PROVE  FALSE
  <2>1. CASE q = k
    BY <1>4, <2>1
  <2>2. CASE q >= k + 1
    <3>1. C * q >= C * (k + 1)
      BY <2>2
    <3>2. C * (k + 1) = C * k + C
      OBVIOUS
    <3> QED BY <1>4, <3>1, <3>2
  <2>3. CASE k >= q + 1
    <3>1. C * k >= C * (q + 1)
      BY <2>3
    <3>2. C * (q + 1) = C * q + C
      OBVIOUS
    <3> QED BY <1>4, <3>1, <3>2
  <2> QED BY <2>1, <2>2, <2>3
<1> QED BY <1>2, <1>3, <1>4
=============================================================================
