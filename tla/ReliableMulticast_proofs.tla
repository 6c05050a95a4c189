----------------------- MODULE ReliableMulticast_proofs -----------------------
(***************************************************************************)
(* Proofs about ReliableMulticast for every number of receivers,           *)
(* connections and messages, every capacity and every batch size: whatever *)
(* the network loses, repeats or reorders, a receiver hands over what it   *)
(* subscribes to once and in order, and its gaps are being filled.         *)
(***************************************************************************)
EXTENDS ReliableMulticast, SequenceTheorems, FiniteSetTheorems, WellFoundedInduction, TLAPS

-----------------------------------------------------------------------------
(***************************************************************************)
(* Least elements and induction over the naturals, by sets of numbers.     *)
(***************************************************************************)
Below == {ss \in Nat \X Nat : ss[1] < ss[2]}

\* The order of the naturals is well founded.
LEMMA BelowWellFounded == IsWellFoundedOn(Below, Nat)
BY NatLessThanWellFounded, Zenon DEF OpToRel, Below

\* A set of naturals has a least element.
LEMMA Least == ASSUME NEW T \in SUBSET Nat, T # {} PROVE \E n \in T : \A m \in T : n <= m
<1>1. PICK x \in T : \A y \in T : ~ (<<y, x>> \in Below)
  BY BelowWellFounded, WFMin
<1>2. \A y \in T : <<y, x>> \in Nat \X Nat
  OBVIOUS
<1>3. \A y \in T : ~ (y < x)
  BY <1>1, <1>2 DEF Below
<1> QED BY <1>3

\* Induction: a set with 0 and every successor has all naturals.
LEMMA NatSet == ASSUME NEW P, 0 \in P, \A n \in Nat : n \in P => n + 1 \in P PROVE Nat \subseteq P
<1> SUFFICES ASSUME Nat \ P # {} PROVE FALSE
  OBVIOUS
<1>1. PICK n \in Nat \ P : \A m \in Nat \ P : n <= m
  BY Least
<1>2. n # 0 /\ n - 1 \in Nat
  BY <1>1
<1>3. n - 1 \in P
  BY <1>1, <1>2
<1> QED BY <1>1, <1>2, <1>3

\* Min of a set of naturals is its least element.
LEMMA MinLeast == ASSUME NEW T \in SUBSET Nat, T # {} PROVE Min(T) \in T /\ \A m \in T : Min(T) <= m
<1>1. \E n \in T : \A m \in T : n <= m
  BY Least
<1> QED BY <1>1 DEF Min

\* Max of two naturals.
LEMMA MaxOfTwo == ASSUME NEW a \in Int, NEW b \in Int
                  PROVE  Max({a, b}) \in {a, b} /\ a <= Max({a, b}) /\ b <= Max({a, b})
<1>1. \E x \in {a, b} : \A y \in {a, b} : x >= y
  OBVIOUS
<1> QED BY <1>1 DEF Max

-----------------------------------------------------------------------------
(***************************************************************************)
(* Among: existence of the recursive function, and what it returns.        *)
(***************************************************************************)
Kept(q, S, f, n) ==
  f = [i \in 0..n |-> IF i = 0 THEN <<>>
                      ELSE IF q[i] \in S THEN Append(f[i - 1], q[i]) ELSE f[i - 1]]

\* The function defined by the recursion of Among exists for every length.
LEMMA KeptExists == ASSUME NEW q, NEW S, NEW n \in Nat PROVE \E f : Kept(q, S, f, n)
<1> DEFINE P == {m \in Nat : \E f : Kept(q, S, f, m)}
<1>1. 0 \in P
  <2>1. Kept(q, S, [i \in 0..0 |-> <<>>], 0)
    BY DEF Kept
  <2> QED BY <2>1
<1>2. ASSUME NEW m \in Nat, m \in P PROVE m + 1 \in P
  <2>1. PICK f : Kept(q, S, f, m)
    BY <1>2
  <2> DEFINE last == IF q[m + 1] \in S THEN Append(f[m], q[m + 1]) ELSE f[m]
             g == [i \in 0..m + 1 |-> IF i = m + 1 THEN last ELSE f[i]]
             h == [i \in 0..m + 1 |-> IF i = 0 THEN <<>>
                      ELSE IF q[i] \in S THEN Append(g[i - 1], q[i]) ELSE g[i - 1]]
  <2>2. ASSUME NEW i \in 0..m + 1 PROVE g[i] = h[i]
    <3>1. CASE i = m + 1
      <4>1. i # 0 /\ i - 1 \in 0..m /\ i - 1 # m + 1 /\ g[i - 1] = f[m]
        BY <3>1
      <4> QED BY <3>1, <4>1
    <3>2. CASE i \in 1..m
      <4>1. g[i] = f[i] /\ g[i - 1] = f[i - 1] /\ i # 0 /\ i \in 0..m
        BY <3>2
      <4>2. f[i] = IF q[i] \in S THEN Append(f[i - 1], q[i]) ELSE f[i - 1]
        BY <2>1, <4>1 DEF Kept
      <4> HIDE DEF g
      <4> QED BY <4>1, <4>2
    <3>3. CASE i = 0
      <4>1. g[i] = f[0] /\ f[0] = <<>>
        BY <2>1, <3>3 DEF Kept
      <4> QED BY <3>3, <4>1
    <3> QED BY <3>1, <3>2, <3>3
  <2>3. g = h
    BY <2>2
  <2>4. Kept(q, S, g, m + 1)
    BY <2>3, Zenon DEF Kept
  <2> QED BY <2>4
<1> HIDE DEF P
<1>3. Nat \subseteq P
  BY <1>1, <1>2, NatSet
<1> QED BY <1>3 DEF P

\* Among is the last value of that function.
LEMMA AmongKept == ASSUME NEW q, NEW S, Len(q) \in Nat
                   PROVE  \E f : Kept(q, S, f, Len(q)) /\ Among(q, S) = f[Len(q)]
<1> DEFINE f == CHOOSE f : Kept(q, S, f, Len(q))
<1>1. Kept(q, S, f, Len(q))
  BY KeptExists
<1>2. Among(q, S) = f[Len(q)]
  BY DEF Among, Kept
<1> QED BY <1>1, <1>2

\* q and r have the same first n elements.
Agree(q, r, n) == \A i \in 1..n : q[i] = r[i]

\* A longer sequence keeps what its beginning kept.
LEMMA KeptPrefix ==
  ASSUME NEW q, NEW r, NEW S, NEW f, NEW g, NEW n \in Nat, NEW m \in Nat, n <= m,
         Kept(q, S, f, n), Kept(r, S, g, m), Agree(q, r, n)
  PROVE  f[n] = g[n]
<1> DEFINE P == {j \in Nat : j <= n => f[j] = g[j]}
<1>1. 0 \in P
  <2>1. f[0] = <<>> /\ g[0] = <<>>
    BY DEF Kept
  <2> QED BY <2>1
<1>2. ASSUME NEW j \in Nat, j \in P PROVE j + 1 \in P
  <2> SUFFICES ASSUME j + 1 <= n PROVE f[j + 1] = g[j + 1]
    OBVIOUS
  <2>1. f[j] = g[j]
    BY <1>2
  <2> DEFINE i == j + 1
  <2>2. i \in 1..n /\ i \in 0..n /\ i \in 0..m /\ i - 1 = j /\ i # 0
    OBVIOUS
  <2> HIDE DEF i
  <2>3. f[i] = IF q[i] \in S THEN Append(f[i - 1], q[i]) ELSE f[i - 1]
    BY <2>2 DEF Kept
  <2>4. g[i] = IF r[i] \in S THEN Append(g[i - 1], r[i]) ELSE g[i - 1]
    BY <2>2 DEF Kept
  <2>5. f[i] = g[i]
    BY <2>1, <2>2, <2>3, <2>4 DEF Agree
  <2> QED BY <2>5 DEF i
<1> HIDE DEF P
<1>3. Nat \subseteq P
  BY <1>1, <1>2, NatSet
<1> QED BY <1>3 DEF P

\* Sets with the same elements of a sequence keep the same of it.
LEMMA KeptSame ==
  ASSUME NEW q, NEW S, NEW T, NEW f, NEW n \in Nat,
         Kept(q, S, f, n), \A i \in 1..n : q[i] \in S <=> q[i] \in T
  PROVE  Kept(q, T, f, n)
<1> DEFINE F(U) == [i \in 0..n |-> IF i = 0 THEN <<>>
                      ELSE IF q[i] \in U THEN Append(f[i - 1], q[i]) ELSE f[i - 1]]
<1>1. \A i \in 0..n : i # 0 => i \in 1..n
  OBVIOUS
<1>2. F(S) = F(T)
  BY <1>1
<1> HIDE DEF F
<1> QED BY <1>2 DEF Kept, F

\* Nothing is among nothing.
LEMMA AmongEmpty == ASSUME NEW S PROVE Among(<<>>, S) = <<>>
<1>1. Len(<<>>) = 0
  OBVIOUS
<1>2. PICK f : Kept(<<>>, S, f, 0) /\ Among(<<>>, S) = f[0]
  BY <1>1, AmongKept
<1> QED BY <1>2 DEF Kept

\* Only the elements of the sequence matter.
LEMMA AmongSame ==
  ASSUME NEW X, NEW q \in Seq(X), NEW S, NEW T,
         \A i \in 1..Len(q) : q[i] \in S <=> q[i] \in T
  PROVE  Among(q, S) = Among(q, T)
<1>1. Len(q) \in Nat
  OBVIOUS
<1>2. PICK f : Kept(q, S, f, Len(q)) /\ Among(q, S) = f[Len(q)]
  BY <1>1, AmongKept
<1>3. PICK g : Kept(q, T, g, Len(q)) /\ Among(q, T) = g[Len(q)]
  BY <1>1, AmongKept
<1>4. Kept(q, T, f, Len(q))
  BY <1>1, <1>2, KeptSame
<1>5. f[Len(q)] = g[Len(q)]
  BY <1>1, <1>3, <1>4, KeptPrefix DEF Agree
<1> QED BY <1>2, <1>3, <1>5

\* One element more.
LEMMA AmongAppend ==
  ASSUME NEW X, NEW q \in Seq(X), NEW x \in X, NEW S
  PROVE  Among(Append(q, x), S) = IF x \in S THEN Append(Among(q, S), x) ELSE Among(q, S)
<1> DEFINE r == Append(q, x)
           n == Len(q)
<1>1. n \in Nat /\ Len(r) = n + 1 /\ r[n + 1] = x /\ \A i \in 1..n : r[i] = q[i]
  BY AppendProperties
<1> HIDE DEF r, n
<1>2. PICK f : Kept(q, S, f, n) /\ Among(q, S) = f[n]
  BY <1>1, AmongKept DEF n
<1>3. PICK g : Kept(r, S, g, n + 1) /\ Among(r, S) = g[n + 1]
  BY <1>1, AmongKept
<1>4. f[n] = g[n]
  <2> DEFINE m == n + 1
  <2>1. n \in Nat /\ m \in Nat /\ n <= m
    BY <1>1
  <2>2. Agree(q, r, n)
    BY <1>1 DEF Agree
  <2>3. Kept(q, S, f, n) /\ Kept(r, S, g, m)
    BY <1>2, <1>3
  <2> HIDE DEF m
  <2> QED BY <2>1, <2>2, <2>3, KeptPrefix
<1>5. g[n + 1] = IF r[n + 1] \in S THEN Append(g[n], r[n + 1]) ELSE g[n]
  <2> DEFINE i == n + 1
  <2>1. i \in 0..n + 1 /\ i # 0 /\ i - 1 = n
    BY <1>1
  <2> HIDE DEF i
  <2>2. g[i] = IF r[i] \in S THEN Append(g[i - 1], r[i]) ELSE g[i - 1]
    BY <1>3, <2>1 DEF Kept
  <2> QED BY <2>1, <2>2 DEF i
<1>6. Among(r, S) = IF x \in S THEN Append(Among(q, S), x) ELSE Among(q, S)
  BY <1>1, <1>2, <1>3, <1>4, <1>5
<1> QED BY <1>6 DEF r

\* It is a sequence of elements of the same set.
LEMMA AmongType == ASSUME NEW X, NEW q \in Seq(X), NEW S PROVE Among(q, S) \in Seq(X)
<1>1. Len(q) \in Nat
  OBVIOUS
<1>2. PICK f : Kept(q, S, f, Len(q)) /\ Among(q, S) = f[Len(q)]
  BY <1>1, AmongKept
<1> DEFINE P == {j \in Nat : j <= Len(q) => f[j] \in Seq(X)}
<1>3. 0 \in P
  BY <1>2 DEF Kept
<1>4. ASSUME NEW j \in Nat, j \in P PROVE j + 1 \in P
  <2> SUFFICES ASSUME j + 1 <= Len(q) PROVE f[j + 1] \in Seq(X)
    OBVIOUS
  <2>1. f[j] \in Seq(X)
    BY <1>1, <1>4
  <2> DEFINE i == j + 1
  <2>2. i \in 1..Len(q) /\ i \in 0..Len(q) /\ i - 1 = j /\ i # 0 /\ q[i] \in X
    BY <1>1, ElementOfSeq
  <2> HIDE DEF i
  <2>3. f[i] = IF q[i] \in S THEN Append(f[i - 1], q[i]) ELSE f[i - 1]
    BY <1>2, <2>2 DEF Kept
  <2>4. f[i] \in Seq(X)
    BY <2>1, <2>2, <2>3, AppendProperties
  <2> QED BY <2>4 DEF i
<1> HIDE DEF P
<1>5. Nat \subseteq P
  BY <1>3, <1>4, NatSet
<1> QED BY <1>1, <1>2, <1>5 DEF P

\* The numbers from a on are one more with each number.
LEMMA RangeType == ASSUME NEW a \in Nat, NEW b \in Nat, a <= b
  PROVE  /\ SeqRange(a, b) \in Seq(Nat) /\ Len(SeqRange(a, b)) = b - a
         /\ \A i \in 1..b - a : SeqRange(a, b)[i] = a + i - 1
BY DEF SeqRange

\* One number more.
LEMMA RangeAppend == ASSUME NEW a \in Nat, NEW b \in Nat, a <= b
                     PROVE  SeqRange(a, b + 1) = Append(SeqRange(a, b), b)
<1> DEFINE q == SeqRange(a, b)
           r == SeqRange(a, b + 1)
<1>1. /\ q \in Seq(Nat) /\ Len(q) = b - a
      /\ \A i \in 1..b - a : q[i] = a + i - 1
  BY RangeType
<1>2. /\ r \in Seq(Nat) /\ Len(r) = b + 1 - a
      /\ \A i \in 1..b + 1 - a : r[i] = a + i - 1
  BY RangeType
<1> HIDE DEF q, r
<1>3. /\ Append(q, b) \in Seq(Nat) /\ Len(Append(q, b)) = Len(q) + 1
      /\ \A i \in 1..Len(q) : Append(q, b)[i] = q[i]
      /\ Append(q, b)[Len(q) + 1] = b
  BY <1>1, AppendProperties
<1>4. \A i \in 1..Len(r) : r[i] = Append(q, b)[i]
  BY <1>1, <1>2, <1>3
<1>5. Len(r) = Len(Append(q, b))
  BY <1>1, <1>2, <1>3
<1>6. r = Append(q, b)
  BY <1>2, <1>3, <1>4, <1>5, SeqEqual
<1> QED BY <1>6 DEF q, r

Joined(q, p, r) == q = p \o r

\* What is wanted of a range is what is wanted of its parts.
LEMMA AmongRange ==
  ASSUME NEW S, NEW a \in Nat, NEW b \in Nat, NEW d \in Nat, a <= b, b <= d
  PROVE  Joined(Among(SeqRange(a, d), S), Among(SeqRange(a, b), S), Among(SeqRange(b, d), S))
<1> DEFINE left == Among(SeqRange(a, b), S)
           right(j) == Among(SeqRange(b, b + j), S)
           whole(j) == Among(SeqRange(a, b + j), S)
           P == {j \in Nat : whole(j) = left \o right(j)}
<1>1. left \in Seq(Nat) /\ \A j \in Nat : right(j) \in Seq(Nat) /\ whole(j) \in Seq(Nat)
  <2>1. SeqRange(a, b) \in Seq(Nat)
    BY RangeType
  <2>2. ASSUME NEW j \in Nat PROVE SeqRange(b, b + j) \in Seq(Nat) /\ SeqRange(a, b + j) \in Seq(Nat)
    <3>1. b + j \in Nat /\ b <= b + j /\ a <= b + j
      OBVIOUS
    <3> QED BY <3>1, RangeType
  <2> QED BY <2>1, <2>2, AmongType
<1>2. 0 \in P
  <2>1. SeqRange(b, b) = <<>>
    <3>1. SeqRange(b, b) \in Seq(Nat) /\ Len(SeqRange(b, b)) = 0
      BY RangeType
    <3> QED BY <3>1, EmptySeq
  <2>2. right(0) = <<>> /\ whole(0) = left
    BY <2>1, AmongEmpty
  <2> HIDE DEF left, right, whole
  <2> QED BY <1>1, <2>2, ConcatEmptySeq
<1>3. ASSUME NEW j \in Nat, j \in P PROVE j + 1 \in P
  <2> DEFINE n == b + j
  <2>1. n \in Nat /\ a <= n /\ b <= n /\ n + 1 = b + (j + 1)
    OBVIOUS
  <2> HIDE DEF n
  <2>2. whole(j + 1) = IF n \in S THEN Append(whole(j), n) ELSE whole(j)
    <3>1. SeqRange(a, n) \in Seq(Nat) /\ SeqRange(a, n + 1) = Append(SeqRange(a, n), n)
      BY <2>1, RangeType, RangeAppend
    <3>2. Among(SeqRange(a, n + 1), S) = IF n \in S THEN Append(Among(SeqRange(a, n), S), n) ELSE Among(SeqRange(a, n), S)
      <4> DEFINE q == SeqRange(a, n)
      <4>1. q \in Seq(Nat) /\ n \in Nat
        BY <2>1, <3>1
      <4> HIDE DEF q
      <4>2. Among(Append(q, n), S) = IF n \in S THEN Append(Among(q, S), n) ELSE Among(q, S)
        BY <4>1, AmongAppend
      <4> QED BY <3>1, <4>2 DEF q
    <3> QED BY <2>1, <3>2 DEF n
  <2>3. right(j + 1) = IF n \in S THEN Append(right(j), n) ELSE right(j)
    <3>1. SeqRange(b, n) \in Seq(Nat) /\ SeqRange(b, n + 1) = Append(SeqRange(b, n), n)
      BY <2>1, RangeType, RangeAppend
    <3>2. Among(SeqRange(b, n + 1), S) = IF n \in S THEN Append(Among(SeqRange(b, n), S), n) ELSE Among(SeqRange(b, n), S)
      <4> DEFINE q == SeqRange(b, n)
      <4>1. q \in Seq(Nat) /\ n \in Nat
        BY <2>1, <3>1
      <4> HIDE DEF q
      <4>2. Among(Append(q, n), S) = IF n \in S THEN Append(Among(q, S), n) ELSE Among(q, S)
        BY <4>1, AmongAppend
      <4> QED BY <3>1, <4>2 DEF q
    <3> QED BY <2>1, <3>2 DEF n
  <2>4. whole(j) = left \o right(j)
    BY <1>3
  <2>5. Append(left \o right(j), n) = left \o Append(right(j), n)
    <3> DEFINE u == right(j)
    <3>1. u \in Seq(Nat) /\ left \in Seq(Nat) /\ n \in Nat
      BY <1>1, <2>1
    <3> HIDE DEF u, left
    <3>2. <<n>> \in Seq(Nat)
      BY <3>1
    <3>3. left \o u \in Seq(Nat)
      BY <3>1, ConcatProperties
    <3>4. Append(left \o u, n) = (left \o u) \o <<n>>
      BY <3>1, <3>3, AppendIsConcat
    <3>5. Append(u, n) = u \o <<n>>
      BY <3>1, AppendIsConcat
    <3>6. (left \o u) \o <<n>> = left \o (u \o <<n>>)
      BY <3>1, <3>2, ConcatAssociative
    <3> QED BY <3>4, <3>5, <3>6 DEF u
  <2>6. whole(j + 1) = left \o right(j + 1)
    <3> HIDE DEF left, right, whole
    <3> QED BY <2>2, <2>3, <2>4, <2>5
  <2> QED BY <2>6
<1> HIDE DEF P
<1>4. Nat \subseteq P
  BY <1>2, <1>3, NatSet
<1>5. d - b \in Nat /\ b + (d - b) = d
  OBVIOUS
<1>6. d - b \in P
  BY <1>4, <1>5
<1>7. whole(d - b) = left \o right(d - b)
  BY <1>6 DEF P
<1> QED BY <1>5, <1>7 DEF Joined

\* What follows a beginning of which nothing is kept, when all of it is.
LEMMA AmongRest ==
  ASSUME NEW X, NEW q \in Seq(X), NEW S, NEW k \in Nat, k <= Len(q),
         \A i \in 1..Len(q) : q[i] \in S <=> k < i
  PROVE  Among(q, S) = SubSeq(q, k + 1, Len(q))
<1>1. Len(q) \in Nat
  OBVIOUS
<1>2. PICK f : Kept(q, S, f, Len(q)) /\ Among(q, S) = f[Len(q)]
  BY <1>1, AmongKept
<1> DEFINE P == {j \in Nat : j <= Len(q) => f[j] = SubSeq(q, k + 1, j)}
<1>3. 0 \in P
  <2>1. f[0] = <<>>
    BY <1>2 DEF Kept
  <2>2. SubSeq(q, k + 1, 0) = <<>>
    BY SubSeqEmpty
  <2> QED BY <2>1, <2>2
<1>4. ASSUME NEW j \in Nat, j \in P PROVE j + 1 \in P
  <2> SUFFICES ASSUME j + 1 <= Len(q) PROVE f[j + 1] = SubSeq(q, k + 1, j + 1)
    OBVIOUS
  <2>1. f[j] = SubSeq(q, k + 1, j)
    BY <1>1, <1>4
  <2> DEFINE i == j + 1
  <2>2. i \in 1..Len(q) /\ i \in 0..Len(q) /\ i - 1 = j /\ i # 0 /\ q[i] \in X
    BY <1>1, ElementOfSeq
  <2> HIDE DEF i
  <2>3. f[i] = IF q[i] \in S THEN Append(f[i - 1], q[i]) ELSE f[i - 1]
    BY <1>2, <2>2 DEF Kept
  <2>4. CASE i <= k
    <3>1. f[i] = SubSeq(q, k + 1, j)
      BY <2>1, <2>2, <2>3, <2>4
    <3>2. SubSeq(q, k + 1, j) = <<>> /\ SubSeq(q, k + 1, i) = <<>>
      BY <2>2, <2>4, SubSeqEmpty
    <3> QED BY <3>1, <3>2 DEF i
  <2>5. CASE k < i
    <3>1. f[i] = Append(SubSeq(q, k + 1, j), q[i])
      BY <2>1, <2>2, <2>3, <2>5
    <3>2. k + 1 \in 1..Len(q) /\ i \in k + 1..Len(q)
      BY <1>1, <2>2, <2>5
    <3>3. SubSeq(q, k + 1, i) = SubSeq(q, k + 1, i - 1) \o <<q[i]>>
      BY <3>2, SubSeqRecursiveSecond
    <3>4. SubSeq(q, k + 1, j) \in Seq(X)
      <4>1. \A l \in k + 1..j : q[l] \in X
        BY <1>1, <2>2, ElementOfSeq
      <4> QED BY <4>1, SubSeqProperties
    <3>5. Append(SubSeq(q, k + 1, j), q[i]) = SubSeq(q, k + 1, j) \o <<q[i]>>
      BY <2>2, <3>4, AppendIsConcat
    <3> QED BY <2>2, <3>1, <3>3, <3>5 DEF i
  <2> QED BY <2>2, <2>4, <2>5
<1> HIDE DEF P
<1>5. Nat \subseteq P
  BY <1>3, <1>4, NatSet
<1> QED BY <1>1, <1>2, <1>5 DEF P

\* What is left of a sequence without its first k elements.
LEMMA RestProperties ==
  ASSUME NEW X, NEW q \in Seq(X), NEW k \in 0..Len(q)
  PROVE  /\ Rest(q, k) \in Seq(X) /\ Len(Rest(q, k)) = Len(q) - k
         /\ \A i \in 1..Len(q) - k : Rest(q, k)[i] = q[k + i]
<1>1. \A i \in k + 1..Len(q) : q[i] \in X
  BY ElementOfSeq
<1>2. /\ SubSeq(q, k + 1, Len(q)) \in Seq(X)
      /\ Len(SubSeq(q, k + 1, Len(q))) = IF k + 1 <= Len(q) THEN Len(q) - (k + 1) + 1 ELSE 0
      /\ \A i \in 1..Len(q) - (k + 1) + 1 : SubSeq(q, k + 1, Len(q))[i] = q[k + 1 + i - 1]
  BY <1>1, SubSeqProperties
<1> QED BY <1>2 DEF Rest

\* The first k elements of a sequence.
LEMMA PrefixProperties ==
  ASSUME NEW X, NEW q \in Seq(X), NEW k \in 0..Len(q)
  PROVE  /\ Prefix(q, k) \in Seq(X) /\ Len(Prefix(q, k)) = k
         /\ \A i \in 1..k : Prefix(q, k)[i] = q[i]
<1>1. \A i \in 1..k : q[i] \in X
  BY ElementOfSeq
<1>2. /\ SubSeq(q, 1, k) \in Seq(X)
      /\ Len(SubSeq(q, 1, k)) = IF 1 <= k THEN k - 1 + 1 ELSE 0
      /\ \A i \in 1..k - 1 + 1 : SubSeq(q, 1, k)[i] = q[1 + i - 1]
  BY <1>1, SubSeqProperties
<1> QED BY <1>2 DEF Prefix

-----------------------------------------------------------------------------
(***************************************************************************)
(* What a session was asked for and has not dealt with.                    *)
(***************************************************************************)
\* All of q are reports; of u only the first may be none, when there is none before it.
OnlyReports(q) == \A i \in 1..Len(q) : q[i].op = "="
ReportsAfter(q, u) == \A i \in 1..Len(u) : u[i].op # "=" => i = 1 /\ q = <<>>

\* w and what is left of u after n of them are q and u without their oldest.
Oldest(q, u, n, w) ==
  \E k \in 0..Len(q \o u) :
     /\ w \o Rest(u, n) = Rest(q \o u, k)
     /\ k = Len(q \o u) => k = 0 \/ (k = 1 /\ n > 0 /\ u[1].op # "=")
     /\ n > 0 /\ u[1].op # "=" => k > 0

\* Reading n requests from a connection gives up the oldest ones, if any: the
\* subscription and those for which the queue of requests has no room.
LEMMA ReadAsked ==
  ASSUME NEW q \in Seq(Requests), NEW u \in Seq(Requests), NEW n \in 0..Len(u), Cap \in Nat \ {0},
         OnlyReports(q), ReportsAfter(q, u), NEW w, w = Push(q, Among(Prefix(u, n), Reports))
  PROVE  /\ w \in Seq(Requests) /\ Len(w) <= Cap /\ OnlyReports(w)
         /\ Oldest(q, u, n, w)
<1> DEFINE j == IF n > 0 /\ u[1].op # "=" THEN 1 ELSE 0
           got == Prefix(u, n)
           more == Among(got, Reports)
           all == q \o more
           x == Max({0, Len(all) - Cap})
           rest == Rest(u, n)
           ask == q \o u
<1>1. Len(q) \in Nat /\ Len(u) \in Nat /\ n \in Nat /\ n <= Len(u)
  OBVIOUS
<1>2. j \in {0, 1} /\ j <= n /\ (j = 1 => q = <<>> /\ n > 0 /\ u[1].op # "=") /\ (j = 0 /\ n > 0 => u[1].op = "=")
  BY <1>1 DEF ReportsAfter
<1>3. got \in Seq(Requests) /\ Len(got) = n /\ \A i \in 1..n : got[i] = u[i]
  BY <1>1, PrefixProperties
<1> HIDE DEF j, got
<1>4. \A i \in 1..Len(got) : got[i] \in Reports <=> (j < i)
  <2> SUFFICES ASSUME NEW i \in 1..Len(got) PROVE got[i] \in Reports <=> (j < i)
    OBVIOUS
  <2>1. got[i] = u[i] /\ i \in 1..n /\ i \in 1..Len(u)
    BY <1>1, <1>3
  <2>2. u[i].op # "=" => i = 1 /\ j = 1
    BY <1>2, <2>1 DEF ReportsAfter
  <2>3. j = 1 /\ i = 1 => u[i].op # "="
    BY <1>2
  <2>4. got[i].op = "=" <=> (j < i)
    BY <1>2, <2>1, <2>2, <2>3
  <2>5. got[i] \in Requests
    BY <1>3, ElementOfSeq
  <2> QED BY <2>4, <2>5 DEF Reports
<1>5. more = Rest(got, j)
  <2>1. j \in Nat /\ j <= Len(got)
    BY <1>1, <1>2, <1>3
  <2> HIDE DEF more
  <2>2. Among(got, Reports) = SubSeq(got, j + 1, Len(got))
    BY <1>3, <1>4, <2>1, AmongRest
  <2> QED BY <2>2 DEF more, Rest
<1>6. /\ more \in Seq(Requests) /\ Len(more) = n - j
      /\ \A i \in 1..n - j : more[i] = u[j + i] /\ more[i].op = "="
  <2>1. j \in 0..Len(got)
    BY <1>1, <1>2, <1>3
  <2>2. /\ Rest(got, j) \in Seq(Requests) /\ Len(Rest(got, j)) = n - j
        /\ \A i \in 1..n - j : Rest(got, j)[i] = got[j + i]
    BY <1>3, <2>1, RestProperties
  <2>3. ASSUME NEW i \in 1..n - j PROVE more[i] = u[j + i] /\ more[i].op = "="
    <3>1. j + i \in 1..n /\ j + i \in 1..Len(got) /\ j < j + i
      BY <1>1, <1>2, <1>3
    <3>2. more[i] = got[j + i] /\ got[j + i] = u[j + i]
      BY <1>3, <1>5, <2>2, <3>1
    <3>3. got[j + i].op = "="
      BY <1>4, <3>1 DEF Reports
    <3> QED BY <3>2, <3>3
  <2> QED BY <1>5, <2>2, <2>3
<1> HIDE DEF more
<1>7. /\ all \in Seq(Requests) /\ Len(all) = Len(q) + (n - j)
      /\ \A i \in 1..Len(q) + (n - j) : all[i] = IF i <= Len(q) THEN q[i] ELSE more[i - Len(q)]
  <2>1. /\ all \in Seq(Requests) /\ Len(all) = Len(q) + Len(more)
        /\ \A i \in 1..Len(q) + Len(more) : all[i] = IF i <= Len(q) THEN q[i] ELSE more[i - Len(q)]
    <3>1. more \in Seq(Requests)
      BY <1>6
    <3> QED BY <3>1, ConcatProperties
  <2> HIDE DEF all
  <2> QED BY <1>6, <2>1
<1> HIDE DEF all
<1>8. x \in Nat /\ Len(all) - Cap <= x /\ x <= Len(all) /\ (x = Len(all) => x = 0)
  <2>1. Len(all) - Cap \in Int /\ Len(all) \in Nat
    BY <1>7
  <2>2. x \in {0, Len(all) - Cap} /\ 0 <= x /\ Len(all) - Cap <= x
    <3> DEFINE y == Len(all) - Cap
    <3>1. y \in Int /\ 0 \in Int
      BY <2>1
    <3> HIDE DEF y
    <3>2. Max({0, y}) \in {0, y} /\ 0 <= Max({0, y}) /\ y <= Max({0, y})
      BY <3>1, MaxOfTwo
    <3> QED BY <3>2 DEF y
  <2> HIDE DEF x
  <2> QED BY <2>1, <2>2
<1>9. w = Rest(all, x)
  BY DEF Push, all, x, more, got
<1> HIDE DEF x
<1>10. w \in Seq(Requests) /\ Len(w) = Len(all) - x /\ \A i \in 1..Len(all) - x : w[i] = all[x + i]
  <2>1. x \in 0..Len(all)
    BY <1>7, <1>8
  <2>2. /\ Rest(all, x) \in Seq(Requests) /\ Len(Rest(all, x)) = Len(all) - x
        /\ \A i \in 1..Len(all) - x : Rest(all, x)[i] = all[x + i]
    <3>1. all \in Seq(Requests)
      BY <1>7
    <3> QED BY <2>1, <3>1, RestProperties
  <2> QED BY <1>9, <2>2
<1>11. Len(w) <= Cap
  BY <1>7, <1>8, <1>10
<1>12. \A i \in 1..Len(w) : w[i].op = "="
  <2> SUFFICES ASSUME NEW i \in 1..Len(w) PROVE w[i].op = "="
    OBVIOUS
  <2>1. w[i] = all[x + i] /\ x + i \in 1..Len(all)
    BY <1>7, <1>8, <1>10
  <2>2. CASE x + i <= Len(q)
    <3>1. x + i \in 1..Len(q) /\ all[x + i] = q[x + i]
      BY <1>7, <1>8, <2>1, <2>2
    <3> QED BY <2>1, <3>1 DEF OnlyReports
  <2>3. CASE x + i > Len(q)
    <3>1. (x + i) - Len(q) \in 1..n - j /\ all[x + i] = more[(x + i) - Len(q)]
      BY <1>1, <1>2, <1>7, <1>8, <2>1, <2>3
    <3> QED BY <1>6, <2>1, <3>1
  <2> QED BY <1>1, <1>8, <2>2, <2>3
<1>13. rest \in Seq(Requests) /\ Len(rest) = Len(u) - n /\ \A i \in 1..Len(u) - n : rest[i] = u[n + i]
  BY <1>1, RestProperties
<1>14. /\ ask \in Seq(Requests) /\ Len(ask) = Len(q) + Len(u)
       /\ \A i \in 1..Len(q) + Len(u) : ask[i] = IF i <= Len(q) THEN q[i] ELSE u[i - Len(q)]
  BY ConcatProperties
<1> HIDE DEF rest, ask
<1>15. /\ w \o rest \in Seq(Requests) /\ Len(w \o rest) = Len(w) + Len(rest)
       /\ \A i \in 1..Len(w) + Len(rest) : (w \o rest)[i] = IF i <= Len(w) THEN w[i] ELSE rest[i - Len(w)]
  BY <1>10, <1>13, ConcatProperties
<1> DEFINE k == j + x
<1>16. k \in 0..Len(ask)
  BY <1>1, <1>2, <1>7, <1>8, <1>14
<1>17. /\ Rest(ask, k) \in Seq(Requests) /\ Len(Rest(ask, k)) = Len(ask) - k
       /\ \A i \in 1..Len(ask) - k : Rest(ask, k)[i] = ask[k + i]
  <2>1. ask \in Seq(Requests)
    BY <1>14
  <2> HIDE DEF k
  <2> QED BY <1>16, <2>1, RestProperties
<1>18. Len(w \o rest) = Len(Rest(ask, k))
  <2>1. Len(w \o rest) = Len(w) + Len(rest)
    BY <1>15
  <2>2. Len(w) = (Len(q) + (n - j)) - x
    BY <1>7, <1>10
  <2>3. Len(rest) = Len(u) - n
    BY <1>13
  <2>4. Len(Rest(ask, k)) = (Len(q) + Len(u)) - (j + x)
    BY <1>14, <1>17
  <2>5. Len(q) \in Nat /\ Len(u) \in Nat /\ n \in Nat /\ j \in Nat /\ x \in Nat
    BY <1>1, <1>2, <1>8
  <2> QED BY <2>1, <2>2, <2>3, <2>4, <2>5
<1>19. ASSUME NEW i \in 1..Len(w \o rest) PROVE (w \o rest)[i] = Rest(ask, k)[i]
  <2>1. i \in 1..Len(ask) - k /\ Rest(ask, k)[i] = ask[k + i] /\ k + i \in 1..Len(q) + Len(u)
    BY <1>1, <1>2, <1>8, <1>14, <1>16, <1>17, <1>18
  <2>2. CASE i <= Len(w)
    <3>1. (w \o rest)[i] = all[x + i] /\ x + i \in 1..Len(all)
      BY <1>7, <1>8, <1>10, <1>15, <2>2
    <3>2. CASE x + i <= Len(q)
      <4>1. j = 0
        <5>1. q # <<>>
          BY <1>1, <1>8, <3>2
        <5> QED BY <1>2, <5>1
      <4>2. all[x + i] = q[x + i]
        BY <1>7, <3>1, <3>2
      <4>3. ask[k + i] = q[k + i] /\ k + i = x + i
        BY <1>1, <1>8, <1>14, <2>1, <3>2, <4>1
      <4> QED BY <2>1, <3>1, <4>2, <4>3
    <3>3. CASE x + i > Len(q)
      <4>1. (x + i) - Len(q) \in 1..n - j /\ all[x + i] = more[(x + i) - Len(q)]
        <5>1. x + i \in 1..Len(q) + (n - j) /\ ~ (x + i <= Len(q))
          BY <1>1, <1>7, <1>8, <3>1, <3>3
        <5>2. all[x + i] = more[(x + i) - Len(q)]
          BY <1>7, <5>1
        <5> QED BY <1>1, <1>2, <1>8, <5>1, <5>2
      <4>2. more[(x + i) - Len(q)] = u[j + ((x + i) - Len(q))]
        BY <1>6, <4>1
      <4>3. ask[k + i] = u[(k + i) - Len(q)]
        BY <1>1, <1>2, <1>8, <1>14, <2>1, <3>3
      <4>4. (k + i) - Len(q) = j + ((x + i) - Len(q))
        BY <1>1, <1>2, <1>8
      <4> QED BY <2>1, <3>1, <4>1, <4>2, <4>3, <4>4
    <3> QED BY <1>1, <1>8, <3>2, <3>3
  <2>3. CASE i > Len(w)
    <3>0. Len(w) \in Nat /\ Len(rest) \in Nat
      BY <1>10, <1>13
    <3>1. i - Len(w) \in 1..Len(rest) /\ (w \o rest)[i] = rest[i - Len(w)]
      BY <1>15, <2>3, <3>0
    <3>2. rest[i - Len(w)] = u[n + (i - Len(w))]
      BY <1>13, <3>1
    <3>3. n + (i - Len(w)) = (k + i) - Len(q) /\ k + i > Len(q)
      BY <1>1, <1>2, <1>7, <1>8, <1>10, <2>3
    <3>4. ask[k + i] = u[(k + i) - Len(q)]
      <4>1. ~ (k + i <= Len(q)) /\ k + i \in 1..Len(q) + Len(u)
        BY <1>1, <1>2, <1>8, <2>1, <3>3
      <4> HIDE DEF k
      <4> QED BY <1>14, <4>1
    <3> QED BY <2>1, <3>1, <3>2, <3>3, <3>4
  <2> QED BY <1>7, <1>8, <1>10, <2>2, <2>3
<1>20. w \o rest = Rest(ask, k)
  <2> HIDE DEF k
  <2> QED BY <1>15, <1>17, <1>18, <1>19, SeqEqual
<1>21. k = Len(ask) => k = 0 \/ (k = 1 /\ n > 0 /\ u[1].op # "=")
  BY <1>1, <1>2, <1>7, <1>8, <1>14
<1>22. n > 0 /\ u[1].op # "=" => k > 0
  BY <1>8 DEF j
<1> QED BY <1>10, <1>11, <1>12, <1>16, <1>20, <1>21, <1>22 DEF ask, rest, OnlyReports, Oldest

\* The requests of a connection, in the queue of its session and on their way.
LEMMA AskedSeq ==
  ASSUME TypeOK, NEW c \in Conns
  PROVE  /\ tx[c].reqs \in Seq(Requests) /\ up[c] \in Seq(Requests)
         /\ asked(c) \in Seq(Requests) /\ Len(asked(c)) = Len(tx[c].reqs) + Len(up[c])
         /\ \A i \in 1..Len(tx[c].reqs) : asked(c)[i] = tx[c].reqs[i]
         /\ \A i \in 1..Len(up[c]) : asked(c)[Len(tx[c].reqs) + i] = up[c][i]
         /\ \A i \in 1..Len(asked(c)) : asked(c)[i] \in Requests
<1>1. tx[c].reqs \in Seq(Requests) /\ up[c] \in Seq(Requests)
  BY DEF TypeOK, TxStates
<1> DEFINE q == tx[c].reqs
           u == up[c]
<1>2. q \in Seq(Requests) /\ u \in Seq(Requests) /\ Len(q) \in Nat /\ Len(u) \in Nat
  BY <1>1
<1> HIDE DEF q, u
<1>3. /\ q \o u \in Seq(Requests) /\ Len(q \o u) = Len(q) + Len(u)
      /\ \A i \in 1..Len(q) + Len(u) : (q \o u)[i] = IF i <= Len(q) THEN q[i] ELSE u[i - Len(q)]
  BY <1>2, ConcatProperties
<1>4. \A i \in 1..Len(q) : (q \o u)[i] = q[i]
  BY <1>2, <1>3
<1>5. ASSUME NEW i \in 1..Len(u) PROVE (q \o u)[Len(q) + i] = u[i]
  <2>1. Len(q) + i \in 1..Len(q) + Len(u) /\ ~ (Len(q) + i <= Len(q)) /\ (Len(q) + i) - Len(q) = i
    BY <1>2
  <2> QED BY <1>3, <2>1
<1>6. \A i \in 1..Len(q \o u) : (q \o u)[i] \in Requests
  BY <1>3, ElementOfSeq
<1> QED BY <1>2, <1>3, <1>4, <1>5, <1>6 DEF asked, q, u

\* A number that is less than one lap behind is in its slot.
LEMMA InItsSlot ==
  ASSUME Cap \in Nat \ {0}, head \in Nat, NEW s \in Nat, s < head, head <= s + Cap
  PROVE  InSlotOf(s) = s
<1> DEFINE x == (head - 1) - s
<1>1. x \in Nat /\ x < Cap
  OBVIOUS
<1>2. x \div Cap = 0
  <2> HIDE DEF x
  <2> QED BY <1>1, SMT
<1>3. Cap * 0 = 0
  OBVIOUS
<1>4. head - 1 - s = x
  OBVIOUS
<1> HIDE DEF x
<1>5. InSlotOf(s) = s + Cap * (x \div Cap)
  BY <1>4, Zenon DEF InSlotOf
<1> QED BY <1>2, <1>3, <1>5

-----------------------------------------------------------------------------
(***************************************************************************)
(* What a connection keeps when another one, or the sender, makes a step.  *)
(***************************************************************************)
\* The sender's counters are in range.
LEMMA Counters ==
  ASSUME TypeOK, SenderInv
  PROVE  /\ head \in Nat /\ readSeq[0] \in Nat /\ readSeq[1] \in Nat /\ Cap \in Nat \ {0}
         /\ MaxSeq \in Nat /\ SEQ_MAX \in Nat /\ SEQ_MAX > MaxSeq /\ head <= MaxSeq
         /\ readSeq[1] <= readSeq[0] /\ readSeq[0] <= head /\ head <= readSeq[1] + Cap
         /\ toSend.lo \in Nat /\ toSend.hi \in Nat /\ expectSeq \in Nat
         /\ toSend.alert \in Nat \cup {-1}
<1>1. Cap \in Nat \ {0} /\ MaxSeq \in Nat /\ SEQ_MAX \in Nat /\ SEQ_MAX > MaxSeq
  BY MulticastAssumption
<1>2. head \in Nat /\ head <= MaxSeq
  BY DEF TypeOK, head
<1>3. readSeq[0] \in Seqs /\ readSeq[1] \in Seqs
  BY DEF TypeOK
<1>4. toSend.lo \in Seqs /\ toSend.hi \in Seqs /\ expectSeq \in Seqs /\ toSend.alert \in Seqs \cup {-1}
  BY DEF TypeOK, Packets
<1>5. readSeq[1] <= readSeq[0] /\ head <= readSeq[1] + Cap /\ toSend.lo <= toSend.hi
      /\ readSeq[0] + (toSend.hi - toSend.lo) <= head
  BY DEF SenderInv
<1> QED BY <1>1, <1>2, <1>3, <1>4, <1>5 DEF Seqs

\* What the ends of a connection count.
LEMMA ConnTypes ==
  ASSUME TypeOK, NEW c \in Conns
  PROVE  /\ tx[c] \in TxStates /\ rx[c] \in RxStates
         /\ tx[c].next \in Nat /\ tx[c].after \in Nat
         /\ tx[c].relic \in Seq(Seqs \cup {-1}) /\ Len(tx[c].relic) \in Nat
         /\ rx[c].gapSeq \in Nat \cup {-1} /\ rx[c].expecting \in Nat /\ rx[c].min \in Nat
         /\ rx[c].out \in Seq(Seqs)
         /\ down[c] \in Seq(Writes) /\ Len(down[c]) \in Nat
<1>1. MaxSeq \in Nat /\ SEQ_MAX \in Nat
  BY MulticastAssumption
<1>2. tx[c] \in TxStates /\ rx[c] \in RxStates /\ down[c] \in Seq(Writes)
  BY DEF TypeOK
<1>3. tx[c].next \in Seqs /\ tx[c].after \in Seqs /\ tx[c].relic \in Seq(Seqs \cup {-1})
  BY <1>2 DEF TxStates
<1>4. /\ rx[c].gapSeq \in Seqs \cup {-1} /\ rx[c].expecting \in Seqs \cup {SEQ_MAX}
      /\ rx[c].min \in Seqs \cup {SEQ_MAX} /\ rx[c].out \in Seq(Seqs)
  BY <1>2 DEF RxStates
<1> QED BY <1>1, <1>2, <1>3, <1>4 DEF Seqs

\* The numbers in what is written and asked for.
LEMMA DataTypes ==
  ASSUME TypeOK, NEW c \in Conns
  PROVE  /\ \A i \in 1..Len(down[c]) : down[c][i] \in Writes /\ down[c][i].seq \in Nat
         /\ \A i \in 1..Len(asked(c)) :
               asked(c)[i] \in Requests /\ asked(c)[i].seq \in Nat /\ asked(c)[i].len \in Nat
<1>1. MaxSeq \in Nat
  BY MulticastAssumption
<1>2. down[c] \in Seq(Writes)
  BY ConnTypes
<1>3. \A i \in 1..Len(down[c]) : down[c][i] \in Writes
  BY <1>2, ElementOfSeq
<1>4. \A i \in 1..Len(asked(c)) : asked(c)[i] \in Requests
  BY AskedSeq
<1> QED BY <1>1, <1>3, <1>4 DEF Writes, Requests, Seqs

\* The log keeps what it has.
LogGrows == head <= head' /\ \A s \in 0..head - 1 : TagOf(s)' = TagOf(s)

\* Queueing extends the log, everything else leaves it alone.
LEMMA LogGrowsStep ==
  ASSUME TypeOK, log' = log \/ \E t \in Tags : log' = Append(log, t)
  PROVE  LogGrows
<1>1. log \in Seq(Tags) /\ Len(log) \in Nat
  BY DEF TypeOK
<1>2. CASE log' = log
  BY <1>1, <1>2 DEF LogGrows, head, TagOf
<1>3. ASSUME NEW t \in Tags, log' = Append(log, t) PROVE LogGrows
  <2>1. Len(log') = Len(log) + 1 /\ \A i \in 1..Len(log) : log'[i] = log[i]
    BY <1>1, <1>3, AppendProperties
  <2>2. \A s \in 0..Len(log) - 1 : s + 1 \in 1..Len(log)
    BY <1>1
  <2> QED BY <1>1, <2>1, <2>2 DEF LogGrows, head, TagOf
<1> QED BY <1>2, <1>3

\* What a receiver wants of the messages there were stays the same.
LEMMA WantedKept ==
  ASSUME head \in Nat, LogGrows, NEW c \in Conns, NEW a \in Nat, NEW b \in Nat, a <= b, b <= head
  PROVE  Among(SeqRange(a, b), Wanted(c)') = Among(SeqRange(a, b), Wanted(c))
<1> DEFINE q == SeqRange(a, b)
           S == Wanted(c)
           T == Wanted(c)'
<1>1. q \in Seq(Nat) /\ Len(q) = b - a /\ \A i \in 1..b - a : q[i] = a + i - 1
  BY RangeType
<1>2. ASSUME NEW s \in 0..head - 1 PROVE s \in T <=> s \in S
  <2>1. Subscribed(c, s)' <=> Subscribed(c, s)
    BY DEF LogGrows, Subscribed
  <2>2. s \in 0..head' - 1
    BY DEF LogGrows, head
  <2> QED BY <2>1, <2>2 DEF Wanted
<1>3. \A i \in 1..Len(q) : q[i] \in 0..head - 1
  BY <1>1
<1> HIDE DEF q, S, T
<1>4. \A i \in 1..Len(q) : q[i] \in T <=> q[i] \in S
  BY <1>2, <1>3
<1>5. Among(q, T) = Among(q, S)
  BY <1>1, <1>4, AmongSame
<1> QED BY <1>5 DEF q, S, T

\* What a receiver has and what is on its way to it stays right when the log grows and
\* the multicast goes on.
LEMMA StreamKept ==
  ASSUME TypeOK, SenderInv, NEW c \in Conns, StreamInv(c), LogGrows,
         rx'[c] = rx[c], down'[c] = down[c], readSeq'[0] \in Nat, readSeq[0] <= readSeq'[0]
  PROVE  StreamInv(c)'
<1> SUFFICES ASSUME rx[c].expecting # SEQ_MAX PROVE StreamInv(c)'
  BY DEF StreamInv
<1> DEFINE e == rx[c].expecting
           d == Len(down[c])
<1>1. StreamInv(c)
  OBVIOUS
<1>2. head \in Nat /\ readSeq[0] \in Nat /\ readSeq[0] <= head
  BY Counters
<1>3. GapPending(c)' = GapPending(c)
  BY DEF GapPending
<1>4. e \in Nat /\ rx[c].min \in Nat /\ rx[c].gapSeq \in Nat \cup {-1} /\ Len(down[c]) \in Nat
  BY ConnTypes
<1>5. rx[c].min <= e /\ e <= readSeq[0] /\ rx[c].gapSeq < readSeq[0]
  BY <1>1 DEF StreamInv
<1>6. Among(SeqRange(rx[c].min, e), Wanted(c)') = Among(SeqRange(rx[c].min, e), Wanted(c))
  BY <1>2, <1>4, <1>5, WantedKept
<1>7. ASSUME NEW i \in 1..Len(down[c]), NEW s, s = e + (i - 1)
      PROVE  down[c][i] = IF Subscribed(c, s)' THEN Message(s) ELSE Flush
  <2>1. down[c][i] = IF Subscribed(c, s) THEN Message(s) ELSE Flush
    BY <1>1, <1>7 DEF StreamInv
  <2>2. e + Len(down[c]) <= rx[c].gapSeq + 1
    BY <1>1, <1>4 DEF StreamInv
  <2>3. s \in 0..head - 1
    <3>1. i \in Nat /\ 1 <= i /\ i <= Len(down[c])
      BY <1>4
    <3>2. head \in Nat /\ readSeq[0] \in Nat /\ readSeq[0] <= head
      BY <1>2
    <3>3. d + e <= rx[c].gapSeq + 1 /\ d \in Nat
      BY <1>4, <2>2
    <3>4. e \in Nat /\ s = e + (i - 1) /\ i <= d /\ rx[c].gapSeq < readSeq[0]
      BY <1>4, <1>5, <1>7, <3>1
    <3>5. rx[c].gapSeq \in Int
      BY <1>4
    <3> DEFINE g == rx[c].gapSeq
    <3> HIDE DEF d, e, g
    <3>6. d + e <= g + 1 /\ g < readSeq[0] /\ g \in Int
      BY <3>3, <3>4, <3>5 DEF g
    <3> QED BY <3>1, <3>2, <3>3, <3>4, <3>6
  <2> QED BY <2>1, <2>3 DEF LogGrows, Subscribed
<1>8. e <= readSeq'[0] /\ rx[c].gapSeq < readSeq'[0]
  BY <1>2, <1>4, <1>5
<1> QED BY <1>3, <1>1, <1>6, <1>7, <1>8 DEF StreamInv

\* A connection is not disturbed by what happens elsewhere: the cursor of the multicast
\* moves on, the backup cursor not past its session, and the log grows.
LEMMA ConnKept ==
  ASSUME TypeOK, SenderInv, NEW c \in Conns, ConnInv(c), LogGrows,
         tx'[c] = tx[c], rx'[c] = rx[c], up'[c] = up[c], down'[c] = down[c],
         readSeq'[0] \in Nat, readSeq[0] <= readSeq'[0],
         readSeq'[1] \in Nat, tx[c].st = "live" => readSeq'[1] <= tx[c].next
  PROVE  ConnInv(c)'
<1>1. asked(c)' = asked(c) /\ LastAsked(c)' = LastAsked(c) /\ GapPending(c)' = GapPending(c)
  BY DEF asked, LastAsked, GapPending
<1>2. /\ head \in Nat /\ readSeq[0] \in Nat /\ readSeq[0] <= head
      /\ tx[c].next \in Nat /\ tx[c].after \in Nat /\ Len(tx[c].relic) \in Nat
      /\ \A i \in 1..Len(asked(c)) : asked(c)[i].seq \in Nat /\ asked(c)[i].len \in Nat
  BY Counters, ConnTypes, DataTypes
<1>3. StageInv(c)'
  BY DEF ConnInv, StageInv
<1>4. AskedInv(c)'
  <2> SUFFICES ASSUME tx[c].st = "live" PROVE AskedInv(c)'
    BY DEF AskedInv
  <2>1. AskedInv(c)
    BY DEF ConnInv
  <2>2. readSeq'[1] <= tx[c].next /\ tx[c].next <= readSeq'[0]
    BY <1>2, <2>1 DEF AskedInv
  <2>3. \A i \in 1..Len(asked(c)) :
              IF asked(c)[i].op = "+" THEN i = 1 /\ tx[c].reqs = <<>> /\ asked(c)[i] = Subscribe
              ELSE /\ tx[c].next <= asked(c)[i].seq /\ (tx[c].relic # <<>> => tx[c].after <= asked(c)[i].seq)
                   /\ asked(c)[i].len <= Cap /\ asked(c)[i].seq + asked(c)[i].len <= readSeq'[0]
    BY <1>2, <2>1 DEF AskedInv
  <2>4. \A i, j \in 1..Len(asked(c)) :
              i < j => asked(c)[i].len = 0 /\ asked(c)[i].seq <= asked(c)[j].seq
    BY <2>1 DEF AskedInv
  <2>5. tx[c].relic # <<>> => tx[c].after <= readSeq'[0] /\ tx[c].next <= tx[c].after - Len(tx[c].relic)
    BY <1>2, <2>1 DEF AskedInv
  <2>6. ASSUME NEW j \in 1..Len(tx[c].relic), NEW s, s = tx[c].after - Len(tx[c].relic) + (j - 1)
        PROVE  tx[c].relic[j] = IF Subscribed(c, s)' THEN s ELSE -1
    <3>1. tx[c].relic[j] = IF Subscribed(c, s) THEN s ELSE -1
      BY <2>1, <2>6 DEF AskedInv
    <3>2. tx[c].relic # <<>>
      BY <1>2
    <3>3. tx[c].after <= readSeq[0] /\ tx[c].next <= tx[c].after - Len(tx[c].relic)
      BY <2>1, <3>2 DEF AskedInv
    <3>4. s \in 0..head - 1
      <4>1. j \in Nat /\ 1 <= j /\ j <= Len(tx[c].relic)
        BY <1>2
      <4>2. /\ head \in Nat /\ readSeq[0] \in Nat /\ readSeq[0] <= head
            /\ tx[c].next \in Nat /\ tx[c].after \in Nat /\ Len(tx[c].relic) \in Nat
        BY <1>2
      <4> DEFINE a == tx[c].after
                 b == tx[c].next
                 r == Len(tx[c].relic)
      <4>3. s = (a - r) + (j - 1) /\ b <= a - r /\ a <= readSeq[0] /\ j <= r
        BY <2>6, <3>3, <4>1
      <4>4. a \in Nat /\ b \in Nat /\ r \in Nat
        BY <4>2
      <4> HIDE DEF a, b, r
      <4> QED BY <4>1, <4>2, <4>3, <4>4
    <3> QED BY <3>1, <3>4 DEF LogGrows, Subscribed
  <2> QED BY <1>1, <2>2, <2>3, <2>4, <2>5, <2>6 DEF AskedInv
<1>5. StartInv(c)'
  <2>1. StartInv(c) /\ \A i \in 1..Len(down[c]) : down[c][i].seq \in Nat
    BY DataTypes DEF ConnInv
  <2>2. down[c] # <<>> /\ Len(down[c]) = 1 /\ down[c][1].seq <= readSeq[0] => down[c][1].seq <= readSeq'[0]
    BY <1>2, <2>1
  <2> QED BY <2>1, <2>2 DEF StartInv
<1>6. StreamInv(c)'
  BY <1>2, StreamKept DEF ConnInv
<1>7. LinkInv(c)'
  <2>1. LinkInv(c)
    BY DEF ConnInv
  <2> QED BY <1>1, <2>1 DEF LinkInv
<1> QED BY <1>3, <1>4, <1>5, <1>6, <1>7 DEF ConnInv

\* A step that concerns connection c alone.
Untouched(d) == tx'[d] = tx[d] /\ rx'[d] = rx[d] /\ up'[d] = up[d] /\ down'[d] = down[d]
OnlyConn(c) == log' = log /\ readSeq' = readSeq /\ \A d \in Conns \ {c} : Untouched(d)

\* Every other connection keeps its invariant.
LEMMA OthersKept ==
  ASSUME TypeOK, SenderInv, \A d \in Conns : ConnInv(d), NEW c, OnlyConn(c), c \in Conns => ConnInv(c)'
  PROVE  \A d \in Conns : ConnInv(d)'
<1>1. LogGrows
  BY LogGrowsStep DEF OnlyConn
<1>2. readSeq[0] \in Nat /\ readSeq[1] \in Nat /\ readSeq' = readSeq
  BY Counters DEF OnlyConn
<1>3. ASSUME NEW d \in Conns, d # c PROVE ConnInv(d)'
  <2>1. tx'[d] = tx[d] /\ rx'[d] = rx[d] /\ up'[d] = up[d] /\ down'[d] = down[d]
    BY <1>3 DEF OnlyConn, Untouched
  <2>2. ConnInv(d)
    BY <1>3
  <2>3. tx[d].st = "live" => readSeq'[1] <= tx[d].next
    BY <1>2, <2>2 DEF ConnInv, AskedInv
  <2>4. readSeq'[0] \in Nat /\ readSeq[0] <= readSeq'[0] /\ readSeq'[1] \in Nat
    BY <1>2
  <2> QED BY <1>1, <2>1, <2>2, <2>3, <2>4, ConnKept
<1> QED BY <1>3

-----------------------------------------------------------------------------
(***************************************************************************)
(* The initial states, and steps that concern no connection.               *)
(***************************************************************************)
\* The invariant holds at the start.
LEMMA MulticastInit == Init => MulticastInv
<1> SUFFICES ASSUME Init PROVE MulticastInv
  OBVIOUS
<1>1. /\ Cap \in Nat \ {0} /\ MaxSeq \in Nat /\ SEQ_MAX \in Nat /\ SEQ_MAX > MaxSeq
      /\ WaitForSlow \subseteq BOOLEAN /\ Conns \subseteq Nat \ {0}
  BY MulticastAssumption
<1>2. 0 \in Seqs /\ Seqs \subseteq Nat
  BY <1>1 DEF Seqs
<1>3. NoPacket \in Packets
  BY <1>2 DEF NoPacket, Packets
<1>4. NoTx \in TxStates
  BY <1>2 DEF NoTx, TxStates
<1>5. NoRx \in RxStates
  BY <1>2 DEF NoRx, RxStates
<1>6. head = 0
  BY DEF Init, head
<1>7. TypeOK
  <2>1. log \in Seq(Tags) /\ head <= MaxSeq
    BY <1>1, <1>6 DEF Init
  <2>2. tx \in [Conns -> TxStates] /\ rx \in [Conns -> RxStates] /\ \A c \in Conns : Len(tx[c].reqs) <= Cap
    BY <1>1, <1>4, <1>5 DEF Init, NoTx
  <2>3. /\ up \in [Conns -> Seq(Requests)] /\ down \in [Conns -> Seq(Writes)]
        /\ cut \in [Conns -> BOOLEAN] /\ sess \in [Receivers -> Conns \cup {0}]
        /\ held \in [Receivers -> Packets]
    BY <1>3 DEF Init
  <2>4. readSeq \in [0..1 -> Seqs] /\ toCleanup \in Seq(Seqs) /\ waitForSlow \in BOOLEAN
    BY <1>1, <1>2 DEF Init
  <2> QED BY <1>2, <1>3, <2>1, <2>2, <2>3, <2>4 DEF Init, TypeOK
<1>8. SenderInv
  BY <1>1, <1>6 DEF Init, SenderInv, NoPacket
<1>9. LoopInv /\ SessInv /\ AttachmentKept
  BY DEF Init, LoopInv, SessInv, AttachmentKept, Live
<1>10. ASSUME NEW c \in Conns PROVE ConnInv(c)
  <2>1. tx[c] = NoTx /\ rx[c] = NoRx /\ up[c] = <<>> /\ down[c] = <<>>
    BY <1>10 DEF Init
  <2>2. tx[c].st = "none" /\ rx[c].st = "none" /\ rx[c].expecting = SEQ_MAX
    BY <2>1 DEF NoTx, NoRx
  <2>3. StageInv(c)
    BY <2>1, <2>2 DEF StageInv, NoTx, NoRx
  <2> QED BY <2>2, <2>3 DEF ConnInv, AskedInv, StartInv, StreamInv, LinkInv
<1> QED BY <1>7, <1>8, <1>9, <1>10 DEF MulticastInv

\* The sender's counters stay right when nothing of them changes.
LEMMA SenderKept ==
  ASSUME SenderInv, log' = log, readSeq' = readSeq, toSend' = toSend, expectSeq' = expectSeq,
         sent' = sent, held' = held
  PROVE  SenderInv'
BY DEF SenderInv, head

\* Attachments are kept as long as no session falls back.
LEMMA AttachmentsStay ==
  ASSUME AttachmentKept, released' = released, readSeq' = readSeq,
         \A c \in Conns : tx'[c].st = "live" =>
             tx'[c].next = readSeq[1] \/ (tx[c].st = "live" /\ tx[c].next <= tx'[c].next),
         TypeOK, TypeOK'
  PROVE  AttachmentKept'
<1>1. Seqs \subseteq Nat
  BY MulticastAssumption DEF Seqs
<1>2. released \subseteq Seqs /\ readSeq[1] \in Seqs
  BY DEF TypeOK
<1>3. ASSUME NEW c \in Conns PROVE tx[c].next \in Seqs /\ tx'[c].next \in Seqs
  <2>1. tx[c] \in TxStates /\ tx'[c] \in TxStates
    BY DEF TypeOK
  <2> QED BY <2>1 DEF TxStates
<1> SUFFICES ASSUME NEW s \in released
             PROVE  /\ s < readSeq[0] /\ s < readSeq[1]
                    /\ \A c \in Conns : tx'[c].st = "live" => s < tx'[c].next
  BY DEF AttachmentKept, Live
<1>4. s \in Nat /\ s < readSeq[0] /\ s < readSeq[1] /\ readSeq[1] \in Nat
  BY <1>1, <1>2 DEF AttachmentKept
<1>5. ASSUME NEW c \in Conns, tx'[c].st = "live" PROVE s < tx'[c].next
  <2>1. tx[c].next \in Nat /\ tx'[c].next \in Nat
    BY <1>1, <1>3
  <2>2. tx[c].st = "live" => s < tx[c].next
    BY DEF AttachmentKept, Live
  <2> QED BY <1>4, <1>5, <2>1, <2>2
<1> QED BY <1>4, <1>5

\* A producer queues a message.
LEMMA QueueKeeps == ASSUME MulticastInv, NEW t \in Tags, queue(t) PROVE MulticastInv'
<1>1. TypeOK /\ SenderInv /\ LoopInv /\ SessInv /\ AttachmentKept /\ \A c \in Conns : ConnInv(c)
  BY DEF MulticastInv
<1>2. /\ log' = Append(log, t) /\ readSeq' = readSeq /\ head < MaxSeq /\ ~isFull
      /\ UNCHANGED <<attVars, mcVars, cullVars, loopVars, tx, netVars, recvVars>>
  BY DEF queue
<1>3. head \in Nat /\ MaxSeq \in Nat /\ readSeq[0] \in Nat /\ readSeq[1] \in Nat /\ Cap \in Nat
  BY <1>1, Counters
<1>4. log' \in Seq(Tags) /\ head' = head + 1
  BY <1>1, <1>2, AppendProperties DEF TypeOK, head
<1>5. TypeOK'
  BY <1>1, <1>2, <1>3, <1>4 DEF TypeOK, attVars, mcVars, cullVars, loopVars, netVars, recvVars
<1>6. SenderInv'
  <2> DEFINE m == Min({readSeq[0], readSeq[1]})
  <2>1. m \in Nat /\ m <= readSeq[1]
    <3>1. {readSeq[0], readSeq[1]} \in SUBSET Nat /\ {readSeq[0], readSeq[1]} # {}
      BY <1>3
    <3>2. m \in {readSeq[0], readSeq[1]} /\ \A x \in {readSeq[0], readSeq[1]} : m <= x
      BY <3>1, MinLeast
    <3> QED BY <1>3, <3>2
  <2>2. ~ (head >= Cap + m)
    BY <1>2 DEF isFull
  <2> HIDE DEF m
  <2>3. head' <= readSeq[1] + Cap
    BY <1>3, <1>4, <2>1, <2>2
  <2>4. readSeq[0] + (toSend.hi - toSend.lo) <= head'
    <3>1. toSend.hi \in Nat /\ toSend.lo \in Nat
      BY <1>1, Counters
    <3>2. readSeq[0] + (toSend.hi - toSend.lo) <= head
      BY <1>1 DEF SenderInv
    <3> QED BY <1>3, <1>4, <3>1, <3>2
  <2> QED BY <1>1, <1>2, <2>3, <2>4 DEF SenderInv, mcVars, netVars, recvVars
<1>7. LoopInv' /\ SessInv'
  BY <1>1, <1>2 DEF LoopInv, SessInv, Live, loopVars, recvVars
<1>8. AttachmentKept'
  BY <1>1, <1>2 DEF AttachmentKept, Live, attVars
<1>9. ASSUME NEW c \in Conns PROVE ConnInv(c)'
  <2>1. tx'[c] = tx[c] /\ rx'[c] = rx[c] /\ up'[c] = up[c] /\ down'[c] = down[c]
    BY <1>2 DEF netVars, recvVars
  <2>2. LogGrows
    BY <1>1, <1>2, LogGrowsStep
  <2>3. ConnInv(c) /\ (tx[c].st = "live" => readSeq'[1] <= tx[c].next)
    BY <1>1, <1>2 DEF ConnInv, AskedInv
  <2>4. readSeq'[0] \in Nat /\ readSeq[0] <= readSeq'[0] /\ readSeq'[1] \in Nat
    BY <1>2, <1>3
  <2> QED BY <1>1, <2>1, <2>2, <2>3, <2>4, ConnKept
<1> QED BY <1>5, <1>6, <1>7, <1>8, <1>9 DEF MulticastInv

\* Steps that change nothing of the ring, the datagrams and the connections.
LEMMA RestKept ==
  ASSUME MulticastInv, TypeOK', log' = log, readSeq' = readSeq, tx' = tx, rx' = rx, up' = up, down' = down,
         UNCHANGED <<released, toSend, expectSeq, sent, sess, held, todo, cur>>,
         spc' # "serve" => todo = {}
  PROVE  MulticastInv'
<1>1. TypeOK /\ SenderInv /\ LoopInv /\ SessInv /\ AttachmentKept /\ \A c \in Conns : ConnInv(c)
  BY DEF MulticastInv
<1>2. SenderInv'
  BY <1>1, SenderKept
<1>3. LoopInv' /\ SessInv' /\ AttachmentKept'
  BY <1>1 DEF LoopInv, SessInv, AttachmentKept, Live
<1>4. \A c \in Conns : ConnInv(c)'
  <2>1. 0 \notin Conns
    BY MulticastAssumption
  <2>2. OnlyConn(0)
    BY DEF OnlyConn, Untouched
  <2> QED BY <1>1, <2>1, <2>2, OthersKept
<1> QED BY <1>2, <1>3, <1>4 DEF MulticastInv

\* Nothing changes.
LEMMA StutterKeeps == ASSUME MulticastInv, UNCHANGED vars PROVE MulticastInv'
<1>1. TypeOK /\ LoopInv
  BY DEF MulticastInv
<1>2. TypeOK'
  BY <1>1 DEF TypeOK, head, vars, senderVars, ringVars, attVars, mcVars, cullVars, loopVars, netVars, recvVars
<1> QED BY <1>1, <1>2, RestKept DEF LoopInv, vars, senderVars, ringVars, attVars, mcVars, loopVars, netVars, recvVars

\* The sender's socket is not ready.
LEMMA SendLaterKeeps == ASSUME MulticastInv, SendLater PROVE MulticastInv'
<1>1. TypeOK /\ LoopInv
  BY DEF MulticastInv
<1>2. TypeOK'
  BY <1>1 DEF TypeOK, head, SendLater, ringVars, attVars, mcVars, cullVars, netVars, recvVars
<1> QED BY <1>1, <1>2, RestKept DEF LoopInv, SendLater, ringVars, attVars, mcVars, netVars, recvVars

\* A receiver hangs.
LEMMA HangKeeps == ASSUME MulticastInv, NEW r \in Receivers, Hang(r) PROVE MulticastInv'
<1>1. TypeOK /\ LoopInv
  BY DEF MulticastInv
<1>2. TypeOK'
  BY <1>1 DEF TypeOK, head, Hang, senderVars, ringVars, attVars, mcVars, cullVars, loopVars, netVars
<1> QED BY <1>1, <1>2, RestKept DEF LoopInv, Hang, senderVars, ringVars, attVars, mcVars, loopVars, netVars

\* A connection breaks.
LEMMA BreakKeeps == ASSUME MulticastInv, NEW c \in Conns, Break(c) PROVE MulticastInv'
<1>1. TypeOK /\ LoopInv
  BY DEF MulticastInv
<1>2. TypeOK'
  BY <1>1 DEF TypeOK, head, Break, senderVars, ringVars, attVars, mcVars, cullVars, loopVars, recvVars
<1> QED BY <1>1, <1>2, RestKept DEF LoopInv, Break, senderVars, ringVars, attVars, mcVars, loopVars, recvVars

\* The numbers of a range that the bound on the log allows.
LEMMA RangeInSeqs ==
  ASSUME NEW a \in Nat, NEW b \in Nat, a <= b, b <= MaxSeq, MaxSeq \in Nat
  PROVE  SeqRange(a, b) \in Seq(Seqs)
<1>1. b - a \in Nat /\ \A i \in 1..b - a : a + i - 1 \in 0..MaxSeq
  OBVIOUS
<1> QED BY <1>1 DEF SeqRange, Seqs

\* The next datagram is composed, and the last one may have gone out.
LEMMA ComposeKeeps ==
  ASSUME MulticastInv, NEW q, q = readSeq[0] + (toSend.hi - toSend.lo),
         NEW k \in 0..MaxSendBatch, NEW due \in BOOLEAN, spc \in {"mcast", "more"},
         Compose(q, k, due), sent' = sent \/ (toSend # NoPacket /\ sent' = sent \cup {toSend})
  PROVE  MulticastInv'
<1>1. TypeOK /\ SenderInv /\ LoopInv /\ SessInv /\ AttachmentKept /\ \A c \in Conns : ConnInv(c)
  BY DEF MulticastInv
<1> DEFINE avail == IF started THEN Min({MaxSendBatch, head - q}) ELSE 0
           n == IF Live = {} THEN 0 ELSE k
           lo == toSend.lo
           hi == toSend.hi
<1>2. /\ k <= avail
      /\ readSeq' = [readSeq EXCEPT ![0] = IF Live = {} THEN q + avail ELSE q]
      /\ toSend' = [lo |-> IF n = 0 THEN 0 ELSE q, hi |-> IF n = 0 THEN 0 ELSE q + n,
                    alert |-> IF due /\ n = 0 THEN expectSeq ELSE -1]
      /\ expectSeq' = IF n = 0 THEN expectSeq ELSE q + n
      /\ toCleanup' = toCleanup \o Among(SeqRange(q, q + n), WithAttachment)
      /\ spc' = IF toSend' = NoPacket THEN "idle" ELSE "more"
      /\ UNCHANGED <<log, released, cullVars, todo, cur, tx, up, down, cut, recvVars>>
  BY DEF Compose, AlertAfter
<1>3. /\ head \in Nat /\ readSeq[0] \in Nat /\ readSeq[1] \in Nat /\ MaxSeq \in Nat /\ head <= MaxSeq
      /\ readSeq[1] <= readSeq[0] /\ head <= readSeq[1] + Cap /\ Cap \in Nat
      /\ lo \in Nat /\ hi \in Nat /\ expectSeq \in Nat /\ lo <= hi
  BY <1>1, Counters DEF SenderInv
<1>4. /\ q <= head /\ expectSeq <= q
      /\ lo < hi => lo = readSeq[0] /\ toSend.alert = -1
      /\ lo = hi => lo = 0
      /\ toSend.alert <= readSeq[0]
  BY <1>1 DEF SenderInv
<1>5. q \in Nat /\ readSeq[0] <= q
  BY <1>3
<1>6. avail \in Nat /\ q + avail <= head
  <2>1. CASE ~ started
    BY <1>3, <1>4, <1>5, <2>1
  <2>2. CASE started
    <3> DEFINE T == {MaxSendBatch, head - q}
    <3>1. MaxSendBatch \in Nat /\ head - q \in Nat
      BY <1>3, <1>4, <1>5, MulticastAssumption
    <3>2. T \in SUBSET Nat /\ T # {} /\ head - q \in T
      BY <3>1
    <3> HIDE DEF T
    <3>3. Min(T) \in Nat /\ Min(T) <= head - q
      BY <3>2, MinLeast
    <3>4. avail = Min(T)
      BY <2>2 DEF T
    <3> HIDE DEF avail
    <3> QED BY <1>3, <1>5, <3>3, <3>4
  <2> QED BY <2>1, <2>2
<1> HIDE DEF avail
<1>7. n \in Nat /\ q + n <= head
  <2>1. k \in Nat /\ k <= avail
    BY <1>2, MulticastAssumption
  <2>2. n = 0 \/ n = k
    OBVIOUS
  <2>3. q + avail <= head /\ q <= head /\ avail \in Nat /\ q \in Nat /\ head \in Nat
    BY <1>3, <1>4, <1>5, <1>6
  <2> HIDE DEF n
  <2> QED BY <2>1, <2>2, <2>3
<1>8. /\ readSeq'[0] = (IF Live = {} THEN q + avail ELSE q) /\ readSeq'[1] = readSeq[1]
      /\ readSeq' \in [0..1 -> Seqs]
  <2>1. (IF Live = {} THEN q + avail ELSE q) \in Seqs
    BY <1>3, <1>4, <1>5, <1>6 DEF Seqs
  <2>2. readSeq \in [0..1 -> Seqs]
    BY <1>1 DEF TypeOK
  <2> QED BY <1>2, <2>1, <2>2
<1>9. readSeq'[0] \in Nat /\ q <= readSeq'[0] /\ readSeq'[0] <= head /\ (n # 0 => readSeq'[0] = q)
  BY <1>3, <1>4, <1>5, <1>6, <1>8
<1> HIDE DEF n
<1>10. TypeOK'
  <2>1. toSend' \in Packets /\ expectSeq' \in Seqs
    <3>1. expectSeq \in Seqs
      BY <1>1 DEF TypeOK
    <3>2. q \in Seqs /\ q + n \in Seqs /\ 0 \in Seqs
      BY <1>3, <1>5, <1>7 DEF Seqs
    <3> QED BY <1>2, <3>1, <3>2 DEF Packets
  <2>2. toCleanup' \in Seq(Seqs)
    <3>1. SeqRange(q, q + n) \in Seq(Seqs)
      BY <1>3, <1>5, <1>7, RangeInSeqs
    <3>2. Among(SeqRange(q, q + n), WithAttachment) \in Seq(Seqs)
      BY <3>1, AmongType
    <3>3. toCleanup \in Seq(Seqs)
      BY <1>1 DEF TypeOK
    <3> QED BY <1>2, <3>2, <3>3, ConcatProperties
  <2>3. sent' \subseteq Packets /\ spc' \in {"idle", "serve", "mcast", "more"}
    BY <1>1, <1>2 DEF TypeOK
  <2> QED BY <1>1, <1>2, <1>8, <2>1, <2>2, <2>3 DEF TypeOK, head, cullVars, recvVars
<1>11. SenderInv'
  <2>1. head' = head /\ held' = held
    BY <1>2 DEF head, recvVars
  <2>2. /\ readSeq'[1] <= readSeq'[0] /\ head' <= readSeq'[1] + Cap
    BY <1>3, <1>5, <1>8, <1>9, <2>1
  <2>3. /\ toSend'.lo <= toSend'.hi /\ toSend'.alert <= readSeq'[0]
        /\ toSend'.lo < toSend'.hi => toSend'.lo = readSeq'[0] /\ toSend'.alert = -1
        /\ toSend'.lo = toSend'.hi => toSend'.lo = 0
        /\ readSeq'[0] + (toSend'.hi - toSend'.lo) <= head'
        /\ expectSeq' <= readSeq'[0] + (toSend'.hi - toSend'.lo)
    <3>1. CASE n = 0
      BY <1>2, <1>3, <1>4, <1>5, <1>9, <2>1, <3>1
    <3>2. CASE n # 0
      <4>1. toSend'.lo = q /\ toSend'.hi = q + n /\ toSend'.alert = -1 /\ expectSeq' = q + n
        BY <1>2, <3>2
      <4>2. readSeq'[0] = q /\ q \in Nat /\ n \in Nat /\ q + n <= head /\ head' = head
        BY <1>5, <1>7, <1>9, <2>1, <3>2
      <4>3. (q + n) - q = n /\ q < q + n /\ -1 <= q
        BY <3>2, <4>2
      <4> QED BY <4>1, <4>2, <4>3
    <3> QED BY <3>1, <3>2
  <2>4. ASSUME NEW p \in sent'
        PROVE  p.alert <= readSeq'[0] /\ p.hi <= readSeq'[0] /\ (p.alert = -1 => p.lo < p.hi)
    <3>1. CASE p \in sent
      <4>1. p.alert <= readSeq[0] /\ p.hi <= readSeq[0] /\ (p.alert = -1 => p.lo < p.hi)
        BY <1>1, <3>1 DEF SenderInv
      <4>2. p \in Packets
        BY <1>1, <3>1 DEF TypeOK
      <4>3. p.alert \in Nat \cup {-1} /\ p.hi \in Nat
        BY <1>3, <4>2 DEF Packets, Seqs
      <4> QED BY <1>3, <1>5, <1>9, <4>1, <4>3
    <3>2. CASE p = toSend /\ toSend # NoPacket
      <4>1. toSend \in Packets
        BY <1>1 DEF TypeOK
      <4>2. toSend.alert = -1 => ~ (lo = 0 /\ hi = 0)
        BY <3>2, <4>1 DEF NoPacket, Packets
      <4>3. toSend.alert \in Nat \cup {-1}
        BY <1>3, <4>1 DEF Packets, Seqs
      <4>4. toSend.alert = -1 => lo < hi
        BY <1>3, <1>4, <4>2
      <4>5. hi <= readSeq'[0]
        BY <1>3, <1>4, <1>5, <1>9
      <4>6. toSend.alert <= readSeq'[0]
        BY <1>3, <1>4, <1>5, <1>9, <4>3
      <4> QED BY <3>2, <4>4, <4>5, <4>6
    <3> QED BY <3>1, <3>2
  <2>5. \A r \in Receivers : held'[r] \in sent' \cup {NoPacket}
    BY <1>1, <2>1 DEF SenderInv
  <2> QED BY <2>2, <2>3, <2>4, <2>5 DEF SenderInv
<1>12. LoopInv'
  <2>1. todo = {} /\ cur = 0
    BY <1>1 DEF LoopInv
  <2> QED BY <1>2, <2>1 DEF LoopInv
<1>13. SessInv'
  BY <1>1, <1>2 DEF SessInv, recvVars
<1>14. AttachmentKept'
  <2>1. ASSUME NEW s \in released PROVE s < readSeq'[0] /\ s < readSeq'[1]
    <3>1. s \in Nat
      BY <1>1, <1>3 DEF TypeOK, Seqs
    <3>2. s < readSeq[0] /\ s < readSeq[1]
      BY <1>1 DEF AttachmentKept
    <3> QED BY <1>3, <1>5, <1>8, <1>9, <3>1, <3>2
  <2> QED BY <1>1, <1>2, <2>1 DEF AttachmentKept, Live
<1>15. ASSUME NEW c \in Conns PROVE ConnInv(c)'
  <2>1. tx'[c] = tx[c] /\ rx'[c] = rx[c] /\ up'[c] = up[c] /\ down'[c] = down[c]
    BY <1>2 DEF recvVars
  <2>2. LogGrows
    BY <1>1, <1>2, LogGrowsStep
  <2>3. ConnInv(c) /\ (tx[c].st = "live" => readSeq'[1] <= tx[c].next)
    BY <1>1, <1>8 DEF ConnInv, AskedInv
  <2>4. readSeq'[0] \in Nat /\ readSeq[0] <= readSeq'[0] /\ readSeq'[1] \in Nat
    BY <1>3, <1>5, <1>8, <1>9
  <2> QED BY <1>1, <2>1, <2>2, <2>3, <2>4, ConnKept
<1> QED BY <1>10, <1>11, <1>12, <1>13, <1>14, <1>15 DEF MulticastInv

\* The multicast goes on, or waits for its socket.
LEMMA ResumeSendKeeps == ASSUME MulticastInv, resumeSend PROVE MulticastInv'
<1>1. ASSUME NEW k \in 0..MaxSendBatch, NEW due \in BOOLEAN, ComposeFirst(k, due) PROVE MulticastInv'
  <2>1. spc = "mcast" /\ toSend = NoPacket /\ Compose(readSeq[0], k, due) /\ sent' = sent
    BY <1>1 DEF ComposeFirst
  <2>2. readSeq[0] = readSeq[0] + (toSend.hi - toSend.lo)
    <3>1. readSeq[0] \in Nat
      BY Counters DEF MulticastInv
    <3> QED BY <2>1, <3>1 DEF NoPacket
  <2> QED BY <2>1, <2>2, ComposeKeeps
<1>2. ASSUME NEW k \in 0..MaxSendBatch, NEW due \in BOOLEAN, Transmit(k, due) PROVE MulticastInv'
  BY <1>2, ComposeKeeps DEF Transmit
<1> QED BY <1>1, <1>2, SendLaterKeeps DEF resumeSend

\* The backup cursor follows the slowest session, and attachments behind it are given back.
LEMMA TrailKeeps == ASSUME MulticastInv, Trail PROVE MulticastInv'
<1>1. TypeOK /\ SenderInv /\ LoopInv /\ SessInv /\ AttachmentKept /\ \A c \in Conns : ConnInv(c)
  BY DEF MulticastInv
<1> DEFINE nexts == {readSeq[0]} \cup {tx[c].next : c \in Live}
           least == Min(nexts)
           newSeq == IF ReplayHistory < least THEN least - ReplayHistory ELSE 0
           done == Cleanable(newSeq)
<1>2. /\ todo = {} /\ cur = 0
      /\ released' = released \cup {toCleanup[i] : i \in done}
      /\ toCleanup' = Rest(toCleanup, Cardinality(done))
      /\ readSeq' = [readSeq EXCEPT ![1] = Max({readSeq[1], newSeq})]
      /\ spc' = "mcast"
      /\ UNCHANGED <<log, mcVars, cullVars, todo, cur, tx, netVars, recvVars>>
  BY DEF Trail
<1>3. /\ head \in Nat /\ readSeq[0] \in Nat /\ readSeq[1] \in Nat /\ MaxSeq \in Nat /\ head <= MaxSeq
      /\ readSeq[1] <= readSeq[0] /\ readSeq[0] <= head /\ head <= readSeq[1] + Cap /\ Cap \in Nat
      /\ ReplayHistory \in Nat
  BY <1>1, Counters, MulticastAssumption
<1>4. ASSUME NEW c \in Live PROVE tx[c].next \in Nat /\ readSeq[1] <= tx[c].next
  <2>1. c \in Conns /\ tx[c].st = "live" /\ AskedInv(c)
    BY <1>1 DEF Live, ConnInv
  <2> QED BY <1>1, <2>1, ConnTypes DEF AskedInv
<1>5. least \in Nat /\ least <= readSeq[0] /\ \A c \in Live : least <= tx[c].next
  <2>1. nexts \in SUBSET Nat /\ readSeq[0] \in nexts
    BY <1>3, <1>4
  <2>2. least \in nexts /\ \A m \in nexts : least <= m
    <3> HIDE DEF nexts
    <3> QED BY <2>1, MinLeast
  <2> HIDE DEF least
  <2> QED BY <2>1, <2>2
<1> HIDE DEF least, nexts
<1>6. newSeq \in Nat /\ newSeq <= least
  BY <1>3, <1>5
<1> HIDE DEF newSeq
<1>7. /\ readSeq'[0] = readSeq[0] /\ readSeq'[1] \in {readSeq[1], newSeq}
      /\ readSeq[1] <= readSeq'[1] /\ newSeq <= readSeq'[1] /\ readSeq' \in [0..1 -> Seqs]
  <2> DEFINE b == Max({readSeq[1], newSeq})
  <2>1. readSeq[1] \in Int /\ newSeq \in Int
    BY <1>3, <1>6
  <2>2. b \in {readSeq[1], newSeq} /\ readSeq[1] <= b /\ newSeq <= b
    BY <2>1, MaxOfTwo
  <2>3. readSeq' = [readSeq EXCEPT ![1] = b]
    BY <1>2
  <2> HIDE DEF b
  <2>4. b \in Seqs
    BY <1>3, <1>5, <1>6, <2>2 DEF Seqs
  <2>5. readSeq \in [0..1 -> Seqs]
    BY <1>1 DEF TypeOK
  <2> QED BY <2>2, <2>3, <2>4, <2>5
<1>8. readSeq'[1] \in Nat /\ readSeq'[1] <= readSeq'[0]
  BY <1>3, <1>5, <1>6, <1>7
<1>9. done \subseteq 1..Len(toCleanup) /\ \A i \in done : toCleanup[i] \in Seqs /\ toCleanup[i] < newSeq
  <2>1. toCleanup \in Seq(Seqs)
    BY <1>1 DEF TypeOK
  <2> QED BY <2>1, ElementOfSeq DEF Cleanable
<1>10. Cardinality(done) \in 0..Len(toCleanup)
  <2>1. Len(toCleanup) \in Nat
    BY <1>1 DEF TypeOK
  <2>2. IsFiniteSet(1..Len(toCleanup)) /\ Cardinality(1..Len(toCleanup)) = Len(toCleanup)
    <3> DEFINE l == Len(toCleanup)
    <3>1. l \in Int /\ 1 \in Int /\ l \in Nat
      BY <2>1
    <3> HIDE DEF l
    <3>2. IsFiniteSet(1..l) /\ Cardinality(1..l) = IF 1 > l THEN 0 ELSE l - 1 + 1
      BY <3>1, FS_Interval
    <3>3. Cardinality(1..l) = l
      BY <3>1, <3>2
    <3> QED BY <3>2, <3>3 DEF l
  <2> HIDE DEF done
  <2>3. Cardinality(done) \in Nat /\ Cardinality(done) <= Len(toCleanup)
    BY <1>9, <2>2, FS_Subset, FS_CardinalityType
  <2> QED BY <2>1, <2>3
<1> HIDE DEF done
<1>11. TypeOK'
  <2>1. toCleanup \in Seq(Seqs)
    BY <1>1 DEF TypeOK
  <2>2. toCleanup' \in Seq(Seqs)
    BY <1>2, <1>10, <2>1, RestProperties
  <2>3. released' \subseteq Seqs
    BY <1>1, <1>2, <1>9 DEF TypeOK
  <2> QED BY <1>1, <1>2, <1>7, <2>2, <2>3 DEF TypeOK, head, mcVars, cullVars, netVars, recvVars
<1>12. SenderInv'
  <2>1. head' = head /\ head' <= readSeq'[1] + Cap
    BY <1>2, <1>3, <1>7, <1>8 DEF head
  <2> QED BY <1>1, <1>2, <1>7, <1>8, <2>1 DEF SenderInv, mcVars, netVars, recvVars
<1>13. LoopInv' /\ SessInv'
  BY <1>1, <1>2 DEF LoopInv, SessInv, recvVars
<1>14. AttachmentKept'
  <2> SUFFICES ASSUME NEW s \in released'
               PROVE  s < readSeq'[0] /\ s < readSeq'[1] /\ \A c \in Live : s < tx[c].next
    BY <1>2 DEF AttachmentKept, Live
  <2>1. CASE s \in released
    <3>1. s \in Nat /\ s < readSeq[0] /\ s < readSeq[1] /\ \A c \in Live : s < tx[c].next
      BY <1>1, <1>3, <2>1 DEF AttachmentKept, TypeOK, Seqs
    <3> QED BY <1>3, <1>7, <1>8, <3>1
  <2>2. CASE s \notin released
    <3>1. PICK i \in done : s = toCleanup[i]
      BY <1>2, <2>2
    <3>2. s \in Nat /\ s < newSeq
      BY <1>3, <1>9, <3>1 DEF Seqs
    <3>3. s < readSeq'[1] /\ s < readSeq'[0]
      BY <1>3, <1>6, <1>7, <1>8, <3>2
    <3>4. ASSUME NEW c \in Live PROVE s < tx[c].next
      <4>1. tx[c].next \in Nat /\ least <= tx[c].next
        BY <1>4, <1>5
      <4> QED BY <1>5, <1>6, <3>2, <4>1
    <3> QED BY <3>3, <3>4
  <2> QED BY <2>1, <2>2
<1>15. ASSUME NEW c \in Conns PROVE ConnInv(c)'
  <2>1. tx'[c] = tx[c] /\ rx'[c] = rx[c] /\ up'[c] = up[c] /\ down'[c] = down[c]
    BY <1>2 DEF netVars, recvVars
  <2>2. LogGrows
    BY <1>1, <1>2, LogGrowsStep
  <2>3. tx[c].st = "live" => readSeq'[1] <= tx[c].next
    <3> SUFFICES ASSUME tx[c].st = "live" PROVE readSeq'[1] <= tx[c].next
      OBVIOUS
    <3>1. c \in Live
      BY DEF Live
    <3>2. tx[c].next \in Nat /\ readSeq[1] <= tx[c].next /\ least <= tx[c].next
      BY <1>4, <1>5, <3>1
    <3> QED BY <1>3, <1>5, <1>6, <1>7, <3>2
  <2>4. readSeq'[0] \in Nat /\ readSeq[0] <= readSeq'[0] /\ readSeq'[1] \in Nat
    BY <1>3, <1>7, <1>8
  <2> QED BY <1>1, <2>1, <2>2, <2>3, <2>4, ConnKept
<1> QED BY <1>11, <1>12, <1>13, <1>14, <1>15 DEF MulticastInv

-----------------------------------------------------------------------------
(***************************************************************************)
(* Steps of the sending engine on one connection.                          *)
(***************************************************************************)
\* What is left to show of a step on connection c.
LEMMA OneConn ==
  ASSUME MulticastInv, NEW c \in Conns, OnlyConn(c), ConnInv(c)', TypeOK', SenderInv', LoopInv', SessInv',
         released' = released,
         tx'[c].st = "live" =>
             tx'[c].next = readSeq[1] \/ (tx[c].st = "live" /\ tx[c].next <= tx'[c].next)
  PROVE  MulticastInv'
<1>1. TypeOK /\ SenderInv /\ AttachmentKept /\ \A d \in Conns : ConnInv(d)
  BY DEF MulticastInv
<1>2. \A d \in Conns : ConnInv(d)'
  BY <1>1, OthersKept
<1>3. ASSUME NEW d \in Conns, tx'[d].st = "live"
      PROVE  tx'[d].next = readSeq[1] \/ (tx[d].st = "live" /\ tx[d].next <= tx'[d].next)
  <2>1. CASE d # c
    <3>1. tx'[d] = tx[d] /\ tx[d].next \in Nat
      BY <1>1, <2>1, ConnTypes DEF OnlyConn, Untouched
    <3> QED BY <1>3, <3>1
  <2> QED BY <1>3, <2>1
<1>4. AttachmentKept'
  BY <1>1, <1>3, AttachmentsStay DEF OnlyConn
<1> QED BY <1>2, <1>4 DEF MulticastInv

\* A session that ends leaves nothing behind on the sender's side.
LEMMA Closed ==
  ASSUME MulticastInv, NEW c \in Live, Close(c), spc' = spc, cur' \in {0, cur} \ {c}, todo' = todo \ {c},
         waitForSlow' = waitForSlow, started' = started, lastBackupSeq' \in Seqs \cup {SEQ_MAX},
         UNCHANGED <<ringVars, attVars, mcVars, down, sent, recvVars>>
  PROVE  MulticastInv'
<1>1. /\ TypeOK /\ SenderInv /\ LoopInv /\ SessInv /\ c \in Conns /\ tx[c].st = "live" /\ ConnInv(c)
      /\ 0 \notin Conns
  BY MulticastAssumption DEF MulticastInv, Live
<1> DEFINE t == [NoTx EXCEPT !.st = "gone"]
<1>2. tx' = [tx EXCEPT ![c] = t] /\ cut' = [cut EXCEPT ![c] = TRUE] /\ up' = [up EXCEPT ![c] = <<>>]
  BY DEF Close
<1>3. t \in TxStates /\ t.st = "gone" /\ t.reqs = <<>>
  <2>1. 0 \in Seqs
    BY MulticastAssumption DEF Seqs
  <2>2. NoTx \in TxStates /\ NoTx.reqs = <<>>
    BY <2>1 DEF NoTx, TxStates
  <2> QED BY <2>2 DEF TxStates
<1>4. tx \in [Conns -> TxStates] /\ up \in [Conns -> Seq(Requests)]
  BY <1>1 DEF TypeOK
<1>5. tx'[c] = t /\ up'[c] = <<>> /\ \A d \in Conns \ {c} : tx'[d] = tx[d] /\ up'[d] = up[d]
  BY <1>1, <1>2, <1>4
<1>6. OnlyConn(c)
  BY <1>5 DEF OnlyConn, Untouched, ringVars, recvVars
<1>7. TypeOK'
  <2>1. tx' \in [Conns -> TxStates] /\ up' \in [Conns -> Seq(Requests)] /\ cut' \in [Conns -> BOOLEAN]
    BY <1>1, <1>2, <1>3, <1>4 DEF TypeOK
  <2>2. \A d \in Conns : Len(tx'[d].reqs) <= Cap
    <3>1. Len(t.reqs) = 0 /\ 0 <= Cap
      BY <1>3, MulticastAssumption
    <3>2. \A d \in Conns : Len(tx[d].reqs) <= Cap
      BY <1>1 DEF TypeOK
    <3> HIDE DEF t
    <3> QED BY <1>5, <3>1, <3>2
  <2>3. todo' \subseteq Conns /\ cur' \in Conns \cup {0}
    BY <1>1 DEF TypeOK
  <2> QED BY <1>1, <2>1, <2>2, <2>3 DEF TypeOK, head, ringVars, attVars, mcVars, recvVars
<1>8. SenderInv'
  BY <1>1, SenderKept DEF ringVars, mcVars, recvVars
<1>9. LoopInv'
  <2>1. \A d \in Live \ {c} : d \in Live'
    BY <1>5 DEF Live
  <2>2. todo' \subseteq Live' /\ (spc' # "serve" => todo' = {})
    BY <1>1, <2>1 DEF LoopInv
  <2>3. cur' # 0 => cur' \in todo' /\ (tx'[cur'].reqs # <<>> \/ tx'[cur'].relic # <<>>)
    <3> SUFFICES ASSUME cur' # 0 PROVE cur' \in todo' /\ (tx'[cur'].reqs # <<>> \/ tx'[cur'].relic # <<>>)
      OBVIOUS
    <3>1. cur' = cur /\ cur # c /\ cur # 0
      OBVIOUS
    <3>2. cur \in todo /\ (tx[cur].reqs # <<>> \/ tx[cur].relic # <<>>) /\ cur \in Conns
      BY <1>1, <3>1 DEF LoopInv, TypeOK
    <3> QED BY <1>5, <3>1, <3>2
  <2> QED BY <2>2, <2>3 DEF LoopInv
<1>10. SessInv'
  BY <1>1 DEF SessInv, recvVars
<1>11. ConnInv(c)'
  <2>1. StageInv(c)'
    <3>1. StageInv(c)
      BY <1>1 DEF ConnInv
    <3>2. rx'[c] = rx[c] /\ down'[c] = down[c] /\ rx[c].st # "none"
      BY <1>1, <3>1 DEF StageInv, recvVars
    <3>3. t = [NoTx EXCEPT !.st = t.st]
      BY <1>3 DEF NoTx
    <3> HIDE DEF t
    <3> QED BY <1>3, <1>5, <3>1, <3>2, <3>3 DEF StageInv
  <2>2. AskedInv(c)' /\ LinkInv(c)'
    BY <1>3, <1>5 DEF AskedInv, LinkInv
  <2>3. StartInv(c)'
    <3>1. StartInv(c) /\ rx' = rx /\ down' = down /\ readSeq' = readSeq
      BY <1>1 DEF ConnInv, ringVars, recvVars
    <3>2. tx'[c].st # "live"
      BY <1>3, <1>5
    <3> QED BY <3>1, <3>2 DEF StartInv
  <2>4. StreamInv(c)'
    <3>1. LogGrows
      BY <1>1, LogGrowsStep DEF ringVars
    <3>2. readSeq'[0] \in Nat /\ readSeq[0] <= readSeq'[0]
      BY <1>1, Counters DEF ringVars
    <3>3. rx'[c] = rx[c] /\ down'[c] = down[c] /\ StreamInv(c)
      BY <1>1 DEF ConnInv, recvVars
    <3> QED BY <1>1, <3>1, <3>2, <3>3, StreamKept
  <2> QED BY <2>1, <2>2, <2>3, <2>4 DEF ConnInv
<1>12. released' = released
  BY DEF attVars
<1>13. tx'[c].st # "live"
  BY <1>3, <1>5
<1> QED BY <1>1, <1>6, <1>7, <1>8, <1>9, <1>10, <1>11, <1>12, <1>13, OneConn

\* The slowest session is dropped, or not.
LEMMA CullKeeps == ASSUME MulticastInv, cullSlow PROVE MulticastInv'
<1>1. TypeOK /\ LoopInv
  BY DEF MulticastInv
<1>2. /\ spc = "idle" /\ lastBackupSeq' = readSeq[1] /\ todo = {} /\ cur = 0
      /\ UNCHANGED <<ringVars, attVars, mcVars, waitForSlow, started, loopVars, down, sent, recvVars>>
  BY <1>1 DEF cullSlow, LoopInv
<1>3. lastBackupSeq' \in Seqs \cup {SEQ_MAX}
  BY <1>1, <1>2 DEF TypeOK
<1>4. CASE TooSlow /\ Live # {}
  <2>1. PICK c \in Live : killSlowestSession(c)
    BY <1>4 DEF cullSlow
  <2>2. c # 0
    BY MulticastAssumption DEF Live
  <2> QED BY <1>2, <1>3, <2>1, <2>2, Closed DEF killSlowestSession, loopVars
<1>5. CASE ~ (TooSlow /\ Live # {})
  <2>1. UNCHANGED <<tx, cut, up>>
    BY <1>5 DEF cullSlow
  <2>2. TypeOK'
    BY <1>1, <1>2, <1>3, <2>1 DEF TypeOK, head, ringVars, attVars, mcVars, loopVars, recvVars
  <2> QED BY <1>2, <2>1, <2>2, RestKept DEF ringVars, attVars, mcVars, loopVars, recvVars
<1> QED BY <1>4, <1>5

\* A session whose peer is gone is dropped.
LEMMA DropKeeps == ASSUME MulticastInv, NEW c \in Conns, Drop(c) PROVE MulticastInv'
<1>1. TypeOK /\ LoopInv /\ c # 0
  BY MulticastAssumption DEF MulticastInv
<1>2. /\ cur \in {0, c} /\ c \in todo /\ Close(c) /\ cur' = 0 /\ todo' = todo \ {c}
      /\ UNCHANGED <<ringVars, attVars, mcVars, cullVars, spc, down, sent, recvVars>>
  BY DEF Drop
<1>3. c \in Live /\ lastBackupSeq' \in Seqs \cup {SEQ_MAX}
  BY <1>1, <1>2 DEF LoopInv, TypeOK, cullVars
<1> QED BY <1>1, <1>2, <1>3, Closed DEF cullVars

\* What is left to show when a session has served its receiver.
LEMMA Served ==
  ASSUME MulticastInv, NEW c \in Conns, NEW t \in TxStates, t.st = "live", Len(t.reqs) <= Cap,
         c \in todo, cur \in {0, c}, spc = "serve", spc' = spc, GoOn(c, t) \/ Return(c, t),
         NEW u \in Seq(Requests), up' = [up EXCEPT ![c] = u],
         NEW w \in Seq(Writes), down' = [down EXCEPT ![c] = w],
         UNCHANGED <<ringVars, attVars, mcVars, cullVars, cut, sent, recvVars>>,
         tx[c].next <= t.next, ConnInv(c)'
  PROVE  MulticastInv'
<1>1. TypeOK /\ SenderInv /\ LoopInv /\ SessInv /\ c # 0
  BY MulticastAssumption DEF MulticastInv
<1>2. /\ tx' = [tx EXCEPT ![c] = t] /\ todo' \in {todo, todo \ {c}} /\ cur' \in {0, c}
      /\ cur' = c => todo' = todo /\ (t.reqs # <<>> \/ t.relic # <<>>)
  BY <1>1 DEF GoOn, Return
<1>3. tx \in [Conns -> TxStates] /\ up \in [Conns -> Seq(Requests)] /\ down \in [Conns -> Seq(Writes)]
  BY <1>1 DEF TypeOK
<1>4. /\ tx'[c] = t
      /\ \A d \in Conns \ {c} : tx'[d] = tx[d] /\ up'[d] = up[d] /\ down'[d] = down[d]
  BY <1>2, <1>3
<1>5. OnlyConn(c)
  BY <1>4 DEF OnlyConn, Untouched, ringVars, recvVars
<1>6. TypeOK'
  <2>1. tx' \in [Conns -> TxStates] /\ up' \in [Conns -> Seq(Requests)] /\ down' \in [Conns -> Seq(Writes)]
    BY <1>2, <1>3
  <2>2. \A d \in Conns : Len(tx'[d].reqs) <= Cap
    <3>1. \A d \in Conns : Len(tx[d].reqs) <= Cap
      BY <1>1 DEF TypeOK
    <3> QED BY <1>4, <3>1
  <2>3. todo' \subseteq Conns /\ cur' \in Conns \cup {0}
    BY <1>1, <1>2 DEF TypeOK
  <2> QED BY <1>1, <2>1, <2>2, <2>3
          DEF TypeOK, head, ringVars, attVars, mcVars, cullVars, recvVars
<1>7. SenderInv' /\ SessInv' /\ released' = released
  BY <1>1, SenderKept DEF SessInv, ringVars, attVars, mcVars, recvVars
<1>8. LoopInv'
  <2>1. \A d \in Live : d \in Live'
    BY <1>4 DEF Live
  <2>2. todo' \subseteq Live'
    BY <1>1, <1>2, <2>1 DEF LoopInv
  <2>3. cur' # 0 => cur' \in todo' /\ (tx'[cur'].reqs # <<>> \/ tx'[cur'].relic # <<>>)
    <3> SUFFICES ASSUME cur' # 0 PROVE cur' \in todo' /\ (tx'[cur'].reqs # <<>> \/ tx'[cur'].relic # <<>>)
      OBVIOUS
    <3>1. cur' = c
      BY <1>2
    <3> QED BY <1>2, <1>4, <3>1
  <2> QED BY <2>2, <2>3 DEF LoopInv
<1>9. c \in Live /\ tx[c].st = "live"
  BY <1>1 DEF LoopInv, Live
<1> QED BY <1>4, <1>5, <1>6, <1>7, <1>8, <1>9, OneConn

\* Requests are read from the connection.
LEMMA ReadKeeps ==
  ASSUME MulticastInv, NEW c \in Conns, NEW n \in 0..Len(up[c]), doRead(c, n) PROVE MulticastInv'
<1>1. TypeOK /\ SenderInv /\ LoopInv /\ ConnInv(c) /\ Cap \in Nat \ {0}
  BY MulticastAssumption DEF MulticastInv
<1> DEFINE q == tx[c].reqs
           u == up[c]
           got == Prefix(u, n)
           w == Push(q, Among(got, Reports))
           subs == IF \E i \in 1..n : got[i].op = "+" THEN Subs[c] ELSE tx[c].subs
           t == [tx[c] EXCEPT !.subs = subs, !.reqs = w]
           rest == Rest(u, n)
           ask == asked(c)
<1>2. /\ spc = "serve" /\ cur = 0 /\ c \in todo
      /\ up' = [up EXCEPT ![c] = rest] /\ GoOn(c, t)
      /\ UNCHANGED <<ringVars, attVars, mcVars, cullVars, spc, down, cut, sent, recvVars>>
  BY DEF doRead
<1>3. tx[c].st = "live"
  BY <1>1, <1>2 DEF LoopInv, Live
<1>4. /\ q \in Seq(Requests) /\ u \in Seq(Requests) /\ ask \in Seq(Requests) /\ ask = q \o u
      /\ Len(q) \in Nat /\ Len(u) \in Nat /\ Len(ask) = Len(q) + Len(u)
      /\ \A i \in 1..Len(q) : ask[i] = q[i]
      /\ \A i \in 1..Len(u) : ask[Len(q) + i] = u[i]
      /\ \A i \in 1..Len(ask) : ask[i] \in Requests
  <2>1. ask = q \o u
    BY DEF asked
  <2> HIDE DEF ask
  <2>2. /\ q \in Seq(Requests) /\ u \in Seq(Requests)
        /\ ask \in Seq(Requests) /\ Len(ask) = Len(q) + Len(u)
        /\ \A i \in 1..Len(q) : ask[i] = q[i]
        /\ \A i \in 1..Len(u) : ask[Len(q) + i] = u[i]
        /\ \A i \in 1..Len(ask) : ask[i] \in Requests
    BY <1>1, AskedSeq DEF ask
  <2> HIDE DEF q, u
  <2>3. Len(q) \in Nat /\ Len(u) \in Nat
    BY <2>2
  <2> QED BY <2>1, <2>2, <2>3
<1>5. \A i \in 1..Len(ask) : ask[i].op # "=" => i = 1 /\ q = <<>> /\ ask[i] = Subscribe
  BY <1>1, <1>3, <1>4 DEF ConnInv, AskedInv, Requests
<1> HIDE DEF ask, q, u
<1>6. \A i \in 1..Len(q) : q[i].op = "="
  <2> SUFFICES ASSUME NEW i \in 1..Len(q) PROVE q[i].op = "="
    OBVIOUS
  <2>1. i \in 1..Len(ask) /\ ask[i] = q[i] /\ q # <<>>
    BY <1>4
  <2> QED BY <1>5, <2>1
<1>7. \A i \in 1..Len(u) : u[i].op # "=" => i = 1 /\ q = <<>> /\ u[i] = Subscribe
  <2> SUFFICES ASSUME NEW i \in 1..Len(u), u[i].op # "=" PROVE i = 1 /\ q = <<>> /\ u[i] = Subscribe
    OBVIOUS
  <2>1. Len(q) + i \in 1..Len(ask) /\ ask[Len(q) + i] = u[i]
    BY <1>4
  <2>2. Len(q) + i = 1 /\ q = <<>> /\ u[i] = Subscribe
    BY <1>5, <2>1
  <2> QED BY <1>4, <2>2
<1>8. w \in Seq(Requests) /\ Len(w) <= Cap /\ OnlyReports(w) /\ Oldest(q, u, n, w)
  <2>1. n \in 0..Len(u) /\ q \in Seq(Requests) /\ u \in Seq(Requests)
    BY <1>4 DEF u
  <2>2. OnlyReports(q) /\ ReportsAfter(q, u)
    BY <1>6, <1>7 DEF OnlyReports, ReportsAfter
  <2>3. w = Push(q, Among(Prefix(u, n), Reports))
    OBVIOUS
  <2>4. Cap \in Nat \ {0}
    BY <1>1
  <2> HIDE DEF w, got, rest
  <2> QED BY <2>1, <2>2, <2>3, <2>4, ReadAsked
<1>9. PICK k \in 0..Len(ask) :
            /\ w \o rest = Rest(ask, k)
            /\ k = Len(ask) => k = 0 \/ (k = 1 /\ n > 0 /\ u[1].op # "=")
            /\ n > 0 /\ u[1].op # "=" => k > 0
  BY <1>4, <1>8 DEF Oldest
<1>10. rest \in Seq(Requests) /\ Len(rest) = Len(u) - n /\ \A i \in 1..Len(u) - n : rest[i] = u[n + i]
  <2>1. n \in 0..Len(u) /\ u \in Seq(Requests)
    BY <1>4 DEF u
  <2> QED BY <2>1, RestProperties
<1>11. /\ Rest(ask, k) \in Seq(Requests) /\ Len(Rest(ask, k)) = Len(ask) - k
       /\ \A i \in 1..Len(ask) - k : Rest(ask, k)[i] = ask[k + i]
  <2>1. ask \in Seq(Requests)
    BY <1>4
  <2> HIDE DEF ask
  <2> QED BY <2>1, RestProperties
<1> HIDE DEF w, rest
<1>12. /\ Len(w \o rest) = Len(w) + Len(rest) /\ Len(w) \in Nat /\ Len(rest) \in Nat
       /\ \A i \in 1..Len(w) : (w \o rest)[i] = w[i]
  <2>1. w \in Seq(Requests) /\ rest \in Seq(Requests)
    BY <1>8, <1>10
  <2>2. /\ Len(w \o rest) = Len(w) + Len(rest)
        /\ \A i \in 1..Len(w) + Len(rest) : (w \o rest)[i] = IF i <= Len(w) THEN w[i] ELSE rest[i - Len(w)]
    BY <2>1, ConcatProperties
  <2>3. Len(w) \in Nat /\ Len(rest) \in Nat
    BY <2>1
  <2> QED BY <2>2, <2>3
<1>13. tx[c] \in TxStates /\ t \in TxStates /\ t.st = "live" /\ t.reqs = w /\ t.subs = subs
       /\ t.next = tx[c].next /\ t.relic = tx[c].relic /\ t.after = tx[c].after
  <2>1. tx[c] \in TxStates
    BY <1>1, ConnTypes
  <2>2. subs \in SUBSET Tags
    BY <2>1, MulticastAssumption DEF TxStates
  <2> HIDE DEF subs
  <2> QED BY <1>3, <1>8, <2>1, <2>2 DEF TxStates
<1> HIDE DEF t
<1>14. /\ tx'[c] = t /\ up'[c] = rest /\ rx' = rx /\ down' = down
       /\ readSeq' = readSeq /\ log' = log
  BY <1>1, <1>2 DEF TypeOK, GoOn, Return, ringVars, recvVars
<1>15. asked(c)' = Rest(ask, k)
  BY <1>9, <1>13, <1>14 DEF asked
<1> DEFINE new == asked(c)'
<1>16. /\ new \in Seq(Requests) /\ Len(new) = Len(ask) - k /\ Len(new) = Len(w) + Len(rest)
       /\ \A i \in 1..Len(new) : k + i \in 1..Len(ask) /\ new[i] = ask[k + i]
       /\ \A i \in 1..Len(w) : i \in 1..Len(new) /\ new[i] = w[i]
       /\ Len(new) \in Nat /\ k \in Nat
  <2>1. Len(ask) \in Nat /\ k \in 0..Len(ask)
    BY <1>4
  <2>2. new = Rest(ask, k) /\ new = w \o rest
    BY <1>9, <1>15
  <2> HIDE DEF new, ask
  <2>3. new \in Seq(Requests) /\ Len(new) = Len(ask) - k /\ \A i \in 1..Len(ask) - k : new[i] = ask[k + i]
    BY <1>11, <2>2
  <2>4. Len(new) = Len(w) + Len(rest) /\ \A i \in 1..Len(w) : new[i] = w[i]
    BY <1>12, <2>2
  <2>5. Len(w) \in Nat /\ Len(rest) \in Nat
    BY <1>12
  <2>6. \A i \in 1..Len(new) : k + i \in 1..Len(ask)
    BY <2>1, <2>3
  <2>7. \A i \in 1..Len(w) : i \in 1..Len(new)
    BY <2>4, <2>5
  <2> QED BY <2>1, <2>3, <2>4, <2>5, <2>6, <2>7
<1> HIDE DEF new, ask
<1>17. ASSUME Len(new) > 0, new[1].op # "=" PROVE w = <<>>
  <2> SUFFICES ASSUME w # <<>> PROVE FALSE
    OBVIOUS
  <2>1. 1 \in 1..Len(w)
    BY <1>8, <1>12
  <2>2. new[1] = w[1] /\ w[1].op = "="
    BY <1>8, <1>16, <2>1 DEF OnlyReports
  <2> QED BY <1>17, <2>2
<1>18. LastAsked(c)' = LastAsked(c)
  <2>1. LastAsked(c)' = IF new = <<>> THEN 0 ELSE new[Len(new)].len
    BY DEF LastAsked, new
  <2>2. LastAsked(c) = IF ask = <<>> THEN 0 ELSE ask[Len(ask)].len
    BY DEF LastAsked, ask
  <2>3. CASE k = Len(ask)
    <3>1. new = <<>>
      BY <1>16, <2>3
    <3>2. CASE k = 0
      <4>1. ask = <<>>
        BY <1>4, <2>3, <3>2
      <4> QED BY <2>1, <2>2, <3>1, <4>1
    <3>3. CASE k # 0
      <4>1. k = 1 /\ n > 0 /\ u[1].op # "=" /\ Len(ask) = 1 /\ ask # <<>>
        BY <1>4, <1>9, <2>3, <3>3
      <4>2. Len(q) = 0 /\ Len(u) = 1
        <5>1. n \in 0..Len(u) /\ Len(u) \in Nat /\ Len(ask) = Len(q) + Len(u)
          BY <1>4 DEF u
        <5>2. 1 \in 1..Len(u)
          BY <4>1, <5>1
        <5>3. q = <<>>
          BY <1>7, <4>1, <5>2
        <5> QED BY <4>1, <5>1, <5>3
      <4>3. ask[1] = u[1] /\ u[1] = Subscribe
        BY <1>4, <1>7, <4>1, <4>2
      <4> QED BY <2>1, <2>2, <3>1, <4>1, <4>3 DEF Subscribe
    <3> QED BY <3>2, <3>3
  <2>4. CASE k # Len(ask)
    <3>1. Len(new) \in 1..Len(new) /\ k + Len(new) = Len(ask) /\ new # <<>> /\ ask # <<>>
      <4>1. k \in 0..Len(ask) /\ Len(ask) \in Nat /\ Len(new) = Len(ask) - k
        BY <1>4, <1>16
      <4>2. Len(new) \in Nat /\ Len(new) > 0 /\ k + Len(new) = Len(ask) /\ Len(ask) > 0
        BY <2>4, <4>1
      <4> QED BY <4>2
    <3> QED BY <1>16, <2>1, <2>2, <3>1
  <2> QED BY <2>3, <2>4
<1>19. Rest(u, n) = rest /\ (n = 0 => rest = u) /\ (Len(u) = 0 => n = 0)
  <2>1. n \in 0..Len(u)
    BY DEF u
  <2>2. n = 0 => Len(rest) = Len(u) /\ \A i \in 1..Len(rest) : rest[i] = u[i]
    BY <1>4, <1>10
  <2> QED BY <1>4, <1>10, <2>1, <2>2, SeqEqual DEF rest
<1>20. StageInv(c)'
  <2>1. StageInv(c)
    BY <1>1 DEF ConnInv
  <2>2. rx[c].st \in {"none", "connecting"} => rest = <<>>
    <3>1. rx[c].st \in {"none", "connecting"} => u = <<>>
      BY <2>1 DEF StageInv, u
    <3>2. Len(u) = 0 => rest = u
      BY <1>19
    <3> QED BY <3>1, <3>2
  <2>3. subs # Subs[c] => w = <<>> /\ tx[c].relic = <<>>
                          /\ IF rest = <<>> THEN rx[c].st # "open" ELSE rest[1].op = "+"
    <3> SUFFICES ASSUME subs # Subs[c]
                 PROVE  w = <<>> /\ tx[c].relic = <<>>
                        /\ IF rest = <<>> THEN rx[c].st # "open" ELSE rest[1].op = "+"
      OBVIOUS
    <3>1. tx[c].subs # Subs[c] /\ ~ \E i \in 1..n : got[i].op = "+"
      OBVIOUS
    <3>2. /\ q = <<>> /\ tx[c].relic = <<>>
          /\ IF u = <<>> THEN rx[c].st # "open" ELSE u[1].op = "+"
      BY <1>3, <2>1, <3>1 DEF StageInv, q, u
    <3>3. n = 0
      <4> SUFFICES ASSUME n # 0 PROVE FALSE
        OBVIOUS
      <4>1. 1 \in 1..n /\ n \in 0..Len(u) /\ u # <<>>
        BY <1>4, <1>19 DEF u
      <4>2. got[1] = u[1]
        <5>1. u \in Seq(Requests)
          BY <1>4
        <5> QED BY <4>1, <5>1, PrefixProperties DEF got
      <4> QED BY <3>1, <3>2, <4>1, <4>2
    <3>4. rest = u
      BY <1>19, <3>3
    <3>5. w = <<>>
      <4>1. Len(w) + Len(u) = Len(u) - k
        <5>1. Len(ask) = Len(q) + Len(u) /\ Len(u) \in Nat /\ Len(q) = 0
          BY <1>4, <3>2
        <5>2. Len(w) + Len(rest) = Len(ask) - k
          BY <1>16
        <5> QED BY <3>4, <5>1, <5>2
      <4>2. Len(w) = 0
        <5>1. Len(u) \in Nat /\ Len(w) \in Nat /\ k \in Nat
          BY <1>4, <1>12, <1>16
        <5> QED BY <4>1, <5>1
      <4> QED BY <1>8, <4>2
    <3> QED BY <3>2, <3>4, <3>5
  <2>4. tx'[c].st = "live" /\ tx'[c].subs = subs /\ tx'[c].reqs = w /\ tx'[c].relic = tx[c].relic /\ up'[c] = rest
    BY <1>13, <1>14
  <2>5. rx[c].st # "none"
    BY <1>3, <2>1 DEF StageInv
  <2> HIDE DEF subs
  <2> QED BY <1>14, <2>1, <2>2, <2>3, <2>4, <2>5 DEF StageInv
<1>21. AskedInv(c)'
  <2>1. AskedInv(c)
    BY <1>1 DEF ConnInv
  <2>2. readSeq[1] <= tx[c].next /\ tx[c].next <= readSeq[0]
    BY <1>3, <2>1 DEF AskedInv
  <2>3. ASSUME NEW i \in 1..Len(new)
        PROVE  IF new[i].op = "+" THEN i = 1 /\ w = <<>> /\ new[i] = Subscribe
               ELSE /\ tx[c].next <= new[i].seq /\ (tx[c].relic # <<>> => tx[c].after <= new[i].seq)
                    /\ new[i].len <= Cap /\ new[i].seq + new[i].len <= readSeq[0]
    <3>1. k + i \in 1..Len(ask) /\ new[i] = ask[k + i]
      BY <1>16
    <3>2. CASE new[i].op = "+"
      <4>1. k + i = 1 /\ ask[k + i] = Subscribe
        BY <1>5, <3>1, <3>2
      <4>2. i = 1 /\ Len(new) > 0
        BY <1>16, <4>1
      <4>3. w = <<>>
        BY <1>17, <3>2, <4>2
      <4> QED BY <3>1, <3>2, <4>1, <4>2, <4>3
    <3>3. CASE new[i].op # "+"
      BY <1>3, <2>1, <3>1, <3>3 DEF AskedInv, ask
    <3> QED BY <3>2, <3>3
  <2>4. ASSUME NEW i \in 1..Len(new), NEW j \in 1..Len(new), i < j
        PROVE  new[i].len = 0 /\ new[i].seq <= new[j].seq
    <3>1. /\ k + i \in 1..Len(ask) /\ new[i] = ask[k + i]
          /\ k + j \in 1..Len(ask) /\ new[j] = ask[k + j]
      BY <1>16
    <3>2. k + i < k + j
      BY <1>16, <2>4
    <3> QED BY <1>3, <2>1, <3>1, <3>2 DEF AskedInv, ask
  <2>5. /\ tx[c].relic # <<>> => tx[c].after <= readSeq[0] /\ tx[c].next <= tx[c].after - Len(tx[c].relic)
        /\ \A j \in 1..Len(tx[c].relic) : LET s == tx[c].after - Len(tx[c].relic) + (j - 1) IN
             tx[c].relic[j] = IF Subscribed(c, s) THEN s ELSE -1
    BY <1>3, <2>1 DEF AskedInv
  <2>6. \A s : Subscribed(c, s)' <=> Subscribed(c, s)
    BY <1>14 DEF Subscribed, TagOf
  <2> QED BY <1>13, <1>14, <2>2, <2>3, <2>4, <2>5, <2>6 DEF AskedInv, new
<1>22. StartInv(c)'
  <2> SUFFICES ASSUME rx[c].st \in {"connecting", "open"}, rx[c].expecting = SEQ_MAX
               PROVE  w = <<>> /\ rest \in {<<>>, <<Subscribe>>}
    <3>1. StartInv(c)
      BY <1>1 DEF ConnInv
    <3> QED BY <1>3, <1>13, <1>14, <3>1 DEF StartInv
  <2>1. q = <<>> /\ u \in {<<>>, <<Subscribe>>}
    BY <1>1, <1>3 DEF ConnInv, StartInv, q, u
  <2>2. Len(q) = 0 /\ Len(u) \in {0, 1} /\ (Len(u) = 1 => u = <<Subscribe>>)
    <3>1. Len(<<Subscribe>>) = 1
      OBVIOUS
    <3>2. CASE u = <<>>
      BY <2>1, <3>2
    <3>3. CASE u = <<Subscribe>>
      BY <2>1, <3>1, <3>3
    <3> QED BY <2>1, <3>2, <3>3
  <2>3. rest \in {<<>>, <<Subscribe>>}
    <3>1. n = 0 \/ Len(rest) = 0
      BY <1>10, <2>2 DEF u
    <3>2. Len(rest) = 0 => rest = <<>>
      BY <1>10
    <3> QED BY <1>19, <2>1, <3>1, <3>2
  <2>4. w = <<>>
    <3> SUFFICES ASSUME w # <<>> PROVE FALSE
      OBVIOUS
    <3>1. 1 \in 1..Len(w)
      BY <1>8, <1>12
    <3>2. new[1] = w[1] /\ w[1].op = "=" /\ k + 1 \in 1..Len(ask) /\ new[1] = ask[k + 1]
      BY <1>8, <1>16, <3>1 DEF OnlyReports
    <3>3. k + 1 = 1 /\ Len(u) = 1
      <4>1. Len(ask) = Len(q) + Len(u) /\ k \in Nat
        BY <1>4, <1>16
      <4> QED BY <2>2, <3>2, <4>1
    <3>4. ask[1] = u[1]
      <4>1. ask[Len(q) + 1] = u[1]
        BY <1>4, <3>3
      <4> QED BY <2>2, <4>1
    <3> QED BY <2>2, <3>2, <3>3, <3>4 DEF Subscribe
  <2> QED BY <2>3, <2>4
<1>23. StreamInv(c)'
  <2>1. LogGrows
    BY <1>1, <1>14, LogGrowsStep
  <2>2. readSeq'[0] \in Nat /\ readSeq[0] <= readSeq'[0]
    BY <1>1, <1>14, Counters
  <2>3. rx'[c] = rx[c] /\ down'[c] = down[c] /\ StreamInv(c)
    BY <1>1, <1>14 DEF ConnInv
  <2> QED BY <1>1, <2>1, <2>2, <2>3, StreamKept
<1>24. LinkInv(c)'
  <2>1. LinkInv(c)
    BY <1>1 DEF ConnInv
  <2>2. GapPending(c)' = GapPending(c)
    BY <1>14 DEF GapPending
  <2> SUFFICES ASSUME rx[c].expecting # SEQ_MAX PROVE LinkInv(c)'
    BY <1>14 DEF LinkInv
  <2>3. ASSUME NEW i \in 1..Len(new)
        PROVE  IF new[i].len = 0 THEN new[i].seq <= rx[c].expecting
               ELSE new[i].seq = rx[c].expecting + Len(down[c]) + Len(tx[c].relic)
    <3>1. k + i \in 1..Len(ask) /\ new[i] = ask[k + i]
      BY <1>16
    <3> QED BY <1>3, <2>1, <3>1 DEF LinkInv, ask
  <2> QED BY <1>3, <1>13, <1>14, <1>18, <2>1, <2>2, <2>3 DEF LinkInv, new
<1>25. ConnInv(c)'
  BY <1>20, <1>21, <1>22, <1>23, <1>24 DEF ConnInv
<1> DEFINE v == down[c]
<1>26. v \in Seq(Writes) /\ down' = [down EXCEPT ![c] = v]
  <2>1. down \in [Conns -> Seq(Writes)]
    BY <1>1 DEF TypeOK
  <2> QED BY <1>14, <2>1
<1>27. tx[c].next <= t.next
  BY <1>1, <1>13, ConnTypes
<1> HIDE DEF v
<1> QED BY <1>2, <1>8, <1>10, <1>13, <1>25, <1>26, <1>27, Served

\* The entries of a batch that begins with message s: a message, or -1 for one that the
\* receiver does not want.
BatchFrom(c, batch, s) ==
  \A i \in 1..Len(batch) : batch[i] = IF Subscribed(c, s + (i - 1)) THEN s + (i - 1) ELSE -1

\* What is written for a batch is its messages themselves: none of them is overwritten.
LEMMA WrittenRight ==
  ASSUME TypeOK, SenderInv, NEW c \in Conns, NEW batch \in Seq(Seqs \cup {-1}), NEW s \in Nat,
         readSeq[1] <= s, s + Len(batch) <= head, BatchFrom(c, batch, s)
  PROVE  /\ Written(batch) \in Seq(Writes) /\ Len(Written(batch)) = Len(batch)
         /\ \A i \in 1..Len(batch) :
               Written(batch)[i] = IF Subscribed(c, s + (i - 1)) THEN Message(s + (i - 1)) ELSE Flush
<1>1. /\ head \in Nat /\ readSeq[1] \in Nat /\ Cap \in Nat \ {0} /\ head <= readSeq[1] + Cap
      /\ MaxSeq \in Nat /\ head <= MaxSeq
  BY Counters
<1>2. Len(batch) \in Nat
  OBVIOUS
<1>3. ASSUME NEW i \in 1..Len(batch)
      PROVE  /\ Written(batch)[i] = IF Subscribed(c, s + (i - 1)) THEN Message(s + (i - 1)) ELSE Flush
             /\ Written(batch)[i] \in Writes
  <2> DEFINE m == s + (i - 1)
  <2>1. m \in Nat /\ m < head /\ head <= m + Cap /\ m \in Seqs /\ 0 \in Seqs
    BY <1>1, <1>2 DEF Seqs
  <2>2. batch[i] = IF Subscribed(c, m) THEN m ELSE -1
    BY DEF BatchFrom
  <2>3. Written(batch)[i] = IF batch[i] = -1 THEN Flush ELSE Message(InSlotOf(batch[i]))
    BY DEF Written
  <2> HIDE DEF m
  <2>4. InSlotOf(m) = m
    BY <1>1, <2>1, InItsSlot
  <2>5. m # -1
    BY <2>1
  <2>6. Written(batch)[i] = IF Subscribed(c, m) THEN Message(m) ELSE Flush
    BY <2>2, <2>3, <2>4, <2>5
  <2>7. Message(m) \in Writes /\ Flush \in Writes
    BY <2>1 DEF Message, Flush, Writes
  <2> QED BY <2>6, <2>7 DEF m
<1>4. Written(batch) = [i \in 1..Len(batch) |-> Written(batch)[i]]
  BY DEF Written
<1> DEFINE w == Written(batch)
<1> HIDE DEF w
<1>5. w \in [1..Len(batch) -> Writes]
  BY <1>3, <1>4 DEF w
<1>6. w \in Seq(Writes) /\ Len(w) = Len(batch)
  BY <1>2, <1>5
<1> QED BY <1>3, <1>6 DEF w

\* A session that has messages to write: state t, with ask the requests it still has.
Loaded(c, t, ask) ==
  /\ t.st = "live" /\ t.subs = Subs[c] /\ t.relic # <<>>
  /\ readSeq[1] <= t.next /\ t.next <= t.after - Len(t.relic) /\ t.after <= readSeq[0]
  /\ \A i \in 1..Len(ask) :
        IF ask[i].op = "+" THEN i = 1 /\ t.reqs = <<>> /\ ask[i] = Subscribe
        ELSE t.next <= ask[i].seq /\ t.after <= ask[i].seq
             /\ ask[i].len <= Cap /\ ask[i].seq + ask[i].len <= readSeq[0]
  /\ \A i, j \in 1..Len(ask) : i < j => ask[i].len = 0 /\ ask[i].seq <= ask[j].seq
  /\ BatchFrom(c, t.relic, t.after - Len(t.relic))

\* The messages come next for the receiver, and belong to its gap.
LoadedNext(c, t, ask) ==
  LET e == rx[c].expecting  d == Len(down[c]) IN
  IF e = SEQ_MAX THEN rx[c].st \notin {"connecting", "open"}
  ELSE /\ GapPending(c) /\ t.next <= e + d /\ t.after = e + d + Len(t.relic)
       /\ rx[c].gapSeq + 1
             = e + d + Len(t.relic) + (IF ask = <<>> THEN 0 ELSE ask[Len(ask)].len)
       /\ \A i \in 1..Len(ask) :
             IF ask[i].len = 0 THEN ask[i].seq <= e ELSE ask[i].seq = e + d + Len(t.relic)

\* The stream of a receiver is continued by the messages that come next.
LEMMA StreamGrows ==
  ASSUME TypeOK, SenderInv, NEW c \in Conns, StreamInv(c), rx[c].expecting # SEQ_MAX,
         NEW batch \in Seq(Seqs \cup {-1}), NEW s \in Nat, s = rx[c].expecting + Len(down[c]),
         GapPending(c), s + Len(batch) <= rx[c].gapSeq + 1, readSeq[1] <= s, BatchFrom(c, batch, s),
         log' = log, readSeq' = readSeq, rx' = rx, down'[c] = down[c] \o Written(batch)
  PROVE  StreamInv(c)' /\ Len(down'[c]) = Len(down[c]) + Len(batch)
<1> DEFINE e == rx[c].expecting
           d == Len(down[c])
           g == rx[c].gapSeq
           w == Written(batch)
<1>1. head \in Nat /\ readSeq[0] \in Nat /\ readSeq[0] <= head
  BY Counters
<1>2. e \in Nat /\ g \in Nat \cup {-1} /\ d \in Nat /\ down[c] \in Seq(Writes) /\ Len(batch) \in Nat
  BY ConnTypes
<1>3. e <= g /\ g < readSeq[0] /\ s = e + d
  BY DEF StreamInv
<1>4. s + Len(batch) <= head
  <2>1. s + Len(batch) <= g + 1
    OBVIOUS
  <2> HIDE DEF e, d, g
  <2> QED BY <1>1, <1>2, <1>3, <2>1
<1>5. /\ w \in Seq(Writes) /\ Len(w) = Len(batch)
      /\ \A i \in 1..Len(batch) :
            w[i] = IF Subscribed(c, s + (i - 1)) THEN Message(s + (i - 1)) ELSE Flush
  BY <1>4, WrittenRight
<1> HIDE DEF w
<1> DEFINE v == down[c] \o w
<1>6. /\ Len(v) = d + Len(w)
      /\ \A i \in 1..d + Len(w) : v[i] = IF i <= d THEN down[c][i] ELSE w[i - d]
  <2>1. down[c] \in Seq(Writes) /\ w \in Seq(Writes)
    BY <1>2, <1>5
  <2> QED BY <2>1, ConcatProperties
<1>7. down'[c] = v
  BY DEF w
<1> HIDE DEF v
<1>8. ASSUME NEW i \in 1..Len(v), NEW m, m = e + (i - 1)
      PROVE  v[i] = IF Subscribed(c, m) THEN Message(m) ELSE Flush
  <2>1. CASE i <= d
    <3>1. i \in 1..d /\ v[i] = down[c][i]
      BY <1>2, <1>5, <1>6, <2>1
    <3>2. \A j \in 1..d : LET n == e + (j - 1) IN
              down[c][j] = IF Subscribed(c, n) THEN Message(n) ELSE Flush
      BY DEF StreamInv
    <3> QED BY <1>8, <3>1, <3>2
  <2>2. CASE i > d
    <3>1. i - d \in 1..Len(batch) /\ v[i] = w[i - d]
      BY <1>2, <1>5, <1>6, <2>2
    <3>2. s + ((i - d) - 1) = m
      <4> HIDE DEF e, d
      <4> QED BY <1>2, <1>3, <1>8
    <3> QED BY <1>5, <3>1, <3>2
  <2> QED BY <1>2, <1>5, <1>6, <2>1, <2>2
<1>9. \A n : Subscribed(c, n)' <=> Subscribed(c, n)
  BY DEF Subscribed, TagOf
<1>10. Wanted(c)' = Wanted(c) /\ GapPending(c)' = GapPending(c)
  BY DEF Wanted, GapPending, Subscribed, TagOf, head
<1>11. e + Len(v) <= g + 1
  <2>1. s + Len(batch) <= g + 1
    OBVIOUS
  <2> HIDE DEF e, d, g
  <2> QED BY <1>2, <1>3, <1>5, <1>6, <2>1
<1>12. StreamInv(c)'
  <2>1. /\ rx[c].min <= e /\ e <= readSeq[0] /\ e <= g /\ g < readSeq[0]
        /\ rx[c].out = Among(SeqRange(rx[c].min, e), Wanted(c))
    BY <1>3 DEF StreamInv
  <2> QED BY <1>7, <1>8, <1>9, <1>10, <1>11, <2>1 DEF StreamInv
<1> QED BY <1>5, <1>6, <1>7, <1>12

\* The socket takes the first k of the messages that a session has to write.
LEMMA Writing ==
  ASSUME TypeOK, SenderInv, NEW c \in Conns, StageInv(c), StreamInv(c), tx[c].st = "live",
         NEW t \in TxStates, Loaded(c, t, t.reqs \o up[c]), LoadedNext(c, t, t.reqs \o up[c]),
         NEW k \in 0..Len(t.relic), log' = log, readSeq' = readSeq, rx' = rx, up'[c] = up[c],
         down'[c] = down[c] \o Written(Prefix(t.relic, k)),
         tx'[c].st = "live", tx'[c].subs = t.subs, tx'[c].reqs = t.reqs,
         tx'[c].relic = Rest(t.relic, k),
         k < Len(t.relic) => tx'[c].next = t.next /\ tx'[c].after = t.after,
         k = Len(t.relic) => tx'[c].next = t.after
  PROVE  ConnInv(c)' /\ down'[c] \in Seq(Writes) /\ t.next <= tx'[c].next
<1> DEFINE e == rx[c].expecting
           d == Len(down[c])
           r == t.relic
           l == Len(r)
           ask == t.reqs \o up[c]
           batch == Prefix(r, k)
           left == Rest(r, k)
           s == t.after - l
<1>1. /\ head \in Nat /\ readSeq[0] \in Nat /\ readSeq[1] \in Nat /\ readSeq[0] <= head
      /\ MaxSeq \in Nat
  BY Counters
<1>2. /\ r \in Seq(Seqs \cup {-1}) /\ l \in Nat /\ t.next \in Nat /\ t.after \in Nat
      /\ t.reqs \in Seq(Requests)
  BY <1>1 DEF TxStates, Seqs
<1>3. d \in Nat /\ down[c] \in Seq(Writes) /\ e \in Nat
  BY ConnTypes
<1>4. /\ batch \in Seq(Seqs \cup {-1}) /\ Len(batch) = k /\ \A i \in 1..k : batch[i] = r[i]
      /\ left \in Seq(Seqs \cup {-1}) /\ Len(left) = l - k
      /\ \A i \in 1..l - k : left[i] = r[k + i]
  <2>1. r \in Seq(Seqs \cup {-1}) /\ k \in 0..Len(r)
    BY <1>2
  <2> HIDE DEF r
  <2>2. batch \in Seq(Seqs \cup {-1}) /\ Len(batch) = k /\ \A i \in 1..k : batch[i] = r[i]
    BY <2>1, PrefixProperties
  <2>3. /\ left \in Seq(Seqs \cup {-1}) /\ Len(left) = l - k
        /\ \A i \in 1..l - k : left[i] = r[k + i]
    BY <2>1, RestProperties
  <2> QED BY <2>2, <2>3
<1>5. ask \in Seq(Requests) /\ Len(ask) \in Nat /\ \A i \in 1..Len(ask) : ask[i].seq \in Nat /\ ask[i].len \in Nat
  <2>1. up[c] \in Seq(Requests)
    BY DEF TypeOK
  <2>2. ask \in Seq(Requests)
    BY <1>2, <2>1, ConcatProperties
  <2> HIDE DEF ask
  <2>3. \A i \in 1..Len(ask) : ask[i] \in Requests
    BY <2>2, ElementOfSeq
  <2> QED BY <1>1, <2>2, <2>3 DEF Requests, Seqs
<1>6. /\ r # <<>> /\ t.subs = Subs[c]
      /\ readSeq[1] <= t.next /\ t.next <= s /\ t.after <= readSeq[0]
      /\ BatchFrom(c, r, s)
  BY DEF Loaded
<1>7. s \in Nat /\ readSeq[1] <= s /\ s + l = t.after /\ t.next <= t.after
  BY <1>1, <1>2, <1>6
<1>8. /\ \A i \in 1..Len(ask) :
            IF ask[i].op = "+" THEN i = 1 /\ t.reqs = <<>> /\ ask[i] = Subscribe
            ELSE t.next <= ask[i].seq /\ t.after <= ask[i].seq
                 /\ ask[i].len <= Cap /\ ask[i].seq + ask[i].len <= readSeq[0]
      /\ \A i, j \in 1..Len(ask) : i < j => ask[i].len = 0 /\ ask[i].seq <= ask[j].seq
  BY DEF Loaded
<1>9. asked(c)' = ask
  BY DEF asked
<1> HIDE DEF s, l, r, ask, batch, left
<1>10. BatchFrom(c, batch, s)
  <2> SUFFICES ASSUME NEW i \in 1..Len(batch)
               PROVE  batch[i] = IF Subscribed(c, s + (i - 1)) THEN s + (i - 1) ELSE -1
    BY DEF BatchFrom
  <2>1. i \in 1..Len(r) /\ batch[i] = r[i]
    BY <1>2, <1>4 DEF l, r
  <2> QED BY <1>6, <2>1 DEF BatchFrom
<1>11. /\ tx'[c].next \in Nat /\ tx'[c].next <= readSeq[0] /\ readSeq[1] <= tx'[c].next
       /\ t.next <= tx'[c].next /\ (tx'[c].next = t.next \/ tx'[c].next = t.after)
       /\ tx'[c].relic = left /\ (left # <<>> => k < l /\ tx'[c].next = t.next /\ tx'[c].after = t.after)
  <2>1. tx'[c].next = t.next \/ tx'[c].next = t.after
    BY <1>2 DEF l, r
  <2>2. tx'[c].relic = left
    BY DEF left, r
  <2>3. left # <<>> => k < l
    BY <1>2, <1>4 DEF l, r
  <2>4. k < l => tx'[c].next = t.next /\ tx'[c].after = t.after
    BY DEF l, r
  <2> QED BY <1>1, <1>2, <1>6, <1>7, <2>1, <2>2, <2>3, <2>4
<1>12. StageInv(c)'
  <2>1. StageInv(c) /\ rx[c].st # "none"
    BY DEF StageInv
  <2> QED BY <1>6, <2>1 DEF StageInv
<1>13. AskedInv(c)'
  <2>1. ASSUME NEW i \in 1..Len(ask)
        PROVE  IF ask[i].op = "+" THEN i = 1 /\ t.reqs = <<>> /\ ask[i] = Subscribe
               ELSE /\ tx'[c].next <= ask[i].seq /\ (left # <<>> => tx'[c].after <= ask[i].seq)
                    /\ ask[i].len <= Cap /\ ask[i].seq + ask[i].len <= readSeq[0]
    BY <1>8, <1>11
  <2>2. left # <<>> => tx'[c].after <= readSeq[0] /\ tx'[c].next <= tx'[c].after - Len(left)
    <3> SUFFICES ASSUME left # <<>> PROVE t.after <= readSeq[0] /\ t.next <= t.after - Len(left)
      BY <1>11
    <3>1. Len(left) = l - k /\ k \in Nat /\ l \in Nat
      BY <1>2, <1>4 DEF l
    <3> QED BY <1>2, <1>6, <1>7, <3>1
  <2>3. ASSUME NEW j \in 1..Len(left), NEW m, m = tx'[c].after - Len(left) + (j - 1)
        PROVE  left[j] = IF Subscribed(c, m)' THEN m ELSE -1
    <3>1. left # <<>> /\ Len(left) \in Nat
      BY <1>4
    <3>2. m = t.after - Len(left) + (j - 1) /\ Len(left) = l - k
      BY <1>4, <1>11, <2>3, <3>1
    <3>3. k + j \in 1..l /\ left[j] = r[k + j]
      BY <1>2, <1>4
    <3>4. r[k + j] = IF Subscribed(c, s + ((k + j) - 1)) THEN s + ((k + j) - 1) ELSE -1
      BY <1>6, <3>3 DEF BatchFrom, l
    <3>5. s + ((k + j) - 1) = m
      BY <1>2, <1>7, <3>2
    <3> QED BY <3>3, <3>4, <3>5 DEF Subscribed, TagOf
  <2> QED BY <1>8, <1>9, <1>11, <2>1, <2>2, <2>3 DEF AskedInv
<1>14. StartInv(c)'
  BY DEF StartInv, LoadedNext
<1>15. down'[c] \in Seq(Writes)
  <2>1. s + Len(batch) <= head
    BY <1>1, <1>2, <1>4, <1>6, <1>7
  <2>2. readSeq[1] <= s
    BY <1>7
  <2>3. Written(batch) \in Seq(Writes)
    BY <1>4, <1>7, <1>10, <2>1, <2>2, WrittenRight
  <2> QED BY <1>3, <2>3, ConcatProperties DEF batch, r
<1>16. StreamInv(c)' /\ LinkInv(c)'
  <2>1. CASE e = SEQ_MAX
    BY <2>1 DEF StreamInv, LinkInv
  <2>2. CASE e # SEQ_MAX
    <3>1. /\ GapPending(c) /\ t.next <= e + d /\ t.after = e + d + l
          /\ rx[c].gapSeq + 1 = e + d + l + (IF ask = <<>> THEN 0 ELSE ask[Len(ask)].len)
          /\ \A i \in 1..Len(ask) :
                IF ask[i].len = 0 THEN ask[i].seq <= e ELSE ask[i].seq = e + d + l
      BY <2>2 DEF LoadedNext, l, r, ask
    <3> DEFINE last == IF ask = <<>> THEN 0 ELSE ask[Len(ask)].len
    <3>2. last \in Nat
      <4>1. ask # <<>> => Len(ask) \in 1..Len(ask)
        BY <1>5
      <4> QED BY <1>5, <4>1
    <3>3. rx[c].gapSeq + 1 = e + d + l + last /\ t.after = e + d + l
      BY <3>1
    <3>4. LastAsked(c)' = last
      BY <1>9 DEF LastAsked
    <3> HIDE DEF last, d
    <3>5. s = e + d /\ s + Len(batch) <= rx[c].gapSeq + 1
      <4>1. s = e + d
        <5>1. s \in Nat /\ l \in Nat /\ e \in Nat /\ d \in Nat /\ s + l = e + d + l
          BY <1>2, <1>3, <1>7, <3>3
        <5> HIDE DEF e
        <5> QED BY <5>1
      <4>2. Len(batch) = k /\ k <= l /\ k \in Nat
        BY <1>2, <1>4 DEF l, r
      <4>3. rx[c].gapSeq + 1 = s + l + last
        BY <3>3, <4>1
      <4> QED BY <1>2, <1>7, <3>2, <4>1, <4>2, <4>3
    <3>6. StreamInv(c)' /\ Len(down'[c]) = d + k
      <4>1. readSeq[1] <= s
        BY <1>7
      <4>2. down'[c] = down[c] \o Written(batch)
        BY DEF batch, r
      <4>3. s = rx[c].expecting + Len(down[c]) /\ rx[c].expecting # SEQ_MAX
        BY <2>2, <3>5 DEF d
      <4>4. StreamInv(c)' /\ Len(down'[c]) = Len(down[c]) + Len(batch)
        <5> HIDE DEF e
        <5> QED BY <1>4, <1>7, <1>10, <3>1, <3>5, <4>1, <4>2, <4>3, StreamGrows
      <4> QED BY <1>4, <4>4 DEF d
    <3>7. LinkInv(c)'
      <4> DEFINE n == tx'[c].next
                 b == Len(left)
                 f == Len(down'[c])
      <4>1. b = l - k /\ f = d + k /\ k \in Nat /\ b \in Nat
        BY <1>4, <3>6
      <4>2. n \in Nat /\ n <= e + f
        <5>1. n \in Nat
          BY <1>11
        <5>2. CASE k < l
          <6>1. n = t.next
            BY <5>2 DEF l, r
          <6> HIDE DEF n, b, f
          <6> QED BY <1>3, <3>1, <4>1, <5>1, <6>1
        <5>3. CASE k = l
          <6>1. n = t.after
            BY <5>3 DEF l, r
          <6> HIDE DEF n, b, f
          <6> QED BY <1>3, <3>3, <4>1, <5>1, <5>3, <6>1
        <5>4. k < l \/ k = l
          BY <1>2 DEF l, r
        <5> QED BY <5>1, <5>2, <5>3, <5>4
      <4> HIDE DEF b, f
      <4>3. e + f + b = e + d + l
        BY <1>2, <1>3, <4>1
      <4>4. left # <<>> => tx'[c].after = e + f + b
        BY <1>11, <3>3, <4>3
      <4>5. rx[c].gapSeq + 1 = e + f + b + last
        BY <3>3, <4>3
      <4>6. \A i \in 1..Len(ask) : IF ask[i].len = 0 THEN ask[i].seq <= e ELSE ask[i].seq = e + f + b
        BY <3>1, <4>3
      <4>7. GapPending(c)'
        BY <3>1 DEF GapPending
      <4> QED BY <1>9, <1>11, <3>4, <4>2, <4>4, <4>5, <4>6, <4>7 DEF LinkInv, b, f
    <3> QED BY <3>6, <3>7
  <2> QED BY <2>1, <2>2
<1> QED BY <1>11, <1>12, <1>13, <1>14, <1>15, <1>16 DEF ConnInv

\* A session writes the first k of its messages.
LEMMA WriteServed ==
  ASSUME MulticastInv, NEW c \in Conns, spc = "serve", cur = c,
         NEW t \in TxStates, Loaded(c, t, t.reqs \o up[c]), LoadedNext(c, t, t.reqs \o up[c]),
         Len(t.reqs) <= Cap, NEW k \in 0..Len(t.relic), tx[c].next <= t.next,
         NEW v \in TxStates, GoOn(c, v) \/ Return(c, v),
         v.st = "live", v.subs = t.subs, v.reqs = t.reqs, v.relic = Rest(t.relic, k),
         k < Len(t.relic) => v.next = t.next /\ v.after = t.after,
         k = Len(t.relic) => v.next = t.after,
         Write(c, Prefix(t.relic, k)),
         UNCHANGED <<ringVars, attVars, mcVars, cullVars, spc, up, cut, sent, recvVars>>
  PROVE  MulticastInv'
<1>1. /\ TypeOK /\ SenderInv /\ LoopInv /\ StageInv(c) /\ StreamInv(c) /\ c # 0
  BY MulticastAssumption DEF MulticastInv, ConnInv
<1>2. c \in todo /\ tx[c].st = "live"
  BY <1>1 DEF LoopInv, Live
<1>3. tx \in [Conns -> TxStates] /\ up \in [Conns -> Seq(Requests)] /\ down \in [Conns -> Seq(Writes)]
  BY <1>1 DEF TypeOK
<1>4. tx'[c] = v
  BY <1>1, <1>3 DEF GoOn, Return
<1> DEFINE w == down[c] \o Written(Prefix(t.relic, k))
<1>5. down'[c] = w /\ down' = [down EXCEPT ![c] = w]
  BY <1>3 DEF Write
<1>6. log' = log /\ readSeq' = readSeq /\ rx' = rx /\ up' = up
  BY DEF ringVars, recvVars
<1>7. ConnInv(c)' /\ down'[c] \in Seq(Writes) /\ t.next <= tx'[c].next
  BY <1>1, <1>2, <1>4, <1>5, <1>6, Writing
<1>8. tx[c].next <= v.next
  <2>1. tx[c].next \in Nat /\ t.next \in Nat /\ v.next \in Nat
    BY <1>1, ConnTypes, MulticastAssumption DEF TxStates, Seqs
  <2> QED BY <1>4, <1>7, <2>1
<1> DEFINE u == up[c]
<1>9. u \in Seq(Requests) /\ up' = [up EXCEPT ![c] = u]
  BY <1>3, <1>6
<1>10. w \in Seq(Writes)
  BY <1>5, <1>7
<1>11. Len(v.reqs) <= Cap
  OBVIOUS
<1> HIDE DEF u, w
<1> QED BY <1>2, <1>5, <1>7, <1>8, <1>9, <1>10, <1>11, Served

\* More of what a partial write left over is written.
LEMMA SendRelicKeeps ==
  ASSUME MulticastInv, NEW c \in Conns, NEW k \in 0..ReplyBatch, SendRelic(c, k) PROVE MulticastInv'
<1> DEFINE t == tx[c]
           r == t.relic
           v == IF k < Len(r) THEN [t EXCEPT !.relic = Rest(r, k)]
                ELSE [t EXCEPT !.relic = <<>>, !.after = 0, !.next = t.after]
<1>1. TypeOK /\ SenderInv /\ LoopInv /\ ConnInv(c) /\ c # 0
  BY MulticastAssumption DEF MulticastInv
<1>2. /\ spc = "serve" /\ cur = c /\ r # <<>> /\ k <= Len(r) /\ Write(c, Prefix(r, k))
      /\ GoOn(c, v) \/ Return(c, v)
      /\ UNCHANGED <<ringVars, attVars, mcVars, cullVars, spc, up, cut, sent, recvVars>>
  BY DEF SendRelic
<1>3. t.st = "live"
  BY <1>1, <1>2 DEF LoopInv, Live
<1>4. /\ t \in TxStates /\ r \in Seq(Seqs \cup {-1}) /\ Len(r) \in Nat /\ t.after \in Nat
      /\ t.after \in Seqs /\ 0 \in Seqs /\ Len(t.reqs) <= Cap
  <2>1. 0 \in Seqs
    BY MulticastAssumption DEF Seqs
  <2>2. t \in TxStates /\ Len(t.reqs) <= Cap
    BY <1>1 DEF TypeOK
  <2> QED BY <1>1, <2>1, <2>2, ConnTypes DEF TxStates
<1>5. k \in 0..Len(r)
  <2>1. k \in Nat
    BY MulticastAssumption
  <2> QED BY <1>2, <1>4, <2>1
<1>6. /\ Rest(r, k) \in Seq(Seqs \cup {-1}) /\ (k = Len(r) => Rest(r, k) = <<>>)
  <2>1. Rest(r, k) \in Seq(Seqs \cup {-1}) /\ Len(Rest(r, k)) = Len(r) - k
    <3> HIDE DEF r
    <3> QED BY <1>4, <1>5, RestProperties
  <2> QED BY <1>4, <2>1
<1>7. /\ v \in TxStates /\ v.st = "live" /\ v.subs = t.subs /\ v.reqs = t.reqs /\ v.relic = Rest(r, k)
      /\ k < Len(r) => v.next = t.next /\ v.after = t.after
      /\ k = Len(r) => v.next = t.after
  <2> DEFINE x == Rest(r, k)
  <2>0. x \in Seq(Seqs \cup {-1}) /\ t \in TxStates /\ t.after \in Seqs /\ 0 \in Seqs
    BY <1>4, <1>6
  <2>1. CASE k < Len(r)
    <3>1. v = [t EXCEPT !.relic = x] /\ k # Len(r)
      BY <1>4, <2>1
    <3> HIDE DEF v, x, t
    <3>2. v \in TxStates /\ v.st = t.st /\ v.subs = t.subs /\ v.reqs = t.reqs /\ v.relic = x
          /\ v.next = t.next /\ v.after = t.after
      BY <2>0, <3>1 DEF TxStates
    <3> QED BY <1>3, <3>1, <3>2 DEF x
  <2>2. CASE k = Len(r)
    <3>1. v = [t EXCEPT !.relic = <<>>, !.after = 0, !.next = t.after] /\ x = <<>> /\ ~ (k < Len(r))
      BY <1>4, <1>6, <2>2
    <3> HIDE DEF v, x, t
    <3>2. v \in TxStates /\ v.st = t.st /\ v.subs = t.subs /\ v.reqs = t.reqs /\ v.relic = <<>>
          /\ v.next = t.after
      BY <2>0, <3>1 DEF TxStates
    <3> QED BY <1>3, <3>1, <3>2 DEF x
  <2> QED BY <1>4, <1>5, <2>1, <2>2
<1> HIDE DEF v
<1>8. t.reqs \o up[c] = asked(c)
  BY DEF asked
<1>9. Loaded(c, t, asked(c))
  <2>1. t.subs = Subs[c]
    BY <1>1, <1>2, <1>3 DEF ConnInv, StageInv
  <2>2. AskedInv(c)
    BY <1>1 DEF ConnInv
  <2>3. BatchFrom(c, r, t.after - Len(r))
    BY <1>3, <2>2 DEF AskedInv, BatchFrom
  <2> QED BY <1>2, <1>3, <2>1, <2>2, <2>3 DEF Loaded, AskedInv
<1>10. LoadedNext(c, t, asked(c))
  <2>1. CASE rx[c].expecting = SEQ_MAX
    BY <1>1, <1>2, <1>3, <2>1 DEF LoadedNext, ConnInv, StartInv
  <2>2. CASE rx[c].expecting # SEQ_MAX
    <3>1. LinkInv(c)
      BY <1>1 DEF ConnInv
    <3> QED BY <1>2, <1>3, <2>2, <3>1 DEF LoadedNext, LinkInv, LastAsked
  <2> QED BY <2>1, <2>2
<1>11. t.next <= t.next
  BY <1>1, ConnTypes
<1> QED BY <1>2, <1>4, <1>5, <1>7, <1>8, <1>9, <1>10, <1>11, WriteServed

\* The next request of a session: one for messages is the only one.
LEMMA NextRequest ==
  ASSUME MulticastInv, NEW c \in Conns, cur = c, tx[c].relic = <<>>, NEW q, q = tx[c].reqs[1]
  PROVE  /\ tx[c].st = "live" /\ c \in todo /\ tx[c].subs = Subs[c]
         /\ tx[c].reqs # <<>> /\ Len(tx[c].reqs) \in Nat \ {0}
         /\ q \in Requests /\ q.op = "=" /\ q.seq \in Nat /\ q.len \in Nat
         /\ 1 \in 1..Len(asked(c)) /\ asked(c)[1] = q
         /\ readSeq[1] <= tx[c].next /\ tx[c].next <= q.seq /\ q.len <= Cap /\ q.seq + q.len <= readSeq[0]
         /\ rx[c].expecting = SEQ_MAX => rx[c].st \notin {"connecting", "open"}
         /\ q.len > 0 => tx[c].reqs = <<q>> /\ up[c] = <<>>
<1>1. TypeOK /\ LoopInv /\ ConnInv(c) /\ c # 0
  BY MulticastAssumption DEF MulticastInv
<1>2. tx[c].st = "live" /\ c \in todo /\ tx[c].reqs # <<>>
  BY <1>1 DEF LoopInv, Live
<1>3. tx[c].subs = Subs[c] /\ (rx[c].expecting = SEQ_MAX => rx[c].st \notin {"connecting", "open"})
  BY <1>1, <1>2 DEF ConnInv, StageInv, StartInv
<1> DEFINE rs == tx[c].reqs
           u == up[c]
           ask == asked(c)
<1>4. /\ rs \in Seq(Requests) /\ u \in Seq(Requests) /\ Len(ask) = Len(rs) + Len(u)
      /\ \A i \in 1..Len(rs) : ask[i] = rs[i]
      /\ \A i \in 1..Len(ask) : ask[i] \in Requests /\ ask[i].seq \in Nat /\ ask[i].len \in Nat
  <2> HIDE DEF ask, rs, u
  <2>1. /\ rs \in Seq(Requests) /\ u \in Seq(Requests) /\ Len(ask) = Len(rs) + Len(u)
        /\ \A i \in 1..Len(rs) : ask[i] = rs[i]
    BY <1>1, AskedSeq DEF ask, rs, u
  <2>2. \A i \in 1..Len(ask) : ask[i] \in Requests /\ ask[i].seq \in Nat /\ ask[i].len \in Nat
    BY <1>1, DataTypes DEF ask
  <2> QED BY <2>1, <2>2
<1>5. Len(rs) \in Nat \ {0} /\ Len(u) \in Nat /\ 1 \in 1..Len(rs) /\ 1 \in 1..Len(ask) /\ ask[1] = q
  <2>1. Len(rs) \in Nat \ {0} /\ Len(u) \in Nat
    BY <1>2, <1>4, EmptySeq
  <2> HIDE DEF ask, u
  <2>2. 1 \in 1..Len(rs) /\ 1 \in 1..Len(ask)
    BY <1>4, <2>1
  <2> QED BY <1>4, <2>1, <2>2
<1>6. AskedInv(c)
  BY <1>1 DEF ConnInv
<1>7. readSeq[1] <= tx[c].next /\ q.op # "+" /\ tx[c].next <= q.seq /\ q.len <= Cap /\ q.seq + q.len <= readSeq[0]
  BY <1>2, <1>5, <1>6 DEF AskedInv
<1>8. q \in Requests /\ q.op = "=" /\ q.seq \in Nat /\ q.len \in Nat
  BY <1>4, <1>5, <1>7 DEF Requests
<1>9. q.len > 0 => Len(ask) = 1
  <2> SUFFICES ASSUME Len(ask) # 1 PROVE q.len = 0
    BY <1>8
  <2>1. 2 \in 1..Len(ask)
    <3> DEFINE a == Len(rs)
               b == Len(u)
               l == Len(ask)
    <3>1. l = a + b /\ a \in Nat \ {0} /\ b \in Nat /\ l # 1
      BY <1>4, <1>5
    <3> HIDE DEF a, b, l
    <3>2. 2 \in 1..l
      BY <3>1
    <3> QED BY <3>2 DEF l
  <2>2. ask[1].len = 0
    BY <1>2, <1>5, <1>6, <2>1 DEF AskedInv
  <2> QED BY <1>5, <2>2
<1>10. q.len > 0 => rs = <<q>> /\ u = <<>>
  <2> SUFFICES ASSUME q.len > 0 PROVE rs = <<q>> /\ u = <<>>
    OBVIOUS
  <2>1. Len(rs) = 1 /\ Len(u) = 0
    <3> DEFINE a == Len(rs)
               b == Len(u)
    <3>1. a + b = 1 /\ a \in Nat \ {0} /\ b \in Nat
      BY <1>4, <1>5, <1>9
    <3> HIDE DEF a, b
    <3>2. a = 1 /\ b = 0
      BY <3>1
    <3> QED BY <3>2 DEF a, b
  <2>2. rs[1] = q
    OBVIOUS
  <2> HIDE DEF rs, u
  <2> QED BY <1>4, <2>1, <2>2
<1> QED BY <1>2, <1>3, <1>5, <1>7, <1>8, <1>10

\* Messages are resent.
LEMMA ResendKeeps ==
  ASSUME MulticastInv, NEW c \in Conns, NEW n \in 1..ReplyBatch, NEW k \in 0..ReplyBatch, Resend(c, n, k)
  PROVE  MulticastInv'
<1> DEFINE q == tx[c].reqs[1]
           batch == [i \in 1..n |-> IF TagOf(q.seq + i - 1) \in tx[c].subs THEN q.seq + i - 1 ELSE -1]
           rs == IF n = q.len THEN Tail(tx[c].reqs)
                 ELSE <<Request(q.seq + n, q.len - n)>> \o Tail(tx[c].reqs)
           z == [tx[c] EXCEPT !.reqs = rs, !.after = q.seq + n]
           v == IF k < n THEN [z EXCEPT !.relic = Rest(batch, k)]
                ELSE [z EXCEPT !.after = 0, !.next = z.after]
           t == [tx[c] EXCEPT !.reqs = rs, !.after = q.seq + n, !.relic = batch]
<1>1. /\ TypeOK /\ SenderInv /\ LoopInv /\ ConnInv(c) /\ c # 0 /\ MaxSeq \in Nat /\ ReplyBatch \in Nat
      /\ Cap \in Nat \ {0}
  BY MulticastAssumption DEF MulticastInv
<1>2. /\ spc = "serve" /\ cur = c /\ tx[c].relic = <<>> /\ n \in 1..q.len /\ k <= n
      /\ Write(c, Prefix(batch, k)) /\ (GoOn(c, v) \/ Return(c, v))
      /\ UNCHANGED <<ringVars, attVars, mcVars, cullVars, spc, up, cut, sent, recvVars>>
  BY DEF Resend
<1>3. /\ tx[c].st = "live" /\ c \in todo /\ tx[c].subs = Subs[c]
      /\ q \in Requests /\ q.op = "=" /\ q.seq \in Nat /\ q.len \in Nat
      /\ 1 \in 1..Len(asked(c)) /\ asked(c)[1] = q
      /\ readSeq[1] <= tx[c].next /\ tx[c].next <= q.seq /\ q.len <= Cap /\ q.seq + q.len <= readSeq[0]
      /\ rx[c].expecting = SEQ_MAX => rx[c].st \notin {"connecting", "open"}
      /\ q.len > 0 => tx[c].reqs = <<q>> /\ up[c] = <<>>
  <2>1. q = tx[c].reqs[1]
    OBVIOUS
  <2>2. cur = c /\ tx[c].relic = <<>>
    BY <1>2
  <2> HIDE DEF q
  <2> QED BY <2>1, <2>2, NextRequest
<1>4. /\ tx[c] \in TxStates /\ tx[c].next \in Nat /\ tx[c].next \in Seqs
      /\ readSeq[0] \in Nat /\ readSeq[0] <= MaxSeq
  <2>1. tx[c] \in TxStates /\ tx[c].next \in Nat
    BY <1>1, ConnTypes
  <2>2. readSeq[0] \in Nat /\ readSeq[0] <= MaxSeq
    BY <1>1, Counters
  <2> QED BY <2>1, <2>2 DEF TxStates
<1>5. n \in Nat /\ k \in Nat /\ 0 < n /\ n <= q.len /\ k \in 0..n /\ n <= ReplyBatch
  BY <1>1, <1>2, <1>3
<1>6. tx[c].reqs = <<q>> /\ up[c] = <<>> /\ Tail(tx[c].reqs) = <<>>
  <2>1. tx[c].reqs = <<q>> /\ up[c] = <<>>
    BY <1>3, <1>5
  <2> DEFINE p == q
  <2> HIDE DEF p
  <2>2. Tail(<<p>>) = <<>>
    OBVIOUS
  <2> QED BY <2>1, <2>2 DEF p
<1> DEFINE less == Request(q.seq + n, q.len - n)
<1>7. rs = IF n = q.len THEN <<>> ELSE <<less>>
  <2>1. <<less>> \o <<>> = <<less>>
    <3> DEFINE x == less
    <3> HIDE DEF x
    <3>1. <<x>> \in Seq({x})
      OBVIOUS
    <3>2. <<x>> \o <<>> = <<x>>
      BY <3>1, ConcatEmptySeq
    <3> QED BY <3>2 DEF x
  <2> QED BY <1>6, <2>1
<1> HIDE DEF q
<1>8. less \in Requests /\ less.op = "=" /\ less.seq = q.seq + n /\ less.len = q.len - n
  <2>1. q.seq + n \in Seqs /\ q.len - n \in Seqs
    <3> DEFINE a == q.seq
               b == q.len
    <3>1. /\ a \in Nat /\ b \in Nat /\ n \in Nat /\ n <= b /\ a + b <= MaxSeq
          /\ MaxSeq \in Nat
      BY <1>1, <1>3, <1>4, <1>5
    <3> HIDE DEF a, b
    <3> QED BY <3>1 DEF Seqs, a, b
  <2> QED BY <2>1 DEF Request, Requests
<1> HIDE DEF less, rs
<1>9. /\ rs \in Seq(Requests) /\ Len(rs) <= Cap /\ rs \o up[c] = rs
      /\ \A i \in 1..Len(rs) : i = 1 /\ n # q.len /\ rs[i] = less
      /\ (IF rs = <<>> THEN 0 ELSE rs[Len(rs)].len) = q.len - n
  <2>1. rs \in Seq(Requests)
    BY <1>7, <1>8
  <2>2. rs \o up[c] = rs
    BY <1>6, <2>1, ConcatEmptySeq
  <2>3. CASE n = q.len
    <3>1. rs = <<>> /\ q.len - n = 0
      BY <1>3, <1>7, <2>3
    <3> QED BY <1>1, <2>1, <2>2, <3>1
  <2>4. CASE n # q.len
    <3>1. rs = <<less>>
      BY <1>7, <2>4
    <3>2. Len(rs) = 1 /\ rs[1] = less /\ rs # <<>> /\ 1 <= Cap
      BY <1>1, <3>1
    <3> QED BY <1>8, <2>1, <2>2, <2>4, <3>2
  <2> QED BY <2>3, <2>4
<1>10. /\ batch \in Seq(Seqs \cup {-1}) /\ Len(batch) = n /\ batch # <<>>
       /\ \A i \in 1..n : batch[i] = IF Subscribed(c, q.seq + (i - 1)) THEN q.seq + (i - 1) ELSE -1
  <2>1. ASSUME NEW i \in 1..n PROVE q.seq + i - 1 = q.seq + (i - 1) /\ q.seq + i - 1 \in Seqs
    BY <1>1, <1>3, <1>4, <1>5 DEF Seqs
  <2>2. batch \in [1..n -> Seqs \cup {-1}]
    BY <2>1
  <2>3. batch \in Seq(Seqs \cup {-1}) /\ Len(batch) = n
    BY <1>5, <2>2
  <2>4. batch # <<>>
    <3> HIDE DEF batch
    <3> QED BY <1>5, <2>3
  <2> QED BY <1>3, <2>1, <2>3, <2>4 DEF Subscribed
<1> HIDE DEF batch
<1>11. Rest(batch, k) \in Seq(Seqs \cup {-1}) /\ (k = n => Rest(batch, k) = <<>>)
  <2>1. batch \in Seq(Seqs \cup {-1}) /\ k \in 0..Len(batch)
    BY <1>5, <1>10
  <2>2. Rest(batch, k) \in Seq(Seqs \cup {-1}) /\ Len(Rest(batch, k)) = Len(batch) - k
    BY <2>1, RestProperties
  <2> QED BY <1>5, <1>10, <2>2
<1>12. q.seq + n \in Seqs /\ 0 \in Seqs
  BY <1>1, <1>3, <1>4, <1>5 DEF Seqs
<1>13. /\ t \in TxStates /\ t.st = "live" /\ t.subs = Subs[c] /\ t.reqs = rs /\ t.relic = batch
       /\ t.after = q.seq + n /\ t.next = tx[c].next
  BY <1>3, <1>4, <1>9, <1>10, <1>12 DEF TxStates
<1>14. /\ v \in TxStates /\ v.st = "live" /\ v.subs = Subs[c] /\ v.reqs = rs /\ v.relic = Rest(batch, k)
       /\ k < n => v.next = t.next /\ v.after = t.after
       /\ k = n => v.next = t.after
  <2> DEFINE x == Rest(batch, k)
  <2>1. /\ z \in TxStates /\ z.st = "live" /\ z.subs = Subs[c] /\ z.reqs = rs /\ z.relic = <<>>
        /\ z.after = q.seq + n /\ z.next = tx[c].next
    BY <1>2, <1>3, <1>4, <1>9, <1>12 DEF TxStates
  <2> HIDE DEF z
  <2>2. CASE k < n
    <3>1. v = [z EXCEPT !.relic = x] /\ k # n
      BY <1>5, <2>2
    <3> HIDE DEF v, x
    <3>2. v \in TxStates /\ v.st = z.st /\ v.subs = z.subs /\ v.reqs = z.reqs /\ v.relic = x
          /\ v.next = z.next /\ v.after = z.after
      BY <1>11, <2>1, <3>1 DEF TxStates, x
    <3> QED BY <1>13, <2>1, <3>1, <3>2 DEF x
  <2>3. CASE k = n
    <3>1. v = [z EXCEPT !.after = 0, !.next = z.after] /\ x = <<>> /\ ~ (k < n)
      BY <1>5, <1>11, <2>3
    <3> HIDE DEF v, x
    <3>2. v \in TxStates /\ v.st = z.st /\ v.subs = z.subs /\ v.reqs = z.reqs /\ v.relic = z.relic
          /\ v.next = z.after
      BY <1>12, <2>1, <3>1 DEF TxStates
    <3> QED BY <1>13, <2>1, <3>1, <3>2 DEF x
  <2> QED BY <1>5, <2>2, <2>3
<1> HIDE DEF t, v, z
<1>15. Loaded(c, t, rs)
  <2>1. (q.seq + n) - n = q.seq
    BY <1>3, <1>5
  <2>2. BatchFrom(c, batch, q.seq)
    BY <1>10 DEF BatchFrom
  <2>3. readSeq[1] <= t.next /\ t.next <= t.after - Len(t.relic) /\ t.after <= readSeq[0]
    <3>1. q.seq + n <= readSeq[0]
      BY <1>3, <1>4, <1>5
    <3> QED BY <1>3, <1>10, <1>13, <2>1, <3>1
  <2>4. ASSUME NEW i \in 1..Len(rs)
        PROVE  /\ rs[i].op # "+" /\ t.next <= rs[i].seq /\ t.after <= rs[i].seq
               /\ rs[i].len <= Cap /\ rs[i].seq + rs[i].len <= readSeq[0]
    <3>1. rs[i] = less
      BY <1>9
    <3>2. less.op # "+" /\ tx[c].next <= less.seq /\ q.seq + n <= less.seq
      BY <1>3, <1>4, <1>5, <1>8
    <3>3. less.len <= Cap /\ less.seq + less.len <= readSeq[0]
      BY <1>1, <1>3, <1>4, <1>5, <1>8
    <3> QED BY <1>13, <3>1, <3>2, <3>3
  <2>5. \A i, j \in 1..Len(rs) : ~ (i < j)
    BY <1>9
  <2> QED BY <1>10, <1>13, <2>1, <2>2, <2>3, <2>4, <2>5 DEF Loaded
<1>16. LoadedNext(c, t, rs)
  <2>1. CASE rx[c].expecting = SEQ_MAX
    BY <1>3, <2>1 DEF LoadedNext
  <2>2. CASE rx[c].expecting # SEQ_MAX
    <3> DEFINE e == rx[c].expecting
               d == Len(down[c])
    <3>1. LinkInv(c) /\ e \in Nat /\ d \in Nat /\ rx[c].gapSeq \in Int
      BY <1>1, ConnTypes DEF ConnInv
    <3>2. asked(c) = <<q>> /\ LastAsked(c) = q.len
      <4>1. q \in Requests
        BY <1>3
      <4>2. <<q>> \o <<>> = <<q>>
        <5>1. <<q>> \in Seq(Requests)
          BY <4>1
        <5> QED BY <5>1, ConcatEmptySeq
      <4>3. asked(c) = <<q>>
        BY <1>6, <4>2 DEF asked
      <4> QED BY <4>3 DEF LastAsked
    <3>3. q.len # 0
      BY <1>3, <1>5
    <3>4. Len(tx[c].relic) = 0
      BY <1>2
    <3>5. GapPending(c) /\ tx[c].next <= e + d /\ rx[c].gapSeq + 1 = e + d + 0 + q.len /\ q.seq = e + d + 0
      BY <1>3, <2>2, <3>1, <3>2, <3>3, <3>4 DEF LinkInv
    <3> HIDE DEF e, d
    <3>6. q.seq = e + d
      BY <3>1, <3>5
    <3>7. q.seq + n = e + d + n
      BY <3>6
    <3>8. rx[c].gapSeq + 1 = e + d + n + (q.len - n)
      BY <1>3, <1>5, <3>1, <3>5
    <3>9. \A i \in 1..Len(rs) : rs[i].len # 0 /\ rs[i].seq = e + d + n
      <4>1. n # q.len => less.len # 0 /\ less.seq = e + d + n
        BY <1>3, <1>5, <1>8, <3>7
      <4> QED BY <1>9, <4>1
    <3> QED BY <1>9, <1>10, <1>13, <2>2, <3>5, <3>7, <3>8, <3>9 DEF LoadedNext, e, d
  <2> QED BY <2>1, <2>2
<1>17. tx[c].next <= t.next
  BY <1>4, <1>13
<1>18. k \in 0..Len(t.relic) /\ Len(t.relic) = n
  BY <1>5, <1>10, <1>13
<1>19. rs = t.reqs /\ rs \o up[c] = rs
  BY <1>9, <1>13
<1>20. Write(c, Prefix(t.relic, k))
  BY <1>2, <1>13
<1> QED BY <1>2, <1>9, <1>13, <1>14, <1>15, <1>16, <1>17, <1>18, <1>19, <1>20, WriteServed

\* A progress report moves the session on.
LEMMA ProgressKeeps == ASSUME MulticastInv, NEW c \in Conns, Progress(c) PROVE MulticastInv'
<1> DEFINE q == tx[c].reqs[1]
           rs == tx[c].reqs
           u == up[c]
           ask == asked(c)
           w == Tail(rs)
           t == [tx[c] EXCEPT !.next = q.seq, !.reqs = w]
           new == w \o u
<1>1. TypeOK /\ SenderInv /\ LoopInv /\ ConnInv(c) /\ c # 0 /\ MaxSeq \in Nat
  BY MulticastAssumption DEF MulticastInv
<1>2. /\ spc = "serve" /\ cur = c /\ tx[c].relic = <<>> /\ q.len = 0 /\ GoOn(c, t)
      /\ UNCHANGED <<ringVars, attVars, mcVars, cullVars, spc, netVars, recvVars>>
  BY DEF Progress
<1>3. /\ tx[c].st = "live" /\ c \in todo /\ tx[c].subs = Subs[c]
      /\ rs # <<>> /\ Len(rs) \in Nat \ {0}
      /\ q \in Requests /\ q.op = "=" /\ q.seq \in Nat /\ q.len \in Nat
      /\ 1 \in 1..Len(ask) /\ ask[1] = q
      /\ readSeq[1] <= tx[c].next /\ tx[c].next <= q.seq /\ q.seq + q.len <= readSeq[0]
      /\ rx[c].expecting = SEQ_MAX => rx[c].st \notin {"connecting", "open"}
  <2>1. q = tx[c].reqs[1]
    OBVIOUS
  <2>2. cur = c /\ tx[c].relic = <<>>
    BY <1>2
  <2> HIDE DEF q
  <2> QED BY <2>1, <2>2, NextRequest
<1>4. /\ tx[c] \in TxStates /\ tx \in [Conns -> TxStates] /\ up \in [Conns -> Seq(Requests)]
      /\ down \in [Conns -> Seq(Writes)] /\ Len(rs) <= Cap
  BY <1>1 DEF TypeOK
<1> HIDE DEF q, ask
<1>5. q.seq \in Seqs /\ q.seq <= readSeq[0] /\ readSeq[0] \in Nat
  <2>1. q.seq \in Seqs
    BY <1>3 DEF Requests
  <2>2. readSeq[0] \in Nat
    BY <1>1, Counters
  <2> QED BY <1>2, <1>3, <2>1, <2>2
<1> HIDE DEF rs, u
<1>6. /\ rs \in Seq(Requests) /\ u \in Seq(Requests) /\ Len(ask) = Len(rs) + Len(u)
      /\ Len(u) \in Nat
      /\ \A i \in 1..Len(rs) : ask[i] = rs[i]
      /\ \A i \in 1..Len(u) : ask[Len(rs) + i] = u[i]
  <2>1. /\ rs \in Seq(Requests) /\ u \in Seq(Requests) /\ Len(ask) = Len(rs) + Len(u)
        /\ \A i \in 1..Len(rs) : ask[i] = rs[i]
        /\ \A i \in 1..Len(u) : ask[Len(rs) + i] = u[i]
    BY <1>1, AskedSeq DEF ask, rs, u
  <2> QED BY <2>1
<1>7. w \in Seq(Requests) /\ Len(w) = Len(rs) - 1 /\ \A i \in 1..Len(w) : w[i] = rs[i + 1]
  BY <1>3, <1>6, HeadTailProperties
<1> HIDE DEF w
<1>8. /\ new \in Seq(Requests) /\ Len(new) = Len(w) + Len(u)
      /\ \A i \in 1..Len(w) + Len(u) : new[i] = IF i <= Len(w) THEN w[i] ELSE u[i - Len(w)]
  <2>1. w \in Seq(Requests) /\ u \in Seq(Requests)
    BY <1>6, <1>7
  <2> QED BY <2>1, ConcatProperties
<1> HIDE DEF new
<1> DEFINE a == Len(rs)
           b == Len(u)
           l == Len(ask)
<1>9. a \in Nat \ {0} /\ b \in Nat /\ l = a + b /\ Len(w) = a - 1 /\ Len(new) = l - 1
  <2>1. a \in Nat \ {0} /\ b \in Nat /\ l = a + b /\ Len(w) = a - 1 /\ Len(new) = Len(w) + b
    BY <1>3, <1>6, <1>7, <1>8
  <2> HIDE DEF a, b, l
  <2> QED BY <2>1
<1>10. ASSUME NEW i \in 1..Len(new) PROVE new[i] = ask[i + 1] /\ i + 1 \in 1..l /\ 1 < i + 1 /\ 1 \in 1..l
  <2>1. i + 1 \in 1..l /\ i \in 1..(a - 1) + b /\ 1 < i + 1 /\ 1 \in 1..l
    <3> HIDE DEF a, b, l
    <3> QED BY <1>9
  <2>2. CASE i <= a - 1
    <3>1. i \in 1..Len(w) /\ i + 1 \in 1..a
      <4> HIDE DEF a
      <4> QED BY <1>9, <2>2
    <3>2. new[i] = w[i] /\ w[i] = rs[i + 1] /\ ask[i + 1] = rs[i + 1]
      BY <1>6, <1>7, <1>8, <1>9, <2>1, <2>2, <3>1
    <3> QED BY <2>1, <3>2
  <2>3. CASE i > a - 1
    <3>1. i - (a - 1) \in 1..b /\ a + (i - (a - 1)) = i + 1 /\ ~ (i <= a - 1)
      <4> HIDE DEF a, b
      <4> QED BY <1>9, <2>1, <2>3
    <3>2. new[i] = u[i - (a - 1)]
      BY <1>8, <1>9, <2>1, <3>1
    <3>3. ask[a + (i - (a - 1))] = u[i - (a - 1)]
      BY <1>6, <3>1
    <3> QED BY <2>1, <3>1, <3>2, <3>3
  <2>4. i \in Int /\ a - 1 \in Int
    BY <1>9
  <2> HIDE DEF a
  <2> QED BY <2>2, <2>3, <2>4
<1> HIDE DEF a, b, l
<1>11. /\ t \in TxStates /\ t.st = "live" /\ t.subs = Subs[c] /\ t.reqs = w /\ t.next = q.seq
       /\ t.relic = <<>>
  BY <1>2, <1>3, <1>4, <1>5, <1>7 DEF TxStates
<1> HIDE DEF t
<1>12. /\ tx'[c] = t /\ up' = up /\ rx' = rx /\ down' = down /\ readSeq' = readSeq /\ log' = log
  BY <1>2, <1>4 DEF GoOn, Return, ringVars, netVars, recvVars
<1>13. asked(c)' = new
  BY <1>11, <1>12 DEF asked, new, u
<1>14. LastAsked(c)' = LastAsked(c)
  <2>1. LastAsked(c)' = IF new = <<>> THEN 0 ELSE new[Len(new)].len
    BY <1>13 DEF LastAsked
  <2>2. LastAsked(c) = ask[l].len
    <3>1. ask # <<>>
      BY <1>9 DEF l
    <3> QED BY <3>1 DEF LastAsked, ask, l
  <2>3. CASE l = 1
    <3>1. new = <<>>
      BY <1>8, <1>9, <2>3
    <3> QED BY <1>2, <1>3, <2>1, <2>2, <2>3, <3>1
  <2>4. CASE l # 1
    <3>1. l - 1 \in 1..Len(new) /\ (l - 1) + 1 = l
      BY <1>9, <2>4
    <3>2. new # <<>> /\ new[Len(new)] = ask[l]
      BY <1>8, <1>9, <1>10, <3>1
    <3> QED BY <2>1, <2>2, <3>2
  <2> QED BY <2>3, <2>4
<1>15. StageInv(c)'
  <2>1. StageInv(c)
    BY <1>1 DEF ConnInv
  <2> QED BY <1>3, <1>11, <1>12, <2>1 DEF StageInv
<1>16. AskedInv(c)'
  <2>1. AskedInv(c)
    BY <1>1 DEF ConnInv
  <2>2. readSeq[1] <= q.seq /\ q.seq <= readSeq[0]
    <3>1. readSeq[1] \in Nat /\ tx[c].next \in Nat
      BY <1>1, Counters, ConnTypes
    <3> QED BY <1>3, <1>5, <3>1
  <2>3. ASSUME NEW i \in 1..Len(new)
        PROVE  /\ new[i].op # "+" /\ q.seq <= new[i].seq /\ new[i].len <= Cap
               /\ new[i].seq + new[i].len <= readSeq[0]
    <3>1. new[i] = ask[i + 1] /\ i + 1 \in 1..Len(ask) /\ 1 \in 1..Len(ask) /\ 1 < i + 1 /\ i + 1 # 1
      BY <1>10 DEF l
    <3>2. ask[1].seq <= ask[i + 1].seq
      BY <1>3, <2>1, <3>1 DEF AskedInv, ask
    <3>3. /\ ask[i + 1].op # "+" /\ ask[i + 1].len <= Cap
          /\ ask[i + 1].seq + ask[i + 1].len <= readSeq[0]
      BY <1>3, <2>1, <3>1 DEF AskedInv, ask
    <3> QED BY <1>3, <3>1, <3>2, <3>3
  <2>4. ASSUME NEW i \in 1..Len(new), NEW j \in 1..Len(new), i < j
        PROVE  new[i].len = 0 /\ new[i].seq <= new[j].seq
    <3>1. /\ new[i] = ask[i + 1] /\ i + 1 \in 1..Len(ask)
          /\ new[j] = ask[j + 1] /\ j + 1 \in 1..Len(ask)
      BY <1>10 DEF l
    <3>2. i + 1 < j + 1
      BY <2>4
    <3> QED BY <1>3, <2>1, <3>1, <3>2 DEF AskedInv, ask
  <2>5. 1..Len(t.relic) = {}
    BY <1>11
  <2> QED BY <1>11, <1>12, <1>13, <2>2, <2>3, <2>4, <2>5 DEF AskedInv
<1>17. StartInv(c)'
  BY <1>3, <1>12 DEF StartInv
<1>18. StreamInv(c)'
  <2>1. LogGrows
    BY <1>1, <1>12, LogGrowsStep
  <2>2. readSeq'[0] \in Nat /\ readSeq[0] <= readSeq'[0]
    BY <1>1, <1>12, Counters
  <2>3. rx'[c] = rx[c] /\ down'[c] = down[c] /\ StreamInv(c)
    BY <1>1, <1>12 DEF ConnInv
  <2> QED BY <1>1, <2>1, <2>2, <2>3, StreamKept
<1>19. LinkInv(c)'
  <2>1. LinkInv(c)
    BY <1>1 DEF ConnInv
  <2>2. GapPending(c)' = GapPending(c)
    BY <1>12 DEF GapPending
  <2> SUFFICES ASSUME rx[c].expecting # SEQ_MAX PROVE LinkInv(c)'
    BY <1>12 DEF LinkInv
  <2> DEFINE e == rx[c].expecting
             d == Len(down[c])
  <2>3. q.seq <= e + d
    <3>1. ask[1].seq <= e
      BY <1>2, <1>3, <2>1 DEF LinkInv, ask
    <3>2. e \in Nat /\ d \in Nat
      BY <1>1, ConnTypes
    <3> HIDE DEF e, d
    <3> QED BY <1>3, <3>1, <3>2
  <2>4. ASSUME NEW i \in 1..Len(new)
        PROVE  IF new[i].len = 0 THEN new[i].seq <= e ELSE new[i].seq = e + d + Len(tx[c].relic)
    <3>1. i + 1 \in 1..Len(ask) /\ new[i] = ask[i + 1]
      BY <1>10 DEF l
    <3> QED BY <1>3, <2>1, <3>1 DEF LinkInv, ask
  <2> QED BY <1>2, <1>3, <1>11, <1>12, <1>13, <1>14, <2>1, <2>2, <2>3, <2>4 DEF LinkInv
<1>20. ConnInv(c)'
  BY <1>15, <1>16, <1>17, <1>18, <1>19 DEF ConnInv
<1> DEFINE v == down[c]
           y == up[c]
<1>21. v \in Seq(Writes) /\ down' = [down EXCEPT ![c] = v] /\ y \in Seq(Requests) /\ up' = [up EXCEPT ![c] = y]
  BY <1>4, <1>12
<1>22. tx[c].next <= t.next /\ Len(t.reqs) <= Cap
  <2>1. Len(w) <= Cap
    <3>1. Len(rs) <= Cap /\ Cap \in Nat
      BY <1>4, MulticastAssumption DEF rs
    <3> QED BY <1>3, <1>7, <3>1
  <2> QED BY <1>3, <1>11, <2>1
<1> HIDE DEF v, y
<1> QED BY <1>2, <1>3, <1>11, <1>20, <1>21, <1>22, Served DEF netVars

\* The socket takes nothing.
LEMMA ResendLaterKeeps == ASSUME MulticastInv, NEW c \in Conns, ResendLater(c) PROVE MulticastInv'
<1>1. TypeOK /\ LoopInv /\ c # 0
  BY MulticastAssumption DEF MulticastInv
<1>2. /\ spc = "serve" /\ tx' = [tx EXCEPT ![c] = tx[c]] /\ cur' = 0 /\ todo' = todo \ {c} /\ cur = c
      /\ UNCHANGED <<ringVars, attVars, mcVars, cullVars, spc, netVars, recvVars>>
  BY DEF ResendLater, Return
<1>3. tx' = tx
  BY <1>1, <1>2 DEF TypeOK
<1> DEFINE t == tx[c]
           u == up[c]
           w == down[c]
<1>4. /\ t \in TxStates /\ t.st = "live" /\ Len(t.reqs) <= Cap /\ t.next <= t.next /\ c \in todo
      /\ u \in Seq(Requests) /\ up' = [up EXCEPT ![c] = u]
      /\ w \in Seq(Writes) /\ down' = [down EXCEPT ![c] = w]
  BY <1>1, <1>2, ConnTypes DEF TypeOK, LoopInv, Live, netVars
<1>5. ConnInv(c)'
  <2>1. LogGrows
    BY <1>1, <1>2, LogGrowsStep DEF ringVars
  <2>2. readSeq[0] \in Nat /\ readSeq[1] \in Nat /\ SenderInv /\ ConnInv(c) /\ AskedInv(c) /\ readSeq' = readSeq
    BY <1>1, <1>2, Counters DEF MulticastInv, ConnInv, ringVars
  <2>3. readSeq'[0] \in Nat /\ readSeq[0] <= readSeq'[0] /\ readSeq'[1] \in Nat /\ readSeq'[1] <= tx[c].next
    BY <1>4, <2>2 DEF AskedInv
  <2>4. tx'[c] = tx[c] /\ rx'[c] = rx[c] /\ up'[c] = up[c] /\ down'[c] = down[c]
    BY <1>2, <1>3 DEF netVars, recvVars
  <2> QED BY <1>1, <2>1, <2>2, <2>3, <2>4, ConnKept
<1>6. Return(c, t)
  BY DEF ResendLater
<1> HIDE DEF u, w, t
<1>7. cut' = cut /\ sent' = sent /\ tx[c].next <= t.next
  BY <1>2, <1>4 DEF netVars, t
<1> QED BY <1>2, <1>4, <1>5, <1>6, <1>7, Served

\* Whatever a session does for its receiver.
LEMMA ServeKeeps == ASSUME MulticastInv, NEW c \in Conns, Serve(c) PROVE MulticastInv'
BY ReadKeeps, DropKeeps, SendRelicKeeps, ResendKeeps, ProgressKeeps, ResendLaterKeeps DEF Serve

-----------------------------------------------------------------------------
(***************************************************************************)
(* Steps of the receiving engines, and the sessions' beginning.            *)
(***************************************************************************)
\* What is left to show when a receiver worked on connection c.
LEMMA Received ==
  ASSUME MulticastInv, NEW c \in Conns,
         NEW t \in TxStates, tx' = [tx EXCEPT ![c] = t], Len(t.reqs) <= Cap,
         t = tx[c] \/ (tx[c].st # "live" /\ t.st # "live"),
         NEW v \in RxStates, rx' = [rx EXCEPT ![c] = v],
         NEW u \in Seq(Requests), up' = [up EXCEPT ![c] = u],
         NEW w \in Seq(Writes), down' = [down EXCEPT ![c] = w],
         UNCHANGED <<ringVars, attVars, mcVars, cullVars, loopVars, cut, sent, hung>>,
         held' \in [Receivers -> sent \cup {NoPacket}],
         sess' \in [Receivers -> Conns \cup {0}], SessInv', ConnInv(c)'
  PROVE  MulticastInv'
<1>1. TypeOK /\ SenderInv /\ LoopInv /\ c # 0
  BY MulticastAssumption DEF MulticastInv
<1>2. /\ tx \in [Conns -> TxStates] /\ rx \in [Conns -> RxStates]
      /\ up \in [Conns -> Seq(Requests)] /\ down \in [Conns -> Seq(Writes)]
  BY <1>1 DEF TypeOK
<1>3. /\ tx'[c] = t
      /\ \A d \in Conns \ {c} : tx'[d] = tx[d] /\ rx'[d] = rx[d] /\ up'[d] = up[d] /\ down'[d] = down[d]
  BY <1>2
<1>4. OnlyConn(c)
  BY <1>3 DEF OnlyConn, Untouched, ringVars
<1>5. TypeOK'
  <2>1. /\ tx' \in [Conns -> TxStates] /\ rx' \in [Conns -> RxStates]
        /\ up' \in [Conns -> Seq(Requests)] /\ down' \in [Conns -> Seq(Writes)]
    BY <1>2
  <2>2. \A d \in Conns : Len(tx'[d].reqs) <= Cap
    <3>1. \A d \in Conns : Len(tx[d].reqs) <= Cap
      BY <1>1 DEF TypeOK
    <3> QED BY <1>3, <3>1
  <2>3. held' \in [Receivers -> Packets]
    <3>1. sent \cup {NoPacket} \subseteq Packets
      <4>1. NoPacket \in Packets
        BY MulticastAssumption DEF NoPacket, Packets, Seqs
      <4> QED BY <1>1, <4>1 DEF TypeOK
    <3> QED BY <3>1
  <2> QED BY <1>1, <2>1, <2>2, <2>3 DEF TypeOK, head, ringVars, attVars, mcVars, cullVars, loopVars
<1>6. SenderInv'
  BY <1>1 DEF SenderInv, head, ringVars, mcVars
<1>7. LoopInv'
  <2>1. Live' = Live
    <3>1. ASSUME NEW d \in Conns PROVE tx'[d].st = "live" <=> tx[d].st = "live"
      BY <1>3
    <3> QED BY <3>1 DEF Live
  <2>2. cur # 0 => tx'[cur] = tx[cur]
    <3> SUFFICES ASSUME cur # 0 PROVE tx'[cur] = tx[cur]
      OBVIOUS
    <3>1. cur \in Conns /\ tx[cur].st = "live"
      BY <1>1 DEF LoopInv, Live
    <3> QED BY <1>3, <3>1
  <2> QED BY <1>1, <2>1, <2>2 DEF LoopInv, loopVars
<1>8. released' = released
  BY DEF attVars
<1>9. tx'[c].st = "live" => tx[c].st = "live" /\ tx[c].next <= tx'[c].next
  <2>1. tx[c].next \in Nat
    BY <1>1, ConnTypes
  <2> QED BY <1>3, <2>1
<1> QED BY <1>4, <1>5, <1>6, <1>7, <1>8, <1>9, OneConn

\* A receiver puts a datagram aside or is done with it.
LEMMA HoldKeeps ==
  ASSUME MulticastInv, held' \in [Receivers -> sent \cup {NoPacket}], rx' = rx, up' = up,
         UNCHANGED <<senderVars, down, cut, sent, sess, hung>>
  PROVE  MulticastInv'
<1>1. TypeOK /\ SenderInv /\ LoopInv /\ SessInv /\ AttachmentKept /\ \A c \in Conns : ConnInv(c)
  BY DEF MulticastInv
<1>2. TypeOK'
  <2>1. held' \in [Receivers -> Packets]
    <3>1. sent \cup {NoPacket} \subseteq Packets
      <4>1. NoPacket \in Packets
        BY MulticastAssumption DEF NoPacket, Packets, Seqs
      <4> QED BY <1>1, <4>1 DEF TypeOK
    <3> QED BY <3>1
  <2> QED BY <1>1, <2>1 DEF TypeOK, head, senderVars, ringVars, attVars, mcVars, cullVars, loopVars
<1>3. SenderInv'
  BY <1>1 DEF SenderInv, head, senderVars, ringVars, mcVars
<1>4. LoopInv' /\ SessInv' /\ AttachmentKept'
  BY <1>1 DEF LoopInv, SessInv, AttachmentKept, Live, senderVars, loopVars, attVars, ringVars
<1>5. \A c \in Conns : ConnInv(c)'
  <2>1. 0 \notin Conns
    BY MulticastAssumption
  <2>2. OnlyConn(0)
    BY DEF OnlyConn, Untouched, senderVars, ringVars
  <2> QED BY <1>1, <2>1, <2>2, OthersKept
<1> QED BY <1>2, <1>3, <1>4, <1>5 DEF MulticastInv

\* A waiting connection as the sender finds it.
LEMMA Waiting ==
  ASSUME MulticastInv, NEW c \in Conns, tx[c].st = "backlog"
  PROVE  /\ tx[c] = [NoTx EXCEPT !.st = "backlog"] /\ down[c] = <<>> /\ rx[c].expecting = SEQ_MAX
         /\ up[c] \in {<<>>, <<Subscribe>>} /\ rx[c].st # "none"
         /\ up[c] = <<>> => rx[c].st # "open"
<1>1. StageInv(c) /\ c \in Conns
  BY DEF MulticastInv, ConnInv
<1>2. tx[c] = [NoTx EXCEPT !.st = "backlog"]
  BY <1>1 DEF StageInv
<1>3. tx[c].subs # Subs[c]
  <2>1. tx[c].subs = {}
    BY <1>2 DEF NoTx
  <2>2. Subs[c] # {}
    BY MulticastAssumption
  <2> QED BY <2>1, <2>2
<1> QED BY <1>1, <1>2, <1>3 DEF StageInv

\* A connection that carries nothing but the subscriptions.
LEMMA OnlySubscribed ==
  ASSUME NEW q \in {<<>>, <<Subscribe>>}, NEW i \in 1..Len(q)
  PROVE  i = 1 /\ q[i] = Subscribe /\ q[i].op = "+" /\ q[i].seq = 0 /\ q[i].len = 0 /\ Len(q) = 1
<1>1. q = <<Subscribe>>
  <2>1. q = <<>> => 1..Len(q) = {}
    OBVIOUS
  <2> QED BY <2>1
<1> DEFINE s == Subscribe
<1>2. s.op = "+" /\ s.seq = 0 /\ s.len = 0
  BY DEF Subscribe
<1> HIDE DEF s
<1>3. q = <<s>> /\ Len(q) = 1 /\ i = 1 /\ q[i] = s
  <2>1. q = <<s>>
    BY <1>1 DEF s
  <2> QED BY <2>1
<1> QED BY <1>2, <1>3 DEF s

\* The session of a connection that is accepted starts from the backup cursor.
LEMMA AcceptKeeps ==
  ASSUME MulticastInv, NEW c \in Conns, doAccept(c), log' = log, readSeq' = readSeq,
         UNCHANGED <<rx, up>>
  PROVE  /\ ConnInv(c)' /\ tx'[c] \in TxStates /\ Len(tx'[c].reqs) <= Cap
         /\ tx' = [tx EXCEPT ![c] = tx'[c]] /\ down' = [down EXCEPT ![c] = down'[c]]
         /\ down'[c] \in Seq(Writes)
         /\ tx'[c].st = "live" => tx'[c].next = readSeq[1]
<1>1. /\ TypeOK /\ SenderInv /\ ConnInv(c) /\ tx[c].st = "backlog" /\ c \in Conns
      /\ 0 \in Seqs /\ 0 <= Cap
  BY MulticastAssumption DEF MulticastInv, doAccept, Seqs
<1>2. /\ tx[c] = [NoTx EXCEPT !.st = "backlog"] /\ down[c] = <<>> /\ rx[c].expecting = SEQ_MAX
      /\ up[c] \in {<<>>, <<Subscribe>>} /\ rx[c].st # "none"
      /\ up[c] = <<>> => rx[c].st # "open"
  BY <1>1, Waiting
<1>3. tx \in [Conns -> TxStates] /\ down \in [Conns -> Seq(Writes)] /\ NoTx \in TxStates
  <2>1. NoTx \in TxStates
    BY <1>1 DEF NoTx, TxStates
  <2> QED BY <1>1, <2>1 DEF TypeOK
<1>4. readSeq[1] \in Seqs /\ readSeq[1] <= readSeq[0] /\ readSeq[1] \in Nat /\ readSeq[0] \in Nat
  <2>1. readSeq[1] \in Seqs
    BY <1>1 DEF TypeOK
  <2> QED BY <1>1, <2>1, Counters
<1>5. StageInv(c) /\ StartInv(c)
  BY <1>1 DEF ConnInv
<1>6. rx' = rx /\ up' = up
  OBVIOUS
<1>7. CASE /\ tx' = [tx EXCEPT ![c] = [NoTx EXCEPT !.st = "live", !.next = readSeq[1]]]
           /\ down' = [down EXCEPT ![c] = <<First(readSeq[1])>>]
  <2> DEFINE t == [NoTx EXCEPT !.st = "live", !.next = readSeq[1]]
             w == <<First(readSeq[1])>>
  <2>1. t \in TxStates
    BY <1>3, <1>4 DEF TxStates
  <2>2. /\ t.st = "live" /\ t.next = readSeq[1] /\ t.subs = {} /\ t.reqs = <<>> /\ t.relic = <<>>
    BY DEF NoTx
  <2>3. /\ w \in Seq(Writes) /\ Len(w) = 1 /\ w[1].op = "min" /\ w[1].seq = readSeq[1] /\ w # <<>>
    BY <1>4 DEF First, Writes
  <2>4. tx' = [tx EXCEPT ![c] = t] /\ down' = [down EXCEPT ![c] = w]
    BY <1>7
  <2> HIDE DEF t, w
  <2>5. tx'[c] = t /\ down'[c] = w
    BY <1>3, <2>4
  <2>6. StageInv(c)'
    <3>1. up[c] # <<>> => up[c][1].op = "+"
      BY <1>2 DEF Subscribe
    <3> QED BY <1>2, <1>5, <1>6, <2>2, <2>5, <3>1 DEF StageInv
  <2>7. asked(c)' = up[c]
    <3>1. up[c] \in Seq(Requests)
      BY <1>1 DEF TypeOK
    <3>2. <<>> \o up[c] = up[c]
      BY <3>1, ConcatEmptySeq
    <3> QED BY <1>6, <2>2, <2>5, <3>2 DEF asked
  <2>8. AskedInv(c)'
    <3>1. ASSUME NEW i \in 1..Len(up[c]) PROVE i = 1 /\ up[c][i] = Subscribe /\ up[c][i].op = "+"
      BY <1>2, OnlySubscribed
    <3>2. \A i, j \in 1..Len(up[c]) : ~ (i < j)
      BY <3>1
    <3>3. 1..Len(t.relic) = {}
      BY <2>2
    <3>4. readSeq'[1] <= t.next /\ t.next <= readSeq'[0]
      BY <1>4, <2>2
    <3> QED BY <2>2, <2>5, <2>7, <3>1, <3>2, <3>3, <3>4 DEF AskedInv
  <2>9. StartInv(c)'
    <3>1. w[1].seq <= readSeq'[0]
      BY <1>4, <2>3
    <3> QED BY <1>2, <1>5, <1>6, <2>2, <2>3, <2>5, <3>1 DEF StartInv
  <2>10. StreamInv(c)' /\ LinkInv(c)'
    BY <1>2, <1>6 DEF StreamInv, LinkInv
  <2>11. ConnInv(c)'
    BY <2>6, <2>8, <2>9, <2>10 DEF ConnInv
  <2>12. Len(t.reqs) <= Cap
    BY <1>1, <2>2
  <2> QED BY <2>1, <2>2, <2>3, <2>4, <2>5, <2>11, <2>12
<1>8. CASE tx' = [tx EXCEPT ![c].st = "gone"] /\ down' = down
  <2> DEFINE t == [NoTx EXCEPT !.st = "gone"]
  <2>1. t \in TxStates
    BY <1>3 DEF TxStates
  <2>2. t.st = "gone" /\ t.reqs = <<>> /\ t = [NoTx EXCEPT !.st = t.st]
    BY DEF NoTx
  <2>3. tx' = [tx EXCEPT ![c] = t]
    BY <1>2, <1>8
  <2> HIDE DEF t
  <2>4. tx'[c] = t /\ down'[c] = down[c] /\ down[c] \in Seq(Writes) /\ down' = [down EXCEPT ![c] = down'[c]]
    BY <1>3, <1>8, <2>3
  <2>5. StageInv(c)'
    BY <1>2, <1>5, <1>6, <2>2, <2>4 DEF StageInv
  <2>6. AskedInv(c)' /\ StreamInv(c)' /\ LinkInv(c)'
    BY <1>2, <1>6, <2>2, <2>4 DEF AskedInv, StreamInv, LinkInv
  <2>7. StartInv(c)'
    BY <1>5, <1>6, <2>2, <2>4 DEF StartInv
  <2>8. ConnInv(c)'
    BY <2>5, <2>6, <2>7 DEF ConnInv
  <2>9. Len(t.reqs) <= Cap
    BY <1>1, <2>2
  <2> QED BY <2>1, <2>2, <2>3, <2>4, <2>8, <2>9
<1> QED BY <1>7, <1>8 DEF doAccept

\* A round of the sending engine begins.
LEMMA BeginKeeps == ASSUME MulticastInv, BeginRun PROVE MulticastInv'
<1>1. TypeOK /\ SenderInv /\ LoopInv /\ SessInv /\ AttachmentKept /\ \A c \in Conns : ConnInv(c)
  BY DEF MulticastInv
<1>2. /\ spc = "idle" /\ started' \in BOOLEAN /\ spc' = "serve" /\ cur = 0
      /\ todo' = {c \in Conns : tx'[c].st = "live"}
      /\ log' = log /\ readSeq' = readSeq /\ released' = released /\ rx' = rx /\ up' = up
      /\ UNCHANGED <<ringVars, attVars, mcVars, waitForSlow, lastBackupSeq, cur, up, cut, sent, recvVars>>
  BY <1>1 DEF BeginRun, TypeOK, LoopInv, ringVars, attVars, recvVars
<1>3. SenderInv' /\ SessInv'
  BY <1>1, <1>2, SenderKept DEF SessInv, ringVars, mcVars, recvVars
<1>4. LoopInv'
  BY <1>2 DEF LoopInv, Live
<1>5. ASSUME tx' \in [Conns -> TxStates], \A c \in Conns : Len(tx'[c].reqs) <= Cap,
             down' \in [Conns -> Seq(Writes)]
      PROVE  TypeOK'
  BY <1>1, <1>2, <1>5 DEF TypeOK, head, ringVars, attVars, mcVars, recvVars
<1>6. ASSUME NEW c \in Conns, doAccept(c) PROVE MulticastInv'
  <2>1. /\ ConnInv(c)' /\ tx'[c] \in TxStates /\ Len(tx'[c].reqs) <= Cap
        /\ tx' = [tx EXCEPT ![c] = tx'[c]] /\ down' = [down EXCEPT ![c] = down'[c]]
        /\ down'[c] \in Seq(Writes)
        /\ tx'[c].st = "live" => tx'[c].next = readSeq[1]
    BY <1>2, <1>6, AcceptKeeps
  <2>2. tx \in [Conns -> TxStates] /\ down \in [Conns -> Seq(Writes)]
    BY <1>1 DEF TypeOK
  <2>3. \A d \in Conns \ {c} : tx'[d] = tx[d] /\ down'[d] = down[d]
    <3> DEFINE t == tx'[c]
               w == down'[c]
    <3>1. tx' = [tx EXCEPT ![c] = t] /\ down' = [down EXCEPT ![c] = w]
      BY <2>1
    <3> HIDE DEF t, w
    <3> QED BY <2>2, <3>1
  <2>4. OnlyConn(c)
    BY <1>2, <2>3 DEF OnlyConn, Untouched
  <2>5. TypeOK'
    <3>1. \A d \in Conns : Len(tx[d].reqs) <= Cap
      BY <1>1 DEF TypeOK
    <3>2. \A d \in Conns : Len(tx'[d].reqs) <= Cap
      BY <2>1, <2>3, <3>1
    <3>3. tx' \in [Conns -> TxStates] /\ down' \in [Conns -> Seq(Writes)]
      <4> DEFINE t == tx'[c]
                 w == down'[c]
      <4>1. tx' = [tx EXCEPT ![c] = t] /\ down' = [down EXCEPT ![c] = w] /\ t \in TxStates /\ w \in Seq(Writes)
        BY <2>1
      <4> HIDE DEF t, w
      <4> QED BY <2>2, <4>1
    <3> QED BY <1>5, <3>2, <3>3
  <2> QED BY <1>2, <1>3, <1>4, <2>1, <2>4, <2>5, OneConn
<1>7. CASE UNCHANGED <<tx, down>>
  <2>1. TypeOK'
    BY <1>1, <1>5, <1>7 DEF TypeOK
  <2>2. AttachmentKept'
    BY <1>1, <1>2, <1>7 DEF AttachmentKept, Live
  <2>3. \A c \in Conns : ConnInv(c)'
    <3>1. 0 \notin Conns
      BY MulticastAssumption
    <3>2. OnlyConn(0)
      BY <1>2, <1>7 DEF OnlyConn, Untouched
    <3> QED BY <1>1, <3>1, <3>2, OthersKept
  <2> QED BY <1>3, <1>4, <2>1, <2>2, <2>3 DEF MulticastInv
<1> QED BY <1>6, <1>7 DEF BeginRun

\* A receiver without a session connects.
LEMMA ConnectKeeps == ASSUME MulticastInv, NEW r \in Receivers, HandleAd(r) PROVE MulticastInv'
<1>1. TypeOK /\ SenderInv /\ LoopInv /\ SessInv /\ \A c \in Conns : ConnInv(c)
  BY DEF MulticastInv
<1> DEFINE free == {c \in Conns : Owner[c] = r /\ rx[c].st = "none"}
<1>2. PICK c \in Conns : c = Min(free) /\ c \in free
  <2>1. free \in SUBSET Nat /\ free # {} /\ free \subseteq Conns
    BY MulticastAssumption DEF HandleAd
  <2> HIDE DEF free
  <2>2. Min(free) \in free
    BY <2>1, MinLeast
  <2> QED BY <2>1, <2>2
<1>3. /\ sess[r] = 0 /\ sess' = [sess EXCEPT ![r] = c]
      /\ rx' = [rx EXCEPT ![c].st = "connecting"] /\ tx' = [tx EXCEPT ![c].st = "backlog"]
      /\ UNCHANGED <<ringVars, attVars, mcVars, cullVars, loopVars, netVars, held, hung>>
  BY <1>2 DEF HandleAd
<1>4. c \in Conns /\ Owner[c] = r /\ rx[c].st = "none" /\ ConnInv(c)
  BY <1>1, <1>2
<1> HIDE DEF free
<1> DEFINE t == [NoTx EXCEPT !.st = "backlog"]
           v == [NoRx EXCEPT !.st = "connecting"]
<1>5. StageInv(c)
  BY <1>4 DEF ConnInv
<1>6. rx[c] = [NoRx EXCEPT !.st = rx[c].st] /\ tx[c].st = "none" /\ tx[c] = [NoTx EXCEPT !.st = tx[c].st]
  BY <1>4, <1>5 DEF StageInv
<1>7. up[c] = <<>> /\ down[c] = <<>>
  BY <1>4, <1>5, <1>6 DEF StageInv
<1>8. /\ tx \in [Conns -> TxStates] /\ rx \in [Conns -> RxStates]
      /\ up \in [Conns -> Seq(Requests)] /\ down \in [Conns -> Seq(Writes)]
      /\ 0 \in Seqs /\ 0 <= Cap
  <2>1. 0 \in Seqs /\ 0 <= Cap
    BY MulticastAssumption DEF Seqs
  <2> QED BY <1>1, <2>1 DEF TypeOK
<1>9. t \in TxStates /\ v \in RxStates
  <2>1. NoTx \in TxStates /\ NoRx \in RxStates
    BY <1>8 DEF NoTx, TxStates, NoRx, RxStates
  <2> QED BY <2>1 DEF TxStates, RxStates
<1>10. tx' = [tx EXCEPT ![c] = t] /\ rx' = [rx EXCEPT ![c] = v]
  <2>1. t = [tx[c] EXCEPT !.st = "backlog"]
    <3>1. tx[c] = [NoTx EXCEPT !.st = "none"]
      BY <1>6
    <3> QED BY <3>1 DEF NoTx
  <2>2. v = [rx[c] EXCEPT !.st = "connecting"]
    <3>1. rx[c] = [NoRx EXCEPT !.st = "none"]
      BY <1>4, <1>6
    <3> QED BY <3>1 DEF NoRx
  <2> HIDE DEF t, v
  <2> QED BY <1>3, <1>8, <2>1, <2>2
<1>11. /\ t.st = "backlog" /\ t.reqs = <<>> /\ t.relic = <<>> /\ t = [NoTx EXCEPT !.st = t.st]
       /\ v.st = "connecting" /\ v.expecting = SEQ_MAX /\ v.out = <<>> /\ v.gapSeq = -1
       /\ v = [NoRx EXCEPT !.st = v.st]
  BY DEF NoTx, NoRx
<1> HIDE DEF t, v
<1>12. /\ tx'[c] = t /\ rx'[c] = v /\ up'[c] = <<>> /\ down'[c] = <<>>
       /\ up' = up /\ down' = down
  BY <1>3, <1>4, <1>7, <1>8, <1>10 DEF netVars
<1>13. ConnInv(c)'
  <2>1. StageInv(c)'
    BY <1>11, <1>12 DEF StageInv
  <2>2. AskedInv(c)' /\ StreamInv(c)' /\ LinkInv(c)'
    BY <1>11, <1>12 DEF AskedInv, StreamInv, LinkInv
  <2>3. StartInv(c)'
    BY <1>11, <1>12 DEF StartInv
  <2> QED BY <2>1, <2>2, <2>3 DEF ConnInv
<1>14. SessInv'
  <2>1. sess \in [Receivers -> Conns \cup {0}]
    BY <1>1 DEF TypeOK
  <2> SUFFICES ASSUME NEW s \in Receivers, sess'[s] # 0
               PROVE  Owner[sess'[s]] = s /\ rx'[sess'[s]].st \in {"connecting", "open"}
    BY DEF SessInv
  <2>2. CASE s = r
    <3>1. sess'[s] = c
      BY <1>3, <2>1, <2>2
    <3> QED BY <1>4, <1>11, <1>12, <2>2, <3>1
  <2>3. CASE s # r
    <3>1. sess'[s] = sess[s] /\ sess[s] \in Conns
      BY <1>3, <2>1, <2>3
    <3>2. Owner[sess[s]] = s /\ rx[sess[s]].st \in {"connecting", "open"}
      BY <1>1, <3>1 DEF SessInv
    <3>3. sess[s] # c
      BY <1>4, <3>2
    <3>4. rx'[sess[s]] = rx[sess[s]]
      BY <1>8, <1>10, <3>1, <3>3
    <3> QED BY <3>1, <3>2, <3>4
  <2> QED BY <2>2, <2>3
<1> DEFINE u == up[c]
           w == down[c]
<1>15. /\ u \in Seq(Requests) /\ up' = [up EXCEPT ![c] = u]
       /\ w \in Seq(Writes) /\ down' = [down EXCEPT ![c] = w]
  BY <1>4, <1>8, <1>12
<1>16. /\ Len(t.reqs) <= Cap /\ tx[c].st # "live" /\ t.st # "live"
  BY <1>6, <1>8, <1>11
<1>17. sess' \in [Receivers -> Conns \cup {0}] /\ held' \in [Receivers -> sent \cup {NoPacket}]
  <2>1. sess' \in [Receivers -> Conns \cup {0}]
    BY <1>1, <1>3, <1>4 DEF TypeOK
  <2>2. held' \in [Receivers -> sent \cup {NoPacket}]
    BY <1>1, <1>3 DEF TypeOK, SenderInv
  <2> QED BY <2>1, <2>2
<1>18. UNCHANGED <<ringVars, attVars, mcVars, cullVars, loopVars, cut, sent, hung>>
  BY <1>3 DEF netVars
<1> HIDE DEF u, w
<1> QED BY <1>4, <1>9, <1>10, <1>13, <1>14, <1>15, <1>16, <1>17, <1>18, Received

\* Sessions stay theirs while a receiver works on one of its connections.
LEMMA SessionsStay ==
  ASSUME TypeOK, SessInv, NEW c \in Conns, NEW v, rx' = [rx EXCEPT ![c] = v],
         v.st \in {"connecting", "open"}, sess' = sess
  PROVE  SessInv'
<1>1. sess \in [Receivers -> Conns \cup {0}] /\ rx \in [Conns -> RxStates]
  BY DEF TypeOK
<1> SUFFICES ASSUME NEW s \in Receivers, sess[s] # 0
             PROVE  Owner[sess[s]] = s /\ rx'[sess[s]].st \in {"connecting", "open"}
  BY DEF SessInv
<1>2. Owner[sess[s]] = s /\ rx[sess[s]].st \in {"connecting", "open"} /\ sess[s] \in Conns
  BY <1>1 DEF SessInv
<1> QED BY <1>1, <1>2

\* What a receiver's step on connection c leaves of it if it neither reads nor writes there.
LEMMA Unread ==
  ASSUME TypeOK, SenderInv, NEW c \in Conns, ConnInv(c), tx' = tx, up' = up,
         UNCHANGED <<log, readSeq>>
  PROVE  AskedInv(c)' /\ asked(c)' = asked(c) /\ LastAsked(c)' = LastAsked(c)
<1>1. asked(c)' = asked(c)
  BY DEF asked
<1>2. LastAsked(c)' = LastAsked(c)
  BY <1>1 DEF LastAsked
<1>3. AskedInv(c) /\ log' = log /\ readSeq' = readSeq
  BY DEF ConnInv
<1>4. AskedInv(c)'
  BY <1>1, <1>3 DEF AskedInv, Subscribed, TagOf
<1> QED BY <1>1, <1>2, <1>4

\* A connection is established: the subscriptions go out.
LEMMA InitializeKeeps == ASSUME MulticastInv, NEW c \in Conns, initializeConn(c) PROVE MulticastInv'
<1>1. TypeOK /\ SenderInv /\ LoopInv /\ SessInv /\ ConnInv(c)
  BY DEF MulticastInv
<1> DEFINE v == [rx[c] EXCEPT !.st = "open"]
           s == <<Subscribe>>
           u == IF tx[c].st = "gone" THEN up[c] ELSE Append(up[c], Subscribe)
<1>2. /\ rx[c].st = "connecting" /\ rx' = [rx EXCEPT ![c] = v]
      /\ up' = [up EXCEPT ![c] = u]
      /\ UNCHANGED <<senderVars, down, cut, sent, sess, held, hung>>
  BY DEF initializeConn, Send
<1>3. StageInv(c) /\ StartInv(c) /\ AskedInv(c)
  BY <1>1 DEF ConnInv
<1>4. /\ tx \in [Conns -> TxStates] /\ rx \in [Conns -> RxStates] /\ Len(tx[c].reqs) <= Cap
      /\ up \in [Conns -> Seq(Requests)] /\ down \in [Conns -> Seq(Writes)]
  BY <1>1 DEF TypeOK
<1>5. up[c] = <<>> /\ rx[c] = [NoRx EXCEPT !.st = "connecting"]
  BY <1>2, <1>3 DEF StageInv
<1>6. /\ v \in RxStates /\ v.st = "open" /\ v.expecting = SEQ_MAX /\ v.out = rx[c].out
      /\ v.gapSeq = rx[c].gapSeq /\ rx[c].expecting = SEQ_MAX
  BY <1>4, <1>5 DEF RxStates, NoRx
<1>7. /\ Subscribe \in Requests /\ Subscribe.op = "+" /\ s \in Seq(Requests) /\ Len(s) = 1 /\ s[1] = Subscribe
      /\ s # <<>>
  <2>1. Subscribe \in Requests /\ Subscribe.op = "+"
    BY MulticastAssumption DEF Subscribe, Requests, Seqs
  <2> QED BY <2>1
<1>8. u = IF tx[c].st = "gone" THEN <<>> ELSE s
  BY <1>5
<1> HIDE DEF v, s, u
<1>9. u \in Seq(Requests) /\ (tx[c].st # "gone" => u = s)
  BY <1>7, <1>8
<1>10. /\ tx' = tx /\ rx'[c] = v /\ up'[c] = u /\ down' = down /\ readSeq' = readSeq /\ log' = log
  BY <1>2, <1>4 DEF senderVars, ringVars
<1>11. tx[c].st = "live" => tx[c].reqs = <<>> /\ tx[c].relic = <<>>
  BY <1>2, <1>3, <1>6 DEF StartInv
<1>12. StageInv(c)'
  <2>1. tx[c].st = "backlog" => u \in {<<>>, <<Subscribe>>}
    BY <1>8 DEF s
  <2> QED BY <1>2, <1>3, <1>6, <1>7, <1>9, <1>10, <2>1 DEF StageInv
<1>13. AskedInv(c)'
  <2> SUFFICES ASSUME tx[c].st = "live" PROVE AskedInv(c)'
    BY <1>10 DEF AskedInv
  <2>1. asked(c)' = s
    <3>1. <<>> \o s = s
      BY <1>7, ConcatEmptySeq
    <3> QED BY <1>9, <1>10, <1>11, <3>1 DEF asked
  <2>2. \A i \in 1..Len(s) : i = 1 /\ s[i] = Subscribe /\ s[i].op = "+"
    BY <1>7
  <2>3. \A i, j \in 1..Len(s) : ~ (i < j)
    BY <1>7
  <2>4. 1..Len(tx[c].relic) = {}
    BY <1>11
  <2> QED BY <1>3, <1>10, <1>11, <2>1, <2>2, <2>3, <2>4 DEF AskedInv
<1>14. StartInv(c)'
  <2>1. tx[c].st = "live" => u \in {<<>>, <<Subscribe>>}
    BY <1>9 DEF s
  <2> QED BY <1>2, <1>3, <1>6, <1>10, <2>1 DEF StartInv
<1>15. StreamInv(c)' /\ LinkInv(c)'
  BY <1>6, <1>10 DEF StreamInv, LinkInv
<1>16. ConnInv(c)'
  BY <1>12, <1>13, <1>14, <1>15 DEF ConnInv
<1>17. SessInv'
  BY <1>1, <1>2, <1>6, SessionsStay
<1> DEFINE t == tx[c]
           w == down[c]
<1>18. /\ t \in TxStates /\ tx' = [tx EXCEPT ![c] = t] /\ Len(t.reqs) <= Cap /\ t = tx[c]
       /\ w \in Seq(Writes) /\ down' = [down EXCEPT ![c] = w]
  BY <1>4, <1>10
<1>19. /\ sess' \in [Receivers -> Conns \cup {0}] /\ held' \in [Receivers -> sent \cup {NoPacket}]
       /\ UNCHANGED <<ringVars, attVars, mcVars, cullVars, loopVars, cut, sent, hung>>
  BY <1>1, <1>2 DEF TypeOK, SenderInv, senderVars
<1> HIDE DEF t, w
<1> QED BY <1>2, <1>6, <1>9, <1>16, <1>17, <1>18, <1>19, Received

\* A receiver notices that its connection is broken.
LEMMA RecvDropKeeps == ASSUME MulticastInv, NEW c \in Conns, RecvDropped(c) PROVE MulticastInv'
<1>1. TypeOK /\ SenderInv /\ LoopInv /\ SessInv /\ ConnInv(c)
  BY DEF MulticastInv
<1> DEFINE v == [NoRx EXCEPT !.st = "gone"]
           w == <<>>
<1>2. /\ rx[c].st \in {"connecting", "open"} /\ rx' = [rx EXCEPT ![c] = v]
      /\ down' = [down EXCEPT ![c] = w] /\ sess' = [sess EXCEPT ![Owner[c]] = 0]
      /\ UNCHANGED <<senderVars, up, cut, sent, held, hung>>
  BY DEF RecvDropped
<1>3. /\ tx \in [Conns -> TxStates] /\ rx \in [Conns -> RxStates] /\ Len(tx[c].reqs) <= Cap
      /\ up \in [Conns -> Seq(Requests)] /\ down \in [Conns -> Seq(Writes)]
      /\ sess \in [Receivers -> Conns \cup {0}] /\ Owner[c] \in Receivers
  BY <1>1, MulticastAssumption DEF TypeOK
<1>4. v \in RxStates /\ v.st = "gone" /\ v.expecting = SEQ_MAX /\ v = [NoRx EXCEPT !.st = v.st]
  <2>1. NoRx \in RxStates
    BY DEF NoRx, RxStates
  <2> QED BY <2>1 DEF RxStates, NoRx
<1>5. w \in Seq(Writes)
  OBVIOUS
<1> HIDE DEF v
<1>6. /\ tx' = tx /\ rx'[c] = v /\ up' = up /\ down'[c] = <<>> /\ readSeq' = readSeq /\ log' = log
  BY <1>2, <1>3 DEF senderVars, ringVars
<1> HIDE DEF w
<1>7. StageInv(c)'
  <2>1. StageInv(c)
    BY <1>1 DEF ConnInv
  <2> QED BY <1>2, <1>4, <1>6, <2>1 DEF StageInv
<1>8. AskedInv(c)'
  BY <1>1, <1>6, Unread
<1>9. StartInv(c)' /\ StreamInv(c)' /\ LinkInv(c)'
  BY <1>4, <1>6 DEF StartInv, StreamInv, LinkInv
<1>10. ConnInv(c)'
  BY <1>7, <1>8, <1>9 DEF ConnInv
<1>11. SessInv'
  <2> SUFFICES ASSUME NEW s \in Receivers, sess'[s] # 0
               PROVE  Owner[sess'[s]] = s /\ rx'[sess'[s]].st \in {"connecting", "open"}
    BY DEF SessInv
  <2>1. s # Owner[c] /\ sess'[s] = sess[s] /\ sess[s] \in Conns
    BY <1>2, <1>3
  <2>2. Owner[sess[s]] = s /\ rx[sess[s]].st \in {"connecting", "open"}
    BY <1>1, <2>1 DEF SessInv
  <2>3. rx'[sess[s]] = rx[sess[s]]
    BY <1>2, <1>3, <2>1, <2>2
  <2> QED BY <2>1, <2>2, <2>3
<1> DEFINE t == tx[c]
           u == up[c]
<1>12. /\ t \in TxStates /\ tx' = [tx EXCEPT ![c] = t] /\ Len(t.reqs) <= Cap /\ t = tx[c]
       /\ u \in Seq(Requests) /\ up' = [up EXCEPT ![c] = u]
  BY <1>3, <1>6
<1>13. /\ sess' \in [Receivers -> Conns \cup {0}] /\ held' \in [Receivers -> sent \cup {NoPacket}]
       /\ UNCHANGED <<ringVars, attVars, mcVars, cullVars, loopVars, cut, sent, hung>>
  BY <1>1, <1>2, <1>3 DEF TypeOK, SenderInv, senderVars
<1> HIDE DEF t, u
<1> QED BY <1>2, <1>4, <1>5, <1>10, <1>11, <1>12, <1>13, Received

\* Fields of one connection are changed one after the other.
LEMMA ChangedTwice ==
  ASSUME NEW D, NEW X, NEW f \in [D -> X], NEW c \in D, NEW a, NEW b
  PROVE  [f EXCEPT ![c] = a][c] = a /\ [[f EXCEPT ![c] = a] EXCEPT ![c] = b] = [f EXCEPT ![c] = b]
OBVIOUS

\* A receiver learns the number its session starts from.
LEMMA ReadMinKeeps == ASSUME MulticastInv, NEW c \in Conns, ReadMin(c) PROVE MulticastInv'
<1>1. TypeOK /\ SenderInv /\ LoopInv /\ SessInv /\ ConnInv(c)
  BY DEF MulticastInv
<1> DEFINE n == down[c][1].seq
           v == [rx[c] EXCEPT !.min = n, !.expecting = n]
           w == Tail(down[c])
<1>2. /\ rx[c].st = "open" /\ down[c] # <<>> /\ rx[c].expecting = SEQ_MAX
      /\ rx' = [rx EXCEPT ![c] = v] /\ down' = [down EXCEPT ![c] = w]
      /\ UNCHANGED <<senderVars, up, cut, sent, sess, held, hung>>
  <2> DEFINE a == [rx[c] EXCEPT !.min = n]
             f == [rx EXCEPT ![c] = a]
             b == [f[c] EXCEPT !.expecting = n]
  <2>1. rx' = [f EXCEPT ![c] = b]
    BY DEF ReadMin
  <2>2. f[c] = a /\ [f EXCEPT ![c] = b] = [rx EXCEPT ![c] = b]
    <3>1. rx \in [Conns -> RxStates]
      BY <1>1 DEF TypeOK
    <3> HIDE DEF a, b
    <3> QED BY <3>1, ChangedTwice
  <2>3. b = v
    BY <2>2
  <2> HIDE DEF b, f, v
  <2>4. rx' = [rx EXCEPT ![c] = v]
    BY <2>1, <2>2, <2>3
  <2> QED BY <2>4 DEF ReadMin
<1>3. /\ tx \in [Conns -> TxStates] /\ rx \in [Conns -> RxStates] /\ Len(tx[c].reqs) <= Cap
      /\ up \in [Conns -> Seq(Requests)] /\ down \in [Conns -> Seq(Writes)]
  BY <1>1 DEF TypeOK
<1>4. StageInv(c) /\ StartInv(c) /\ AskedInv(c)
  BY <1>1 DEF ConnInv
<1>5. Len(down[c]) = 1 /\ n <= readSeq[0] /\ rx[c].out = <<>> /\ rx[c].gapSeq = -1
  BY <1>2, <1>4 DEF StartInv
<1>6. w \in Seq(Writes) /\ Len(w) = 0
  BY <1>2, <1>3, <1>5, HeadTailProperties
<1>7. /\ n \in Nat /\ n \in Seqs /\ readSeq[0] \in Nat /\ readSeq[0] <= head /\ head <= MaxSeq /\ head \in Nat
      /\ MaxSeq \in Nat /\ SEQ_MAX \in Nat /\ SEQ_MAX > MaxSeq
  <2>1. 1 \in 1..Len(down[c]) /\ \A i \in 1..Len(down[c]) : down[c][i] \in Writes /\ down[c][i].seq \in Nat
    BY <1>1, <1>5, DataTypes
  <2>2. down[c][1] \in Writes
    BY <2>1
  <2>3. n \in Seqs
    BY <2>2 DEF Writes
  <2> QED BY <1>1, <2>1, <2>3, Counters
<1> HIDE DEF n
<1>8. n # SEQ_MAX /\ n <= head
  BY <1>5, <1>7
<1>9. /\ v \in RxStates /\ v.st = "open" /\ v.expecting = n /\ v.min = n /\ v.out = <<>> /\ v.gapSeq = -1
  BY <1>2, <1>3, <1>5, <1>7 DEF RxStates
<1> HIDE DEF v, w
<1>10. /\ tx' = tx /\ rx'[c] = v /\ up' = up /\ down'[c] = w /\ readSeq' = readSeq /\ log' = log
  BY <1>2, <1>3 DEF senderVars, ringVars
<1>11. StageInv(c)'
  <2>1. tx[c].st \notin {"none", "backlog"}
    BY <1>2, <1>4 DEF StageInv
  <2> QED BY <1>2, <1>4, <1>9, <1>10, <2>1 DEF StageInv
<1>12. AskedInv(c)' /\ asked(c)' = asked(c) /\ LastAsked(c)' = LastAsked(c)
  BY <1>1, <1>10, Unread
<1>13. StartInv(c)'
  BY <1>8, <1>9, <1>10 DEF StartInv
<1>14. ~ GapPending(c)'
  BY <1>9, <1>10 DEF GapPending
<1>15. StreamInv(c)'
  <2>1. SeqRange(n, n) = <<>>
    <3>1. SeqRange(n, n) \in Seq(Nat) /\ Len(SeqRange(n, n)) = n - n
      BY <1>7, RangeType
    <3> QED BY <1>7, <3>1
  <2>2. Among(SeqRange(n, n), Wanted(c)') = <<>>
    BY <2>1, AmongEmpty
  <2>3. -1 < readSeq[0] /\ n <= n /\ 1..Len(w) = {}
    BY <1>6, <1>7
  <2> QED BY <1>5, <1>6, <1>9, <1>10, <1>14, <2>2, <2>3 DEF StreamInv
<1>16. LinkInv(c)'
  <2> SUFFICES ASSUME tx[c].st = "live" PROVE LinkInv(c)'
    BY <1>10 DEF LinkInv
  <2>1. n = tx[c].next /\ tx[c].relic = <<>> /\ tx[c].reqs = <<>> /\ up[c] \in {<<>>, <<Subscribe>>}
    BY <1>2, <1>4 DEF StartInv, n
  <2>2. asked(c) = up[c]
    <3>1. up[c] \in Seq(Requests)
      BY <1>3
    <3>2. <<>> \o up[c] = up[c]
      BY <3>1, ConcatEmptySeq
    <3> QED BY <2>1, <3>2 DEF asked
  <2>3. \A i \in 1..Len(asked(c)) : asked(c)[i].len = 0 /\ asked(c)[i].seq = 0 /\ Len(asked(c)) = 1
    BY <2>1, <2>2, OnlySubscribed
  <2>4. LastAsked(c) = 0
    <3>1. CASE asked(c) = <<>>
      BY <3>1 DEF LastAsked
    <3>2. CASE asked(c) # <<>>
      <4>1. asked(c) = <<Subscribe>>
        BY <2>1, <2>2, <3>2
      <4>2. Len(asked(c)) = 1 /\ 1 \in 1..Len(asked(c))
        BY <4>1
      <4> QED BY <2>3, <3>2, <4>2 DEF LastAsked
    <3> QED BY <3>1, <3>2
  <2>5. n <= n + Len(w) /\ 0 <= n
    BY <1>6, <1>7
  <2> QED BY <1>9, <1>10, <1>12, <1>14, <2>1, <2>3, <2>4, <2>5 DEF LinkInv
<1>17. ConnInv(c)'
  BY <1>11, <1>12, <1>13, <1>15, <1>16 DEF ConnInv
<1>18. SessInv'
  BY <1>1, <1>2, <1>9, SessionsStay
<1> DEFINE t == tx[c]
           u == up[c]
<1>19. /\ t \in TxStates /\ tx' = [tx EXCEPT ![c] = t] /\ Len(t.reqs) <= Cap /\ t = tx[c]
       /\ u \in Seq(Requests) /\ up' = [up EXCEPT ![c] = u]
  BY <1>3, <1>10
<1>20. /\ sess' \in [Receivers -> Conns \cup {0}] /\ held' \in [Receivers -> sent \cup {NoPacket}]
       /\ UNCHANGED <<ringVars, attVars, mcVars, cullVars, loopVars, cut, sent, hung>>
  BY <1>1, <1>2 DEF TypeOK, SenderInv, senderVars
<1> HIDE DEF t, u
<1> QED BY <1>2, <1>6, <1>9, <1>17, <1>18, <1>19, <1>20, Received

\* A receiver reads the next message of the gap that is pending.
LEMMA ReadBackupKeeps == ASSUME MulticastInv, NEW c \in Conns, ReadBackup(c) PROVE MulticastInv'
<1>1. TypeOK /\ SenderInv /\ LoopInv /\ SessInv /\ ConnInv(c)
  BY DEF MulticastInv
<1> DEFINE m == Head(down[c])
           e == rx[c].expecting
           gap == rx[c].gapSeq
           d == Len(down[c])
           out == IF m.op = "msg" /\ Subscribed(c, m.seq) THEN Append(rx[c].out, m.seq) ELSE rx[c].out
           gap1 == IF gap = e THEN -1 ELSE gap
           v == [rx[c] EXCEPT !.out = out, !.expecting = e + 1, !.gapSeq = gap1]
           w == Tail(down[c])
<1>2. /\ rx[c].st = "open" /\ down[c] # <<>> /\ e # SEQ_MAX
      /\ rx' = [rx EXCEPT ![c] = v] /\ down' = [down EXCEPT ![c] = w]
      /\ UNCHANGED <<senderVars, up, cut, sent, sess, held, hung>>
  <2> DEFINE a == [rx[c] EXCEPT !.out = out]
             f == [rx EXCEPT ![c] = a]
             b == [f[c] EXCEPT !.expecting = e + 1]
             g == [f EXCEPT ![c] = b]
             x == [g[c] EXCEPT !.gapSeq = IF g[c].gapSeq = e THEN -1 ELSE g[c].gapSeq]
  <2>1. rx' = [g EXCEPT ![c] = x]
    <3>1. rx' = [rx EXCEPT ![c].out = out, ![c].expecting = e + 1,
                           ![c].gapSeq = IF @ = e THEN -1 ELSE @]
      BY Zenon DEF ReadBackup
    <3> HIDE DEF out, e
    <3> QED BY <3>1
  <2>2. rx \in [Conns -> RxStates]
    BY <1>1 DEF TypeOK
  <2>3. f[c] = a /\ g = [rx EXCEPT ![c] = b]
    <3> HIDE DEF a, b
    <3> QED BY <2>2, ChangedTwice
  <2>4. b = [a EXCEPT !.expecting = e + 1]
    BY <2>3
  <2>5. g[c] = b /\ [g EXCEPT ![c] = x] = [rx EXCEPT ![c] = x]
    <3> HIDE DEF b, x, f, a
    <3>1. g = [rx EXCEPT ![c] = b]
      BY <2>3
    <3> HIDE DEF g
    <3> QED BY <2>2, <3>1, ChangedTwice
  <2>6. x = v
    <3> HIDE DEF f, g, out
    <3>1. b = [rx[c] EXCEPT !.out = out, !.expecting = e + 1]
      BY <2>4
    <3>2. rx[c] \in RxStates
      BY <2>2
    <3>3. b.gapSeq = gap
      BY <3>1, <3>2 DEF RxStates
    <3> HIDE DEF b
    <3>4. x = [b EXCEPT !.gapSeq = gap1]
      BY <2>5, <3>3
    <3> QED BY <3>1, <3>4
  <2> HIDE DEF x, g, v
  <2>7. rx' = [rx EXCEPT ![c] = v]
    BY <2>1, <2>5, <2>6
  <2> QED BY <2>7 DEF ReadBackup
<1>3. /\ tx \in [Conns -> TxStates] /\ rx \in [Conns -> RxStates] /\ Len(tx[c].reqs) <= Cap
      /\ up \in [Conns -> Seq(Requests)] /\ down \in [Conns -> Seq(Writes)]
  BY <1>1 DEF TypeOK
<1>4. StageInv(c) /\ StreamInv(c) /\ LinkInv(c) /\ AskedInv(c)
  BY <1>1 DEF ConnInv
<1>5. /\ readSeq[0] \in Nat /\ readSeq[0] <= head /\ head <= MaxSeq /\ head \in Nat
      /\ MaxSeq \in Nat /\ SEQ_MAX \in Nat /\ SEQ_MAX > MaxSeq
      /\ e \in Nat /\ gap \in Nat \cup {-1} /\ d \in Nat /\ rx[c].min \in Nat /\ rx[c].out \in Seq(Seqs)
  BY <1>1, Counters, ConnTypes
<1>6. d # 0
  BY <1>2, <1>3
<1>7. gap # -1 /\ gap \in Nat /\ e <= gap /\ e + d <= gap + 1 /\ gap < readSeq[0] /\ rx[c].min <= e
  BY <1>2, <1>4, <1>5, <1>6 DEF StreamInv, GapPending
<1>8. w \in Seq(Writes) /\ Len(w) = d - 1 /\ \A i \in 1..Len(w) : w[i] = down[c][i + 1]
  BY <1>2, <1>3, HeadTailProperties
<1>9. m = IF Subscribed(c, e) THEN Message(e) ELSE Flush
  <2>1. 1 \in 1..d /\ e + (1 - 1) = e
    BY <1>5, <1>6
  <2>2. m = down[c][1]
    OBVIOUS
  <2> HIDE DEF m
  <2> QED BY <1>2, <1>4, <2>1, <2>2 DEF StreamInv
<1>10. out = IF Subscribed(c, e) THEN Append(rx[c].out, e) ELSE rx[c].out
  BY <1>9 DEF Message, Flush
<1> HIDE DEF out, w, m
<1>11. e + 1 \in Seqs /\ e \in Seqs /\ e + 1 # SEQ_MAX /\ e < head /\ e + 1 <= readSeq[0] /\ e <= readSeq[0]
  <2>1. e + 1 <= readSeq[0] /\ e + 1 <= MaxSeq
    <3> HIDE DEF e, gap
    <3> QED BY <1>5, <1>7
  <2> QED BY <1>5, <2>1 DEF Seqs
<1>12. out \in Seq(Seqs)
  BY <1>5, <1>10, <1>11, AppendProperties
<1>13. out = Among(SeqRange(rx[c].min, e + 1), Wanted(c))
  <2>1. rx[c].out = Among(SeqRange(rx[c].min, e), Wanted(c))
    BY <1>2, <1>4 DEF StreamInv
  <2>2. SeqRange(rx[c].min, e + 1) = Append(SeqRange(rx[c].min, e), e)
    BY <1>5, <1>7, RangeAppend
  <2>3. SeqRange(rx[c].min, e) \in Seq(Nat)
    BY <1>5, <1>7, RangeType
  <2>4. e \in Wanted(c) <=> Subscribed(c, e)
    <3>1. e \in 0..head - 1
      BY <1>5, <1>11
    <3> QED BY <3>1 DEF Wanted
  <2> DEFINE q == SeqRange(rx[c].min, e)
             S == Wanted(c)
  <2>5. Among(Append(q, e), S) = IF e \in S THEN Append(Among(q, S), e) ELSE Among(q, S)
    <3>1. e \in Nat /\ q \in Seq(Nat)
      BY <1>5, <2>3
    <3> HIDE DEF e, q, S
    <3> QED BY <3>1, AmongAppend
  <2> QED BY <1>10, <2>1, <2>2, <2>4, <2>5
<1>14. gap1 \in Seqs \cup {-1}
  BY <1>3 DEF RxStates
<1> HIDE DEF gap1
<1>15. /\ v \in RxStates /\ v.st = "open" /\ v.expecting = e + 1 /\ v.min = rx[c].min /\ v.out = out
       /\ v.gapSeq = gap1
  BY <1>2, <1>3, <1>11, <1>12, <1>14 DEF RxStates
<1> HIDE DEF v
<1>16. /\ tx' = tx /\ rx'[c] = v /\ up' = up /\ down'[c] = w /\ readSeq' = readSeq /\ log' = log
       /\ Len(w) = d - 1
  BY <1>2, <1>3, <1>8 DEF senderVars, ringVars
<1>17. StageInv(c)'
  <2>1. tx[c].st \notin {"none", "backlog"}
    BY <1>2, <1>4 DEF StageInv
  <2> QED BY <1>2, <1>4, <1>15, <1>16, <2>1 DEF StageInv
<1>18. AskedInv(c)' /\ asked(c)' = asked(c) /\ LastAsked(c)' = LastAsked(c)
  BY <1>1, <1>16, Unread
<1>19. StartInv(c)'
  BY <1>11, <1>15, <1>16 DEF StartInv
<1>20. /\ GapPending(c)' <=> gap # e
       /\ gap # e => gap1 = gap
       /\ gap = e => gap1 = -1 /\ d = 1
  <2>1. /\ gap # e => gap1 = gap
        /\ gap = e => gap1 = -1
    BY DEF gap1
  <2>2. gap = e => d = 1
    <3> HIDE DEF e, gap, d
    <3> QED BY <1>5, <1>6, <1>7
  <2>3. GapPending(c)' <=> gap1 # -1
    BY <1>15, <1>16 DEF GapPending
  <2> QED BY <1>7, <2>1, <2>2, <2>3
<1>21. StreamInv(c)'
  <2>1. out = Among(SeqRange(rx[c].min, e + 1), Wanted(c)')
    BY <1>13, <1>16 DEF Wanted, Subscribed, TagOf, head
  <2>2. rx[c].min <= e + 1 /\ gap1 < readSeq[0]
    <3>1. gap1 = gap \/ gap1 = -1
      BY <1>20
    <3>2. rx[c].min <= e + 1
      <4> HIDE DEF e
      <4> QED BY <1>5, <1>7
    <3> QED BY <1>5, <1>7, <3>1, <3>2
  <2>3. IF gap # e THEN e + 1 <= gap1 /\ e + 1 + (d - 1) <= gap1 + 1 ELSE d - 1 = 0
    <3>1. CASE gap = e
      BY <1>20, <3>1
    <3>2. CASE gap # e
      <4>1. e + 1 <= gap /\ e + 1 + (d - 1) <= gap + 1
        <5> HIDE DEF e, gap, d
        <5> QED BY <1>5, <1>7, <3>2
      <4> QED BY <1>20, <3>2, <4>1
    <3> QED BY <3>1, <3>2
  <2>4. ASSUME NEW i \in 1..Len(w)
        PROVE  w[i] = IF Subscribed(c, e + 1 + (i - 1)) THEN Message(e + 1 + (i - 1)) ELSE Flush
    <3>1. i + 1 \in 1..d /\ e + ((i + 1) - 1) = e + 1 + (i - 1)
      <4>1. i \in 1..d - 1
        BY <1>16
      <4> HIDE DEF e, d
      <4> QED BY <1>5, <1>6, <4>1
    <3> DEFINE s == e + ((i + 1) - 1)
    <3>2. down[c][i + 1] = IF Subscribed(c, s) THEN Message(s) ELSE Flush
      BY <1>2, <1>4, <3>1 DEF StreamInv
    <3>3. s = e + 1 + (i - 1) /\ w[i] = down[c][i + 1]
      BY <1>8, <3>1
    <3> HIDE DEF s
    <3> QED BY <3>2, <3>3
  <2>5. \A i \in 1..Len(w) :
           w[i] = IF log'[e + 1 + (i - 1) + 1] \in Subs[c] THEN Message(e + 1 + (i - 1)) ELSE Flush
    BY <1>16, <2>4 DEF Subscribed, TagOf
  <2> DEFINE e1 == e + 1
             d1 == Len(w)
  <2>6. /\ rx[c].min <= e1 /\ e1 <= readSeq[0] /\ e1 = e + 1 /\ d1 = d - 1
        /\ out = Among(SeqRange(rx[c].min, e1), Wanted(c)')
        /\ IF gap # e THEN e1 <= gap1 /\ e1 + d1 <= gap1 + 1 ELSE d1 = 0
        /\ \A i \in 1..d1 :
              w[i] = IF log'[e1 + (i - 1) + 1] \in Subs[c] THEN Message(e1 + (i - 1)) ELSE Flush
    BY <1>11, <1>16, <2>1, <2>2, <2>3, <2>5
  <2>7. rx'[c].expecting = e1 /\ Len(down'[c]) = d1 /\ down'[c] = w /\ rx'[c].min = rx[c].min /\ rx'[c].out = out
        /\ rx'[c].gapSeq = gap1
    BY <1>15, <1>16
  <2> HIDE DEF e1, d1
  <2> QED BY <1>16, <1>20, <2>2, <2>6, <2>7 DEF StreamInv, Subscribed, TagOf
<1>22. LinkInv(c)'
  <2> SUFFICES ASSUME tx[c].st = "live" PROVE LinkInv(c)'
    BY <1>16 DEF LinkInv
  <2> DEFINE t == tx[c]
             r == Len(t.relic)
             last == LastAsked(c)
             e1 == e + 1
             d1 == Len(w)
  <2>1. /\ t.next <= e + d
        /\ t.relic # <<>> => t.after = e + d + r
        /\ gap + 1 = e + d + r + last
        /\ \A i \in 1..Len(asked(c)) : IF asked(c)[i].len = 0 THEN asked(c)[i].seq <= e
                                       ELSE asked(c)[i].seq = e + d + r
    BY <1>2, <1>4, <1>7 DEF LinkInv, GapPending
  <2>2. t.next \in Nat /\ t.after \in Nat /\ r \in Nat /\ t.relic \in Seq(Seqs \cup {-1})
    BY <1>1, ConnTypes
  <2>3. last \in Nat
    <3>1. /\ asked(c) \in Seq(Requests) /\ \A i \in 1..Len(asked(c)) : asked(c)[i].len \in Nat
      BY <1>1, AskedSeq, DataTypes
    <3>2. asked(c) # <<>> => Len(asked(c)) \in 1..Len(asked(c))
      BY <3>1
    <3> QED BY <3>1, <3>2 DEF LastAsked
  <2>4. e1 + d1 = e + d
    <3>1. d1 = d - 1 /\ e1 = e + 1
      BY <1>16
    <3> HIDE DEF e, d, e1, d1
    <3> QED BY <1>5, <3>1
  <2>5. gap = e => t.relic = <<>> /\ last = 0
    <3> SUFFICES ASSUME gap = e PROVE t.relic = <<>> /\ last = 0
      OBVIOUS
    <3>1. d = 1 /\ gap + 1 = e + d + r + last
      BY <1>20, <2>1
    <3>2. r = 0 /\ last = 0
      <4> HIDE DEF e, gap, d, r, last
      <4> QED BY <1>5, <1>7, <2>2, <2>3, <3>1
    <3> QED BY <2>2, <3>2
  <2>6. ASSUME NEW i \in 1..Len(asked(c))
        PROVE  IF asked(c)[i].len = 0 THEN asked(c)[i].seq <= e1 ELSE asked(c)[i].seq = e1 + d1 + r
    <3>1. IF asked(c)[i].len = 0 THEN asked(c)[i].seq <= e ELSE asked(c)[i].seq = e + d + r
      BY <2>1
    <3>2. asked(c)[i].seq \in Nat
      BY <1>1, DataTypes
    <3> DEFINE s == asked(c)[i].seq
    <3>3. s <= e => s <= e1
      <4> HIDE DEF s
      <4> QED BY <1>5, <3>2 DEF s
    <3>4. s = e + d + r => s = e1 + d1 + r
      BY <2>4
    <3> QED BY <3>1, <3>3, <3>4
  <2>7. /\ t.next <= e1 + d1
        /\ t.relic # <<>> => t.after = e1 + d1 + r
        /\ gap # e => gap1 + 1 = e1 + d1 + r + last
    BY <1>20, <2>1, <2>4
  <2>8. /\ rx'[c].expecting = e1 /\ Len(down'[c]) = d1 /\ tx'[c] = t /\ rx'[c].gapSeq = gap1
        /\ asked(c)' = asked(c) /\ LastAsked(c)' = last /\ r = Len(t.relic)
    BY <1>15, <1>16, <1>18
  <2> HIDE DEF e1, d1, t, r, last
  <2> QED BY <1>20, <2>5, <2>6, <2>7, <2>8 DEF LinkInv
<1>23. ConnInv(c)'
  BY <1>17, <1>18, <1>19, <1>21, <1>22 DEF ConnInv
<1>24. SessInv'
  BY <1>1, <1>2, <1>15, SessionsStay
<1> DEFINE t == tx[c]
           u == up[c]
<1>25. /\ t \in TxStates /\ tx' = [tx EXCEPT ![c] = t] /\ Len(t.reqs) <= Cap /\ t = tx[c]
       /\ u \in Seq(Requests) /\ up' = [up EXCEPT ![c] = u]
  BY <1>3, <1>16
<1>26. /\ sess' \in [Receivers -> Conns \cup {0}] /\ held' \in [Receivers -> sent \cup {NoPacket}]
       /\ UNCHANGED <<ringVars, attVars, mcVars, cullVars, loopVars, cut, sent, hung>>
  BY <1>1, <1>2 DEF TypeOK, SenderInv, senderVars
<1> HIDE DEF t, u
<1> QED BY <1>2, <1>8, <1>15, <1>23, <1>24, <1>25, <1>26, Received

\* While no gap is pending nothing is asked for: what is on its way only reports progress.
LEMMA OnlyProgress ==
  ASSUME TypeOK, NEW c \in Conns, ConnInv(c), tx[c].st = "live", rx[c].expecting # SEQ_MAX, LastAsked(c) = 0
  PROVE  \A i \in 1..Len(asked(c)) : asked(c)[i].len = 0 /\ asked(c)[i].seq <= rx[c].expecting
<1> SUFFICES ASSUME NEW i \in 1..Len(asked(c))
             PROVE  asked(c)[i].len = 0 /\ asked(c)[i].seq <= rx[c].expecting
  OBVIOUS
<1>1. AskedInv(c) /\ LinkInv(c)
  BY DEF ConnInv
<1> DEFINE ask == asked(c)
           l == Len(ask)
<1>2. ask \in Seq(Requests)
  BY AskedSeq
<1>3. l \in Nat /\ l \in 1..l
  BY <1>2
<1>4. ask[i].len = 0
  <2>1. CASE i = l
    <3>1. ask # <<>>
      BY <1>2
    <3> QED BY <2>1, <3>1 DEF LastAsked
  <2>2. CASE i # l
    <3>1. i < l
      BY <1>3, <2>2
    <3> QED BY <1>1, <1>3, <3>1 DEF AskedInv
  <2> QED BY <2>1, <2>2
<1> QED BY <1>1, <1>4 DEF LinkInv

\* A receiver reports what it expects, or asks for n messages from there on.
LEMMA Asks ==
  ASSUME MulticastInv, NEW c \in Conns, rx[c].expecting # SEQ_MAX, ~GapPending(c),
         NEW n \in Nat, rx[c].expecting + n <= readSeq[0],
         NEW v, v = IF n = 0 THEN rx[c] ELSE [rx[c] EXCEPT !.gapSeq = (rx[c].expecting + n) - 1],
         rx' = [rx EXCEPT ![c] = v], Send(c, Request(rx[c].expecting, n)),
         UNCHANGED <<log, readSeq, tx, down>>
  PROVE  /\ ConnInv(c)' /\ v \in RxStates /\ v.st = "open"
         /\ up'[c] \in Seq(Requests) /\ up' = [up EXCEPT ![c] = up'[c]]
<1>1. TypeOK /\ SenderInv /\ LoopInv /\ SessInv /\ ConnInv(c)
  BY DEF MulticastInv
<1> DEFINE e == rx[c].expecting
           q == Request(e, n)
           u == IF tx[c].st = "gone" THEN up[c] ELSE Append(up[c], q)
           ask == asked(c)
           gap == v.gapSeq
<1>2. up' = [up EXCEPT ![c] = u]
  BY DEF Send
<1>3. /\ tx \in [Conns -> TxStates] /\ rx \in [Conns -> RxStates]
      /\ up \in [Conns -> Seq(Requests)] /\ down \in [Conns -> Seq(Writes)]
  BY <1>1 DEF TypeOK
<1>4. StageInv(c) /\ StreamInv(c) /\ LinkInv(c) /\ AskedInv(c)
  BY <1>1 DEF ConnInv
<1>5. /\ readSeq[0] \in Nat /\ readSeq[1] \in Nat /\ readSeq[0] <= head /\ head <= readSeq[1] + Cap
      /\ head \in Nat /\ Cap \in Nat /\ head <= MaxSeq
      /\ MaxSeq \in Nat /\ SEQ_MAX \in Nat /\ SEQ_MAX > MaxSeq
      /\ e \in Nat /\ e <= readSeq[0]
  <2>1. e \in Nat /\ e <= readSeq[0]
    BY <1>1, <1>4, ConnTypes DEF StreamInv
  <2> QED BY <1>1, <2>1, Counters
<1>6. /\ Len(down[c]) = 0 /\ rx[c].gapSeq = -1
      /\ tx[c].st = "live" => tx[c].relic = <<>> /\ LastAsked(c) = 0 /\ tx[c].next <= e
  <2>1. Len(down[c]) = 0
    BY <1>4 DEF StreamInv
  <2>2. tx[c].st = "live" => tx[c].relic = <<>> /\ LastAsked(c) = 0 /\ tx[c].next <= e + 0
    BY <1>4, <2>1 DEF LinkInv
  <2> QED BY <1>5, <2>1, <2>2 DEF GapPending
<1>7. rx[c].st = "open" /\ tx[c].st \notin {"none", "backlog"}
  <2>1. rx[c].st # "open" => rx[c].expecting = SEQ_MAX
    <3>1. rx[c].st # "open" => rx[c] = [NoRx EXCEPT !.st = rx[c].st]
      BY <1>4 DEF StageInv
    <3> DEFINE s == rx[c].st
    <3>2. [NoRx EXCEPT !.st = s].expecting = SEQ_MAX
      BY DEF NoRx
    <3> QED BY <3>1, <3>2
  <2> QED BY <1>4, <2>1 DEF StageInv
<1>8. e \in Seqs /\ n \in Seqs /\ e + n <= MaxSeq
  <2>1. e + n <= MaxSeq
    <3> HIDE DEF e
    <3> QED BY <1>5 DEF e
  <2> HIDE DEF e
  <2> QED BY <1>5, <2>1 DEF Seqs
<1>9. q \in Requests /\ q.op = "=" /\ q.seq = e /\ q.len = n
  BY <1>8 DEF Request, Requests
<1> HIDE DEF q
<1>10. u \in Seq(Requests)
  BY <1>3, <1>9, AppendProperties
<1>11. /\ v \in RxStates /\ v.st = "open" /\ v.expecting = e /\ v.min = rx[c].min /\ v.out = rx[c].out
       /\ gap = IF n = 0 THEN -1 ELSE (e + n) - 1
  <2>1. CASE n = 0
    BY <1>3, <1>6, <1>7, <2>1
  <2>2. CASE n # 0
    <3> DEFINE g == (e + n) - 1
    <3>1. v = [rx[c] EXCEPT !.gapSeq = g] /\ rx[c] \in RxStates
      BY <1>3, <2>2
    <3>2. g \in Seqs
      <4> HIDE DEF e
      <4> QED BY <1>5, <1>8, <2>2 DEF Seqs
    <3> HIDE DEF g
    <3>3. v \in RxStates /\ v.st = "open" /\ v.expecting = e /\ v.min = rx[c].min /\ v.out = rx[c].out /\ v.gapSeq = g
      BY <1>7, <3>1, <3>2 DEF RxStates
    <3> QED BY <2>2, <3>3 DEF g
  <2> QED BY <2>1, <2>2
<1>12. tx' = tx /\ rx'[c] = v /\ up'[c] = u /\ down' = down /\ readSeq' = readSeq /\ log' = log
  BY <1>2, <1>3
<1> HIDE DEF u, gap
<1>13. tx[c].st = "live" => u = Append(up[c], q)
  BY DEF u
<1>14. StageInv(c)'
  <2>1. tx[c].st = "live" /\ tx[c].subs # Subs[c] => u # <<>> /\ u[1].op = "+"
    <3> SUFFICES ASSUME tx[c].st = "live", tx[c].subs # Subs[c] PROVE u # <<>> /\ u[1].op = "+"
      OBVIOUS
    <3>1. up[c] # <<>> /\ up[c][1].op = "+" /\ up[c] \in Seq(Requests)
      BY <1>3, <1>4, <1>7 DEF StageInv
    <3>2. 1 \in 1..Len(up[c])
      BY <3>1
    <3>3. Len(u) = Len(up[c]) + 1 /\ u[1] = up[c][1]
      BY <1>9, <1>13, <3>1, <3>2, AppendProperties
    <3> QED BY <3>1, <3>3
  <2> QED BY <1>4, <1>7, <1>11, <1>12, <2>1 DEF StageInv
<1>15. StartInv(c)'
  BY <1>11, <1>12 DEF StartInv
<1>16. GapPending(c)' <=> n # 0
  <2>1. n # 0 => (e + n) - 1 # -1
    <3> HIDE DEF e
    <3> QED BY <1>5
  <2> QED BY <1>11, <1>12, <2>1 DEF GapPending, gap
<1>17. StreamInv(c)'
  <2>1. /\ rx[c].min <= e
        /\ rx[c].out = Among(SeqRange(rx[c].min, e), Wanted(c))
    BY <1>4 DEF StreamInv
  <2>2. rx[c].out = Among(SeqRange(rx[c].min, e), Wanted(c)')
    BY <1>12, <2>1 DEF Wanted, Subscribed, TagOf, head
  <2>3. n # 0 => e <= gap /\ e + 0 <= gap + 1
    <3> HIDE DEF e
    <3> QED BY <1>5, <1>11
  <2>4. gap < readSeq[0]
    <3> HIDE DEF e
    <3> QED BY <1>5, <1>11 DEF e
  <2>5. 1..Len(down[c]) = {}
    BY <1>6
  <2> QED BY <1>5, <1>6, <1>11, <1>12, <1>16, <2>1, <2>2, <2>3, <2>4, <2>5 DEF StreamInv, gap
<1>18. tx[c].st = "live" =>
          /\ asked(c)' \in Seq(Requests) /\ Len(asked(c)') = Len(ask) + 1
          /\ asked(c)'[Len(ask) + 1] = q /\ LastAsked(c)' = n
          /\ \A i \in 1..Len(ask) : asked(c)'[i] = ask[i] /\ ask[i].len = 0 /\ ask[i].seq <= e
  <2> SUFFICES ASSUME tx[c].st = "live"
               PROVE  /\ asked(c)' \in Seq(Requests) /\ Len(asked(c)') = Len(ask) + 1
                      /\ asked(c)'[Len(ask) + 1] = q /\ LastAsked(c)' = n
                      /\ \A i \in 1..Len(ask) : asked(c)'[i] = ask[i] /\ ask[i].len = 0 /\ ask[i].seq <= e
    OBVIOUS
  <2>1. tx[c].reqs \in Seq(Requests) /\ up[c] \in Seq(Requests) /\ ask \in Seq(Requests)
    BY <1>1, AskedSeq
  <2>2. asked(c)' = Append(ask, q)
    <3>1. asked(c)' = tx[c].reqs \o Append(up[c], q)
      BY <1>12, <1>13 DEF asked
    <3> DEFINE x == tx[c].reqs
               y == up[c]
    <3>2. x \o Append(y, q) = Append(x \o y, q)
      <4>1. x \in Seq(Requests) /\ y \in Seq(Requests) /\ q \in Requests
        BY <1>9, <2>1
      <4> HIDE DEF x, y
      <4> QED BY <4>1
    <3> QED BY <3>1, <3>2 DEF asked
  <2> HIDE DEF ask
  <2>3. /\ Append(ask, q) \in Seq(Requests) /\ Len(Append(ask, q)) = Len(ask) + 1
        /\ \A i \in 1..Len(ask) : Append(ask, q)[i] = ask[i]
        /\ Append(ask, q)[Len(ask) + 1] = q
    BY <1>9, <2>1, AppendProperties
  <2>4. LastAsked(c)' = n
    <3>1. Append(ask, q) # <<>>
      BY <2>1, <2>3
    <3> QED BY <1>9, <2>2, <2>3, <3>1 DEF LastAsked
  <2>5. ASSUME NEW i \in 1..Len(ask) PROVE ask[i].len = 0 /\ ask[i].seq <= e
    BY <1>1, <1>6, OnlyProgress DEF ask
  <2> QED BY <2>2, <2>3, <2>4, <2>5
<1>19. AskedInv(c)'
  <2> SUFFICES ASSUME tx[c].st = "live" PROVE AskedInv(c)'
    BY <1>12 DEF AskedInv
  <2> DEFINE new == asked(c)'
             l == Len(ask)
  <2>1. /\ new \in Seq(Requests) /\ Len(new) = l + 1 /\ new[l + 1] = q /\ l \in Nat
        /\ \A i \in 1..l : new[i] = ask[i] /\ ask[i].len = 0 /\ ask[i].seq <= e
    <3>1. l \in Nat
      <4>1. ask \in Seq(Requests)
        BY <1>1, AskedSeq
      <4> QED BY <4>1
    <3> QED BY <1>18, <3>1
  <2>2. n <= Cap /\ tx[c].next <= e
    <3>1. tx[c].next \in Nat /\ readSeq[1] <= tx[c].next /\ tx[c].next <= e /\ e + n <= readSeq[0]
      BY <1>1, <1>4, <1>6, ConnTypes DEF AskedInv
    <3> HIDE DEF e
    <3> QED BY <1>5, <3>1
  <2>3. ASSUME NEW i \in 1..l + 1
        PROVE  IF new[i].op = "+" THEN i = 1 /\ tx[c].reqs = <<>> /\ new[i] = Subscribe
               ELSE tx[c].next <= new[i].seq /\ new[i].len <= Cap /\ new[i].seq + new[i].len <= readSeq[0]
    <3>1. CASE i = l + 1
      BY <1>9, <2>1, <2>2, <3>1
    <3>2. CASE i # l + 1
      <4>1. i \in 1..l
        <5> HIDE DEF l
        <5> QED BY <2>1, <3>2
      <4> QED BY <1>4, <2>1, <4>1 DEF AskedInv
    <3> QED BY <3>1, <3>2
  <2>4. ASSUME NEW i \in 1..l + 1, NEW j \in 1..l + 1, i < j
        PROVE  new[i].len = 0 /\ new[i].seq <= new[j].seq
    <3>1. i \in 1..l
      <4> HIDE DEF l, new
      <4> QED BY <2>1, <2>4
    <3>2. CASE j = l + 1
      BY <1>9, <2>1, <3>1, <3>2
    <3>3. CASE j # l + 1
      <4>1. j \in 1..l
        <5> HIDE DEF l, new
        <5> QED BY <2>1, <3>3
      <4> QED BY <1>4, <2>1, <2>4, <3>1, <4>1 DEF AskedInv
    <3> QED BY <3>2, <3>3
  <2>5. 1..Len(tx[c].relic) = {} /\ tx[c].relic = <<>>
    BY <1>6
  <2>6. readSeq[1] <= tx[c].next /\ tx[c].next <= readSeq[0]
    BY <1>4 DEF AskedInv
  <2>7. Len(new) = l + 1
    BY <2>1
  <2> HIDE DEF l
  <2> QED BY <1>12, <2>3, <2>4, <2>5, <2>6, <2>7 DEF AskedInv
<1>20. LinkInv(c)'
  <2> SUFFICES ASSUME tx[c].st = "live" PROVE LinkInv(c)'
    BY <1>12 DEF LinkInv
  <2> DEFINE new == asked(c)'
             l == Len(ask)
  <2>1. /\ Len(new) = l + 1 /\ new[l + 1] = q /\ l \in Nat
        /\ \A i \in 1..l : new[i] = ask[i] /\ ask[i].len = 0 /\ ask[i].seq <= e
    <3>1. l \in Nat
      <4>1. ask \in Seq(Requests)
        BY <1>1, AskedSeq
      <4> QED BY <4>1
    <3> QED BY <1>18, <3>1
  <2>2. ASSUME NEW i \in 1..l + 1
        PROVE  IF new[i].len = 0 THEN new[i].seq <= e ELSE new[i].seq = e
    <3>1. CASE i = l + 1
      BY <1>5, <1>9, <2>1, <3>1
    <3>2. CASE i # l + 1
      <4>1. i \in 1..l
        <5> HIDE DEF l
        <5> QED BY <2>1, <3>2
      <4> QED BY <2>1, <4>1
    <3> QED BY <3>1, <3>2
  <2>3. Len(down[c]) = 0 /\ Len(tx[c].relic) = 0 /\ tx[c].relic = <<>> /\ tx[c].next <= e
    BY <1>6
  <2>4. e + 0 = e /\ e + 0 + 0 = e /\ e + 0 + 0 + n = e + n /\ (n # 0 => gap + 1 = e + n)
    <3> HIDE DEF e
    <3> QED BY <1>5, <1>11
  <2>5. Len(new) = l + 1 /\ LastAsked(c)' = n
    BY <1>18, <2>1
  <2>6. rx'[c].expecting = e /\ rx'[c].gapSeq = gap
    BY <1>11, <1>12 DEF gap
  <2> HIDE DEF l, e
  <2> QED BY <1>12, <1>16, <2>2, <2>3, <2>4, <2>5, <2>6 DEF LinkInv
<1>21. ConnInv(c)'
  BY <1>14, <1>15, <1>17, <1>19, <1>20 DEF ConnInv
<1> QED BY <1>2, <1>10, <1>11, <1>12, <1>21

\* The report of the timer.
LEMMA ReportKeeps == ASSUME MulticastInv, NEW c \in Conns, Report(c) PROVE MulticastInv'
<1>1. TypeOK /\ SenderInv /\ LoopInv /\ SessInv /\ ConnInv(c)
  BY DEF MulticastInv
<1>2. /\ rx[c].expecting # SEQ_MAX /\ ~GapPending(c) /\ Send(c, Request(rx[c].expecting, 0))
      /\ UNCHANGED <<senderVars, down, cut, sent, recvVars>>
  BY DEF Report
<1> DEFINE v == rx[c]
           n == 0
           t == tx[c]
           w == down[c]
           u == up'[c]
<1>3. /\ tx \in [Conns -> TxStates] /\ rx \in [Conns -> RxStates] /\ Len(tx[c].reqs) <= Cap
      /\ down \in [Conns -> Seq(Writes)]
  BY <1>1 DEF TypeOK
<1>4. /\ rx' = [rx EXCEPT ![c] = v] /\ tx' = [tx EXCEPT ![c] = t] /\ down' = [down EXCEPT ![c] = w]
      /\ t \in TxStates /\ Len(t.reqs) <= Cap /\ w \in Seq(Writes) /\ v \in RxStates /\ t = tx[c]
      /\ log' = log /\ readSeq' = readSeq /\ tx' = tx /\ down' = down /\ sess' = sess
  BY <1>2, <1>3 DEF senderVars, ringVars, recvVars
<1>5. n \in Nat /\ rx[c].expecting + n <= readSeq[0] /\ v = rx[c] /\ Send(c, Request(rx[c].expecting, n)) /\ n = 0
  <2>1. rx[c].expecting \in Nat /\ rx[c].expecting <= readSeq[0]
    BY <1>1, <1>2, ConnTypes DEF ConnInv, StreamInv
  <2> QED BY <1>2, <2>1
<1> HIDE DEF v, n, t, w
<1>6. v = IF n = 0 THEN rx[c] ELSE [rx[c] EXCEPT !.gapSeq = (rx[c].expecting + n) - 1]
  BY <1>5
<1>7. /\ ConnInv(c)' /\ v \in RxStates /\ v.st = "open"
      /\ up'[c] \in Seq(Requests) /\ up' = [up EXCEPT ![c] = up'[c]]
  BY <1>2, <1>4, <1>5, <1>6, Asks
<1>8. u \in Seq(Requests) /\ up' = [up EXCEPT ![c] = u]
  BY <1>7
<1>9. SessInv'
  BY <1>1, <1>4, <1>7, SessionsStay
<1>10. /\ sess' \in [Receivers -> Conns \cup {0}] /\ held' \in [Receivers -> sent \cup {NoPacket}]
       /\ UNCHANGED <<ringVars, attVars, mcVars, cullVars, loopVars, cut, sent, hung>>
  BY <1>1, <1>2 DEF TypeOK, SenderInv, senderVars, recvVars
<1> HIDE DEF u
<1> QED BY <1>4, <1>7, <1>8, <1>9, <1>10, Received

\* A receiver asks for the messages of a gap.
LEMMA GapKeeps ==
  ASSUME MulticastInv, NEW c \in Conns, ~GapPending(c), NEW upto \in Nat, upto <= readSeq[0],
         rx[c].expecting < upto, GapReport(c, upto), held' \in [Receivers -> sent \cup {NoPacket}],
         UNCHANGED <<senderVars, down, cut, sent, sess, hung>>
  PROVE  MulticastInv'
<1>1. TypeOK /\ SenderInv /\ LoopInv /\ SessInv /\ ConnInv(c)
  BY DEF MulticastInv
<1> DEFINE e == rx[c].expecting
           n == upto - e
           g == upto - 1
           v == [rx[c] EXCEPT !.gapSeq = g]
           t == tx[c]
           w == down[c]
           u == up'[c]
<1>2. /\ tx \in [Conns -> TxStates] /\ rx \in [Conns -> RxStates] /\ Len(tx[c].reqs) <= Cap
      /\ down \in [Conns -> Seq(Writes)]
  BY <1>1 DEF TypeOK
<1>3. /\ e \in Nat /\ readSeq[0] \in Nat /\ readSeq[0] <= head /\ head \in Nat /\ head <= MaxSeq
      /\ MaxSeq \in Nat /\ SEQ_MAX \in Nat /\ SEQ_MAX > MaxSeq
  BY <1>1, Counters, ConnTypes
<1>4. /\ n \in Nat /\ n # 0 /\ e + n = upto /\ (e + n) - 1 = g /\ e + n <= readSeq[0]
      /\ e # SEQ_MAX
  <2> HIDE DEF e
  <2> QED BY <1>3 DEF e
<1>5. /\ rx' = [rx EXCEPT ![c] = v] /\ tx' = [tx EXCEPT ![c] = t] /\ down' = [down EXCEPT ![c] = w]
      /\ t \in TxStates /\ Len(t.reqs) <= Cap /\ w \in Seq(Writes) /\ t = tx[c]
      /\ log' = log /\ readSeq' = readSeq /\ tx' = tx /\ down' = down /\ sess' = sess
      /\ Send(c, Request(rx[c].expecting, n))
  BY <1>2 DEF GapReport, senderVars, ringVars
<1>6. v = IF n = 0 THEN rx[c] ELSE [rx[c] EXCEPT !.gapSeq = (rx[c].expecting + n) - 1]
  BY <1>4
<1> HIDE DEF v, t, w, n
<1>7. /\ ConnInv(c)' /\ v \in RxStates /\ v.st = "open"
      /\ up'[c] \in Seq(Requests) /\ up' = [up EXCEPT ![c] = up'[c]]
  BY <1>4, <1>5, <1>6, Asks
<1>8. u \in Seq(Requests) /\ up' = [up EXCEPT ![c] = u]
  BY <1>7
<1>9. SessInv'
  BY <1>1, <1>5, <1>7, SessionsStay
<1>10. /\ sess' \in [Receivers -> Conns \cup {0}]
       /\ UNCHANGED <<ringVars, attVars, mcVars, cullVars, loopVars, cut, sent, hung>>
  BY <1>1 DEF TypeOK, senderVars
<1> HIDE DEF u
<1> QED BY <1>5, <1>7, <1>8, <1>9, <1>10, Received

\* A receiver hands over what a datagram brings.
LEMMA DeliverKeeps ==
  ASSUME MulticastInv, NEW c \in Conns, ~GapPending(c), rx[c].expecting # SEQ_MAX,
         NEW upto \in Nat, upto <= readSeq[0],
         rx[c].expecting < upto, Deliver(c, upto), held' \in [Receivers -> sent \cup {NoPacket}],
         UNCHANGED <<senderVars, down, cut, sent, sess, hung>>
  PROVE  MulticastInv'
<1>1. TypeOK /\ SenderInv /\ LoopInv /\ SessInv /\ ConnInv(c)
  BY DEF MulticastInv
<1> DEFINE e == rx[c].expecting
           more == Among(SeqRange(e, upto), Wanted(c))
           out == rx[c].out \o more
           v == [rx[c] EXCEPT !.out = out, !.expecting = upto]
<1>2. /\ tx \in [Conns -> TxStates] /\ rx \in [Conns -> RxStates] /\ Len(tx[c].reqs) <= Cap
      /\ down \in [Conns -> Seq(Writes)] /\ up \in [Conns -> Seq(Requests)]
  BY <1>1 DEF TypeOK
<1>3. rx' = [rx EXCEPT ![c] = v] /\ up' = up
  <2> DEFINE a == [rx[c] EXCEPT !.out = out]
             f == [rx EXCEPT ![c] = a]
             b == [f[c] EXCEPT !.expecting = upto]
  <2>1. rx' = [f EXCEPT ![c] = b] /\ up' = up
    <3>1. rx' = [rx EXCEPT ![c].out = @ \o more, ![c].expecting = upto] /\ up' = up
      BY Zenon DEF Deliver
    <3> HIDE DEF more
    <3> QED BY <3>1
  <2>2. f[c] = a /\ [f EXCEPT ![c] = b] = [rx EXCEPT ![c] = b]
    <3> HIDE DEF a, b
    <3> QED BY <1>2, ChangedTwice
  <2>3. b = v
    BY <2>2
  <2> HIDE DEF b, f, v
  <2> QED BY <2>1, <2>2, <2>3
<1>4. StageInv(c) /\ StreamInv(c) /\ LinkInv(c) /\ AskedInv(c)
  BY <1>1 DEF ConnInv
<1>5. /\ readSeq[0] \in Nat /\ readSeq[0] <= head /\ head \in Nat /\ head <= MaxSeq
      /\ MaxSeq \in Nat /\ SEQ_MAX \in Nat /\ SEQ_MAX > MaxSeq
      /\ e \in Nat /\ rx[c].min \in Nat /\ rx[c].out \in Seq(Seqs)
  BY <1>1, Counters, ConnTypes
<1>6. upto \in Seqs /\ upto # SEQ_MAX /\ upto <= MaxSeq /\ e <= upto
  <2> HIDE DEF e
  <2> QED BY <1>5 DEF Seqs, e
<1>7. /\ Len(down[c]) = 0 /\ rx[c].gapSeq = -1 /\ rx[c].min <= e
      /\ rx[c].out = Among(SeqRange(rx[c].min, e), Wanted(c))
      /\ tx[c].st = "live" => tx[c].relic = <<>> /\ LastAsked(c) = 0 /\ tx[c].next <= e
  <2>1. /\ Len(down[c]) = 0 /\ rx[c].min <= e
        /\ rx[c].out = Among(SeqRange(rx[c].min, e), Wanted(c))
    BY <1>4 DEF StreamInv
  <2>2. tx[c].st = "live" => tx[c].relic = <<>> /\ LastAsked(c) = 0 /\ tx[c].next <= e + 0
    BY <1>4, <2>1 DEF LinkInv
  <2> QED BY <1>5, <2>1, <2>2 DEF GapPending
<1>8. more \in Seq(Seqs) /\ out \in Seq(Seqs)
  <2>1. SeqRange(e, upto) \in Seq(Seqs)
    BY <1>5, <1>6, RangeInSeqs
  <2>2. more \in Seq(Seqs)
    BY <2>1, AmongType
  <2> HIDE DEF more
  <2> QED BY <1>5, <2>2, ConcatProperties
<1>9. out = Among(SeqRange(rx[c].min, upto), Wanted(c))
  <2> DEFINE a == rx[c].min
             S == Wanted(c)
  <2>1. a \in Nat /\ e \in Nat /\ upto \in Nat /\ a <= e /\ e <= upto
    BY <1>5, <1>6, <1>7
  <2>2. Joined(Among(SeqRange(a, upto), S), Among(SeqRange(a, e), S), Among(SeqRange(e, upto), S))
    <3> HIDE DEF a, S, e
    <3> QED BY <2>1, AmongRange
  <2> QED BY <1>7, <2>2 DEF Joined
<1> HIDE DEF more, out
<1>10. /\ v \in RxStates /\ v.st = rx[c].st /\ v.expecting = upto /\ v.min = rx[c].min /\ v.out = out
       /\ v.gapSeq = rx[c].gapSeq
  BY <1>2, <1>6, <1>8 DEF RxStates
<1> HIDE DEF v
<1>11. tx' = tx /\ rx'[c] = v /\ up' = up /\ down' = down /\ readSeq' = readSeq /\ log' = log
  BY <1>2, <1>3 DEF senderVars, ringVars
<1>12. rx[c].st = "open" /\ tx[c].st \notin {"none", "backlog"}
  <2>1. rx[c].st # "open" => rx[c].expecting = SEQ_MAX
    <3>1. rx[c].st # "open" => rx[c] = [NoRx EXCEPT !.st = rx[c].st]
      BY <1>4 DEF StageInv
    <3> DEFINE s == rx[c].st
    <3>2. [NoRx EXCEPT !.st = s].expecting = SEQ_MAX
      BY DEF NoRx
    <3> QED BY <3>1, <3>2
  <2> QED BY <1>4, <2>1 DEF StageInv
<1>13. StageInv(c)'
  BY <1>4, <1>10, <1>11, <1>12 DEF StageInv
<1>14. AskedInv(c)' /\ asked(c)' = asked(c) /\ LastAsked(c)' = LastAsked(c)
  BY <1>1, <1>11, Unread
<1>15. StartInv(c)'
  BY <1>6, <1>10, <1>11 DEF StartInv
<1>16. ~ GapPending(c)'
  BY <1>7, <1>10, <1>11 DEF GapPending
<1>17. StreamInv(c)'
  <2>1. out = Among(SeqRange(rx[c].min, upto), Wanted(c)')
    BY <1>9, <1>11 DEF Wanted, Subscribed, TagOf, head
  <2>2. rx[c].min <= upto /\ -1 < readSeq[0]
    <3> HIDE DEF e
    <3> QED BY <1>5, <1>6, <1>7
  <2>3. 1..Len(down[c]) = {}
    BY <1>7
  <2> QED BY <1>7, <1>10, <1>11, <1>16, <2>1, <2>2, <2>3 DEF StreamInv
<1>18. LinkInv(c)'
  <2> SUFFICES ASSUME tx[c].st = "live" PROVE LinkInv(c)'
    BY <1>11 DEF LinkInv
  <2>1. ASSUME NEW i \in 1..Len(asked(c)) PROVE asked(c)[i].len = 0 /\ asked(c)[i].seq <= upto
    <3>1. asked(c)[i].len = 0 /\ asked(c)[i].seq <= e
      BY <1>1, <1>7, OnlyProgress
    <3>2. asked(c)[i].seq \in Nat
      BY <1>1, DataTypes
    <3> DEFINE s == asked(c)[i].seq
    <3>3. s <= upto
      <4>1. s \in Nat /\ s <= e
        BY <3>1, <3>2
      <4> HIDE DEF s, e
      <4> QED BY <1>5, <1>6, <4>1
    <3> QED BY <3>1, <3>3
  <2>2. tx[c].next <= upto + 0
    <3>1. tx[c].next \in Nat /\ tx[c].next <= e
      BY <1>1, <1>7, ConnTypes
    <3> HIDE DEF e
    <3> QED BY <1>5, <1>6, <3>1
  <2> QED BY <1>7, <1>10, <1>11, <1>14, <1>16, <2>1, <2>2 DEF LinkInv
<1>19. ConnInv(c)'
  BY <1>13, <1>14, <1>15, <1>17, <1>18 DEF ConnInv
<1>20. SessInv'
  BY <1>1, <1>3, <1>10, <1>12, SessionsStay
<1> DEFINE t == tx[c]
           w == down[c]
           u == up[c]
<1>21. /\ t \in TxStates /\ tx' = [tx EXCEPT ![c] = t] /\ Len(t.reqs) <= Cap /\ t = tx[c]
       /\ w \in Seq(Writes) /\ down' = [down EXCEPT ![c] = w]
       /\ u \in Seq(Requests) /\ up' = [up EXCEPT ![c] = u]
  BY <1>2, <1>11
<1>22. /\ sess' \in [Receivers -> Conns \cup {0}]
       /\ UNCHANGED <<ringVars, attVars, mcVars, cullVars, loopVars, cut, sent, hung>>
  BY <1>1 DEF TypeOK, senderVars
<1> HIDE DEF t, w, u
<1> QED BY <1>3, <1>10, <1>19, <1>20, <1>21, <1>22, Received

\* A receiver works on a datagram.
LEMMA ProcessKeeps ==
  ASSUME MulticastInv, NEW r \in Receivers, NEW p \in sent, Process(r, p) PROVE MulticastInv'
<1>1. TypeOK /\ SenderInv /\ sess[r] \in Conns \cup {0}
  BY DEF MulticastInv, TypeOK
<1>2. UNCHANGED <<senderVars, down, cut, sent, sess, hung>>
  BY DEF Process
<1>3. ASSUME NEW x \in {p, NoPacket}, Hold(r, x) PROVE held' \in [Receivers -> sent \cup {NoPacket}]
  <2>1. held \in [Receivers -> sent \cup {NoPacket}]
    BY <1>1 DEF SenderInv, TypeOK
  <2> QED BY <1>3, <2>1 DEF Hold
<1>4. /\ readSeq[0] \in Nat /\ readSeq[0] <= head /\ head \in Nat /\ head <= MaxSeq
      /\ MaxSeq \in Nat /\ SEQ_MAX \in Nat /\ SEQ_MAX > MaxSeq
  BY <1>1, Counters
<1>5. /\ p.lo \in Nat /\ p.hi \in Nat /\ p.alert \in Nat \cup {-1}
      /\ p.alert <= readSeq[0] /\ p.hi <= readSeq[0]
      /\ p.alert = -1 => p.lo < p.hi /\ p.lo <= readSeq[0]
  <2>1. p \in Packets
    BY <1>1 DEF TypeOK
  <2>2. p.lo \in Nat /\ p.hi \in Nat /\ p.alert \in Nat \cup {-1}
    BY <2>1 DEF Packets, Seqs
  <2>3. p.alert <= readSeq[0] /\ p.hi <= readSeq[0] /\ (p.alert = -1 => p.lo < p.hi)
    BY <1>1 DEF SenderInv
  <2> QED BY <1>4, <2>2, <2>3
<1>6. ASSUME NEW x \in {p, NoPacket}, Hold(r, x), UNCHANGED <<rx, up>> PROVE MulticastInv'
  <2>1. held' \in [Receivers -> sent \cup {NoPacket}]
    BY <1>3, <1>6
  <2> QED BY <1>2, <1>6, <2>1, HoldKeeps
<1>7. ASSUME NEW c \in Conns, AcceptData(r, c, p), p.alert = -1 PROVE MulticastInv'
  <2>1. CASE MustWait(c) /\ Hold(r, p) /\ UNCHANGED <<rx, up>>
    BY <1>6, <2>1
  <2>2. CASE Hold(r, NoPacket) /\ UNCHANGED <<rx, up>>
    BY <1>6, <2>2
  <2>3. CASE ~MustWait(c) /\ rx[c].expecting < p.hi /\ Hold(r, NoPacket) /\ Deliver(c, p.hi)
    <3>1. held' \in [Receivers -> sent \cup {NoPacket}]
      BY <1>3, <2>3
    <3>2. ~GapPending(c) /\ rx[c].expecting # SEQ_MAX
      BY <2>3 DEF MustWait
    <3> QED BY <1>2, <1>5, <2>3, <3>1, <3>2, DeliverKeeps
  <2>4. CASE ~MustWait(c) /\ rx[c].expecting < p.lo /\ Hold(r, p) /\ GapReport(c, p.lo)
    <3>1. held' \in [Receivers -> sent \cup {NoPacket}]
      BY <1>3, <2>4
    <3>2. ~GapPending(c)
      BY <2>4 DEF MustWait
    <3> QED BY <1>2, <1>5, <1>7, <2>4, <3>1, <3>2, GapKeeps
  <2> QED BY <1>7, <2>1, <2>2, <2>3, <2>4 DEF AcceptData
<1>8. ASSUME NEW c \in Conns, AcceptAlert(r, c, p), p.alert # -1 PROVE MulticastInv'
  <2>1. CASE Hold(r, p) /\ UNCHANGED <<rx, up>>
    BY <1>6, <2>1
  <2>2. CASE Hold(r, NoPacket) /\ UNCHANGED <<rx, up>>
    BY <1>6, <2>2
  <2>3. CASE ~GapPending(c) /\ Hold(r, NoPacket) /\ rx[c].expecting < p.alert /\ GapReport(c, p.alert)
    <3>1. held' \in [Receivers -> sent \cup {NoPacket}]
      BY <1>3, <2>3
    <3>2. p.alert \in Nat
      BY <1>5, <1>8
    <3> QED BY <1>2, <1>5, <2>3, <3>1, <3>2, GapKeeps
  <2> QED BY <1>8, <2>1, <2>2, <2>3 DEF AcceptAlert
<1>9. CASE sess[r] = 0 /\ Hold(r, NoPacket) /\ UNCHANGED <<rx, up>>
  BY <1>6, <1>9
<1>10. CASE sess[r] # 0
  <2>1. sess[r] \in Conns
    BY <1>1, <1>10
  <2> QED BY <1>7, <1>8, <1>10, <2>1 DEF Process
<1> QED BY <1>9, <1>10 DEF Process

\* Whatever a receiving engine does.
LEMMA RecvKeeps == ASSUME MulticastInv, NEW r \in Receivers, Recv(r) PROVE MulticastInv'
<1>1. CASE HandleAd(r)
  BY <1>1, ConnectKeeps
<1>2. CASE ResumeHeld(r)
  <2>1. held[r] \in sent
    BY <1>2 DEF ResumeHeld, MulticastInv, SenderInv
  <2> QED BY <1>2, <2>1, ProcessKeeps DEF ResumeHeld
<1>3. ASSUME NEW p \in sent, Receive(r, p) PROVE MulticastInv'
  BY <1>3, ProcessKeeps DEF Receive
<1>4. ASSUME NEW c \in Conns,
             initializeConn(c) \/ ReadMin(c) \/ ReadBackup(c) \/ Report(c) \/ RecvDropped(c)
      PROVE  MulticastInv'
  BY <1>4, InitializeKeeps, ReadMinKeeps, ReadBackupKeeps, ReportKeeps, RecvDropKeeps
<1> QED BY <1>1, <1>2, <1>3, <1>4 DEF Recv

-----------------------------------------------------------------------------
(***************************************************************************)
(* The theorems.                                                           *)
(***************************************************************************)
\* Every step keeps the invariant.
LEMMA MulticastStep == ASSUME MulticastInv, [Next]_vars PROVE MulticastInv'
<1>1. ASSUME NEW t \in Tags, queue(t) PROVE MulticastInv'
  BY <1>1, QueueKeeps
<1>2. CASE cullSlow
  BY <1>2, CullKeeps
<1>3. CASE SenderStep
  BY <1>3, BeginKeeps, ServeKeeps, TrailKeeps, ResumeSendKeeps DEF SenderStep
<1>4. ASSUME NEW r \in Receivers, Recv(r) \/ Hang(r) PROVE MulticastInv'
  BY <1>4, RecvKeeps, HangKeeps
<1>5. ASSUME NEW c \in Conns, Break(c) PROVE MulticastInv'
  BY <1>5, BreakKeeps
<1>6. CASE UNCHANGED vars
  BY <1>6, StutterKeeps
<1> QED BY <1>1, <1>2, <1>3, <1>4, <1>5, <1>6 DEF Next

\* The invariant holds in every state: whatever the network loses, repeats or reorders,
\* whichever connections break and whichever engines are slow.
THEOREM MulticastInductive == Spec => []MulticastInv
<1>1. MulticastInv /\ [Next]_vars => MulticastInv'
  BY MulticastStep
<1> QED BY MulticastInit, <1>1, PTL DEF Spec

\* A session hands over what its receiver subscribes to, each message once and in order, from
\* its starting number up to the one it expects (SeqArb, BackupRecvSessionT).
THEOREM HandsOverInOrder == Spec => []InOrderOnce
<1>1. MulticastInv => InOrderOnce
  <2> SUFFICES ASSUME MulticastInv, NEW c \in Conns, rx[c].expecting # SEQ_MAX
               PROVE  /\ rx[c].expecting <= head
                      /\ rx[c].out = Among(SeqRange(rx[c].min, rx[c].expecting), Wanted(c))
    BY DEF InOrderOnce
  <2>1. StreamInv(c) /\ TypeOK /\ SenderInv
    BY DEF MulticastInv, ConnInv
  <2>2. /\ rx[c].expecting <= readSeq[0]
        /\ rx[c].out = Among(SeqRange(rx[c].min, rx[c].expecting), Wanted(c))
    BY <2>1 DEF StreamInv
  <2>3. rx[c].expecting \in Nat /\ readSeq[0] \in Nat /\ head \in Nat /\ readSeq[0] <= head
    BY <2>1, ConnTypes, Counters
  <2>4. rx[c].expecting <= head
    BY <2>2, <2>3
  <2> QED BY <2>2, <2>4
<1> QED BY MulticastInductive, <1>1, PTL

\* No receiver is thrown out for the requests it makes (the "bad data" exits of
\* BackupSendSessionT::runOnce).
THEOREM NobodyThrownOut == Spec => []NeverBadData
<1>1. MulticastInv => NeverBadData
  <2> SUFFICES ASSUME MulticastInv, NEW c \in Live, tx[c].relic = <<>>, tx[c].reqs # <<>>
               PROVE  ~BadData(c)
    BY DEF NeverBadData
  <2> DEFINE q == tx[c].reqs[1]
             ask == asked(c)
  <2>1. c \in Conns /\ tx[c].st = "live" /\ AskedInv(c) /\ TypeOK /\ SenderInv
    BY DEF MulticastInv, ConnInv, Live
  <2>2. /\ tx[c].reqs \in Seq(Requests) /\ Len(ask) = Len(tx[c].reqs) + Len(up[c])
        /\ up[c] \in Seq(Requests)
        /\ \A i \in 1..Len(tx[c].reqs) : ask[i] = tx[c].reqs[i]
    BY <2>1, AskedSeq
  <2>3. 1 \in 1..Len(tx[c].reqs) /\ 1 \in 1..Len(ask) /\ ask[1] = q
    <3> DEFINE a == Len(tx[c].reqs)
               b == Len(up[c])
    <3>1. a \in Nat /\ a # 0 /\ b \in Nat /\ Len(ask) = a + b
      BY <2>2
    <3>2. 1 \in 1..a /\ 1 \in 1..a + b
      <4> HIDE DEF a, b, ask
      <4> QED BY <3>1
    <3> QED BY <2>2, <3>1, <3>2
  <2>4. tx[c].next <= q.seq /\ q.len <= Cap /\ q.seq + q.len <= readSeq[0]
    <3>1. IF ask[1].op = "+" THEN tx[c].reqs = <<>>
          ELSE tx[c].next <= ask[1].seq /\ ask[1].len <= Cap /\ ask[1].seq + ask[1].len <= readSeq[0]
      BY <2>1, <2>3 DEF AskedInv
    <3> QED BY <2>3, <3>1
  <2>5. tx[c].next \in Nat /\ q.seq \in Nat /\ q.len \in Nat /\ readSeq[0] \in Nat /\ Cap \in Nat
    <3>1. ask[1].seq \in Nat /\ ask[1].len \in Nat
      BY <2>1, <2>3, DataTypes
    <3> QED BY <2>1, <2>3, <3>1, ConnTypes, Counters
  <2> HIDE DEF q
  <2>6. ~ (q.seq < tx[c].next) /\ ~ (q.len > Cap) /\ ~ (q.seq + q.len > readSeq[0])
    BY <2>4, <2>5
  <2> QED BY <2>6 DEF BadData, q
<1> QED BY MulticastInductive, <1>1, PTL

\* Nothing a connected receiver lacks is overwritten: it is on the connection or in the ring
\* (the backup cursor, BackupSendSessionT::runOnce).
THEOREM NothingOverwritten == Spec => []Recoverable
<1>1. MulticastInv => Recoverable
  <2> SUFFICES ASSUME MulticastInv PROVE Recoverable
    OBVIOUS
  <2>1. TypeOK /\ SenderInv /\ \A c \in Conns : AskedInv(c) /\ LinkInv(c)
    BY DEF MulticastInv, ConnInv
  <2>2. ASSUME NEW c \in Live PROVE head <= tx[c].next + Cap
    <3>1. c \in Conns /\ readSeq[1] <= tx[c].next
      BY <2>1 DEF AskedInv, Live
    <3>2. head \in Nat /\ readSeq[1] \in Nat /\ Cap \in Nat /\ head <= readSeq[1] + Cap /\ tx[c].next \in Nat
      BY <2>1, <3>1, Counters, ConnTypes
    <3> QED BY <3>1, <3>2
  <2>3. ASSUME NEW c \in Conns, Connected(c), rx[c].expecting # SEQ_MAX
        PROVE  tx[c].next <= rx[c].expecting + Len(down[c])
    BY <2>1, <2>3 DEF LinkInv, Connected
  <2> QED BY <2>2, <2>3 DEF Recoverable
<1> QED BY MulticastInductive, <1>1, PTL

\* The memory of an attachment is given back only when nobody can refer to it any more
\* (AsyncBackupSendServerT::runOnce, toCleanupAttQueue_).
THEOREM AttachmentsKept == Spec => []AttachmentKept
<1>1. MulticastInv => AttachmentKept
  BY DEF MulticastInv
<1> QED BY MulticastInductive, <1>1, PTL

\* A receiver that waits for a gap to be filled does not wait in vain: all it lacks has been
\* asked for and not been forgotten, or is on its way (sendGapReport, toSendQueue_).
THEOREM GapsAreCovered == Spec => []GapInv
<1>1. MulticastInv => GapInv
  <2> SUFFICES ASSUME MulticastInv, NEW c \in Conns, Connected(c), GapPending(c)
               PROVE  rx[c].gapSeq + 1
                          = rx[c].expecting + Len(down[c]) + Len(tx[c].relic) + LastAsked(c)
    BY DEF GapInv, GapCovered, MulticastInv
  <2>1. StartInv(c) /\ LinkInv(c) /\ tx[c].st = "live" /\ rx[c].st = "open"
    BY DEF MulticastInv, ConnInv, Connected
  <2>2. rx[c].expecting # SEQ_MAX
    BY <2>1 DEF StartInv, GapPending
  <2> QED BY <2>1, <2>2 DEF LinkInv
<1> QED BY MulticastInductive, <1>1, PTL
===============================================================================
