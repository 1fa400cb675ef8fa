------------------------------ MODULE DataLemmas ------------------------------
(***************************************************************************)
(* Facts about the data the models are made of: words that wrap, least     *)
(* numbers, and sequences that are flattened or folded.  The library's     *)
(* induction theorems take an operator, which no prover here can           *)
(* instantiate; that the finite sets are well founded takes a set, and     *)
(* gives the least element every induction below is done with.             *)
(***************************************************************************)
EXTENDS Integers, SequencesExt, FiniteSetTheorems, WellFoundedInduction, TLAPS

-----------------------------------------------------------------------------
(* Free running indices kept in words.  The C code compares and masks       *)
(* unsigned words; these lemmas say when that agrees with the positions the *)
(* words stand for.                                                         *)

\* Division with remainder by a positive number.
LEMMA ModDiv ==
  ASSUME NEW M \in Nat \ {0}, NEW a \in Int
  PROVE  /\ a = M * (a \div M) + (a % M)
         /\ a % M \in 0 .. M-1
         /\ a \div M \in Int
  BY SMT

\* A remainder in range is the remainder.
LEMMA ModUnique ==
  ASSUME NEW M \in Nat \ {0}, NEW q \in Int, NEW r \in 0 .. M-1
  PROVE  (M * q + r) % M = r
  BY SMT

\* Reducing a summand first does not change the reduced sum (head + 1u).
LEMMA ModPlus ==
  ASSUME NEW M \in Nat \ {0}, NEW a \in Int, NEW b \in Int
  PROVE  ((a % M) + b) % M = (a + b) % M
<1> DEFINE q == a \div M
           c == (a % M) + b
<1>1. /\ a = M * q + (a % M)  /\ q \in Int /\ c \in Int
  BY ModDiv
<1>2. c = M * (c \div M) + (c % M) /\ c % M \in 0 .. M-1 /\ c \div M \in Int
  BY <1>1, ModDiv
<1>3. a + b = M * q + (M * (c \div M) + (c % M))
  BY <1>1, <1>2
<1>4. a + b = M * (q + (c \div M)) + (c % M)
  <2> HIDE DEF q, c
  <2> QED BY <1>1, <1>2, <1>3, SMT
<1>5. q + (c \div M) \in Int
  BY <1>1, <1>2
<1>6. (a + b) % M = c % M
  <2> DEFINE Q == q + (c \div M)
             R == c % M
  <2>1. Q \in Int /\ R \in 0 .. M-1 /\ a + b = M * Q + R
    BY <1>2, <1>4, <1>5
  <2> HIDE DEF Q, R
  <2>2. (M * Q + R) % M = R
    BY <2>1, ModUnique
  <2> QED BY <2>1, <2>2 DEF R
<1> QED BY <1>6

\* The same for a subtrahend.
LEMMA ModMinus ==
  ASSUME NEW M \in Nat \ {0}, NEW a \in Int, NEW b \in Int
  PROVE  (b - (a % M)) % M = (b - a) % M
<1> DEFINE q == a \div M
           c == b - (a % M)
           d == c \div M
           r == c % M
<1>1. a = M * q + (a % M) /\ q \in Int /\ c \in Int
  BY ModDiv
<1>2. c = M * d + r /\ r \in 0 .. M-1 /\ d \in Int
  <2> HIDE DEF c
  <2> QED BY <1>1, ModDiv
<1>3. b - a = c - M * q
  BY <1>1
<1> HIDE DEF c, d, r, q
<1>4. b - a = M * (d - q) + r
  BY <1>1, <1>2, <1>3, SMT
<1>5. (M * (d - q) + r) % M = r
  BY <1>1, <1>2, ModUnique
<1> QED BY <1>4, <1>5 DEF r, c

\* The reduced difference of two reduced positions is their distance, while the
\* distance fits the word (head - tail).
LEMMA ModDistance ==
  ASSUME NEW M \in Nat \ {0}, NEW a \in Int, NEW b \in Int, a - b \in 0 .. M-1
  PROVE  ((a % M) - (b % M)) % M = a - b
<1> DEFINE s == b \div M
           r == b % M
<1>1. b = M * s + r /\ s \in Int /\ r \in 0 .. M-1
  BY ModDiv
<1>2. ((a % M) - r) % M = (a - r) % M
  <2>1. r \in Int BY <1>1
  <2>2. -r \in Int BY <2>1
  <2>3. ((a % M) + (-r)) % M = (a + (-r)) % M
    BY <2>2, ModPlus
  <2>4. a % M \in Int BY ModDiv
  <2> HIDE DEF r
  <2>5. (a % M) + (-r) = (a % M) - r /\ a + (-r) = a - r
    BY <2>1, <2>4
  <2> QED BY <2>3, <2>5
<1>3. a - r = M * s + (a - b)
  <2> HIDE DEF r, s
  <2> QED BY <1>1, SMT
<1> HIDE DEF r, s
<1>4. (M * s + (a - b)) % M = a - b
  BY <1>1, ModUnique
<1> QED BY <1>2, <1>3, <1>4 DEF r

\* Masking a word to a slot is masking the position, as the ring size divides the
\* word (head & QOS_RING_MASK).
LEMMA ModOfMultiple ==
  ASSUME NEW C \in Nat \ {0}, NEW K \in Nat \ {0}, NEW a \in Int
  PROVE  (a % (C * K)) % C = a % C
<1> DEFINE M == C * K
           q == a \div M
           c == a % M
           d == c \div C
           r == c % C
<1>0. M \in Nat \ {0}
  BY SMT
<1>1. a = M * q + c /\ q \in Int /\ c \in Int
  <2> HIDE DEF M
  <2> QED BY <1>0, ModDiv
<1>2. c = C * d + r /\ d \in Int /\ r \in 0 .. C-1
  <2> HIDE DEF c
  <2> QED BY <1>1, ModDiv
<1>3. a = C * (K * q + d) + r
  <2>1. M * q = C * (K * q)
    <3> HIDE DEF q
    <3> QED BY <1>1, SMT
  <2> HIDE DEF M, q, c, d, r
  <2>2. K * q \in Int BY <1>1
  <2>3. a = C * (K * q) + (C * d + r) BY <1>1, <1>2, <2>1
  <2> QED BY <1>1, <1>2, <2>2, <2>3, SMT
<1> HIDE DEF q, d, r, c, M
<1>4. K * q + d \in Int
  BY <1>1, <1>2
<1>5. (C * (K * q + d) + r) % C = r
  BY <1>2, <1>4, ModUnique
<1> QED BY <1>3, <1>5 DEF r, c, M

\* Two positions less than a ring apart share a slot only if they are equal.
LEMMA ModInjective ==
  ASSUME NEW C \in Nat \ {0}, NEW a \in Int, NEW b \in Int,
         a - b \in 0 .. C-1, a % C = b % C
  PROVE  a = b
<1>1. ((a % C) - (b % C)) % C = a - b
  BY ModDistance
<1>2. a % C \in Int BY ModDiv
<1>3. (a % C) - (b % C) = 0 BY <1>2
<1>4. 0 % C = 0
  BY SMT
<1> QED BY <1>1, <1>3, <1>4

-----------------------------------------------------------------------------
(* Least numbers. *)

\* A set of naturals with an element has a least one.
LEMMA Least ==
  ASSUME NEW T \in SUBSET Nat, NEW m \in T
  PROVE \E n \in T : \A k \in T : n <= k
  <1> DEFINE S == 0..m
             F == {0..n : n \in {k \in T : k <= m}}
  <1>1. IsFiniteSet(S)  BY FS_Interval
  <1>2. IsWellFoundedOn(StrictSubsetOrdering(S), FiniteSubsetsOf(S))
    BY <1>1, FS_StrictSubsetOrderingWellFounded
  <1>3. F \subseteq FiniteSubsetsOf(S) /\ F # {}
    <2>1. 0..m \in F OBVIOUS
    <2>2. ASSUME NEW n \in T, n <= m PROVE 0..n \in SUBSET S /\ IsFiniteSet(0..n)
      BY <2>2, FS_Interval
    <2> QED BY <2>1, <2>2 DEF FiniteSubsetsOf
  <1>4. PICK x \in F : \A y \in F : ~ (<<y, x>> \in StrictSubsetOrdering(S))
    <2> HIDE DEF F, S
    <2> QED BY <1>2, <1>3, WFMin
  <1>5. PICK n \in T : n <= m /\ x = 0..n  BY <1>4
  <1>6. ASSUME NEW k \in T, k < n PROVE FALSE
    <2>1. 0..k \in F  BY <1>5, <1>6
    <2>2. 0..k \in SUBSET S /\ 0..n \in SUBSET S BY <1>5, <1>6
    <2>3. n \in 0..n /\ n \notin 0..k BY <1>6
    <2>4. <<0..k, x>> \in StrictSubsetOrdering(S)
      BY <2>2, <2>3, <1>5, <1>6 DEF StrictSubsetOrdering
    <2> QED BY <2>1, <2>4, <1>4
  <1> QED BY <1>6, <1>5

\* It is the minimum.
LEMMA MinIsLeast ==
  ASSUME NEW T \in SUBSET Nat, T # {}
  PROVE  Min(T) \in T /\ \A k \in T : Min(T) <= k
  <1>1. \E n \in T : \A k \in T : n <= k  BY Least
  <1> QED  BY <1>1 DEF Min

-----------------------------------------------------------------------------
(* Sequences of sequences. *)

\* The concatenations of the beginnings of a sequence of sequences.
Joined(s, g) == g = [i \in 1 .. Len(s) |-> IF i = 1 THEN s[i] ELSE g[i - 1] \o s[i]]

\* The parts up to one are the parts before it and then it.
LEMMA JoinedAt ==
  ASSUME NEW s, NEW g, Joined(s, g), NEW i \in 1 .. Len(s)
  PROVE  g[i] = IF i = 1 THEN s[i] ELSE g[i - 1] \o s[i]
  <1> DEFINE F(k) == IF k = 1 THEN s[k] ELSE g[k - 1] \o s[k]
  <1>1. g = [k \in 1 .. Len(s) |-> F(k)]  BY DEF Joined
  <1> HIDE DEF F
  <1>2. g[i] = F(i)  BY <1>1
  <1> QED  BY <1>2 DEF F

\* There is such a function: the shortest beginning without one would have one.
LEMMA JoinedExists ==
  ASSUME NEW S, NEW s \in Seq(Seq(S))
  PROVE  \E g : Joined(s, g)
  <1> DEFINE Up(k, g) == g = [i \in 1 .. k |-> IF i = 1 THEN s[i] ELSE g[i - 1] \o s[i]]
             Bad == {k \in 0 .. Len(s) : ~ \E g : Up(k, g)}
  <1>1. Len(s) \in Nat  OBVIOUS
  <1> HIDE DEF Up
  <1>2. Bad \in SUBSET Nat  OBVIOUS
  <1>3. ASSUME Bad # {} PROVE FALSE
    <2>1. PICK k \in Bad : \A j \in Bad : k <= j
      <3> HIDE DEF Bad
      <3> QED  BY <1>2, <1>3, Least
    <2>2. k # 0
      <3>1. Up(0, <<>>)
        <4>1. 1 .. 0 = {}  OBVIOUS
        <4> QED  BY <4>1 DEF Up
      <3> QED  BY <2>1, <3>1
    <2>3. k \in Nat \ {0} /\ k - 1 \notin Bad /\ k - 1 \in 0 .. Len(s)
      <3>1. k \in 0 .. Len(s) /\ k # 0  BY <2>1, <2>2
      <3>2. k \in Nat \ {0} /\ k - 1 \in 0 .. Len(s) /\ ~(k <= k - 1)  BY <1>1, <3>1
      <3> HIDE DEF Bad
      <3> QED  BY <2>1, <3>2
    <2>4. PICK g : Up(k - 1, g)  BY <2>3
    <2> DEFINE h == [i \in 1 .. k |-> IF i < k THEN g[i] ELSE IF k = 1 THEN s[k] ELSE g[k - 1] \o s[k]]
               H(i) == IF i = 1 THEN s[i] ELSE h[i - 1] \o s[i]
    <2>5. ASSUME NEW i \in 1 .. k PROVE h[i] = H(i)
      <3>1. CASE i < k
        <4>1. i \in 1 .. k - 1  BY <2>3, <2>5, <3>1
        <4> DEFINE G(j) == IF j = 1 THEN s[j] ELSE g[j - 1] \o s[j]
        <4>2. g[i] = G(i)
          <5>1. g = [j \in 1 .. k - 1 |-> G(j)]  BY <2>4 DEF Up
          <5> HIDE DEF G
          <5> QED  BY <4>1, <5>1
        <4>3. i # 1 => i - 1 \in 1 .. k /\ i - 1 < k  BY <2>3, <4>1
        <4> QED  BY <3>1, <4>2, <4>3
      <3>2. CASE ~(i < k)
        <4>1. i = k  BY <2>3, <2>5, <3>2
        <4>2. k # 1 => k - 1 \in 1 .. k /\ k - 1 < k  BY <2>3
        <4> QED  BY <4>1, <4>2
      <3> QED  BY <3>1, <3>2
    <2>6. Up(k, h)
      <3>1. h = [i \in 1 .. k |-> H(i)]
        <4> HIDE DEF H
        <4> QED  BY <2>5
      <3> QED  BY <3>1 DEF Up
    <2> QED  BY <2>1, <2>6
  <1>4. PICK g : Up(Len(s), g)
    <2>1. Len(s) \in 0 .. Len(s)  BY <1>1
    <2> QED  BY <1>3, <2>1
  <1> QED  BY <1>4 DEF Joined, Up

\* Two of them agree as far as their sequences do.
LEMMA JoinedAgree ==
  ASSUME NEW s, NEW t, NEW f, NEW g, Joined(s, f), Joined(t, g),
         Len(s) \in Nat, Len(t) \in Nat, Len(s) <= Len(t), \A i \in 1 .. Len(s) : s[i] = t[i]
  PROVE  \A i \in 1 .. Len(s) : f[i] = g[i]
  <1> DEFINE n == Len(s)
  <1> DEFINE Bad == {i \in 1 .. n : f[i] # g[i]}
  <1>1. ASSUME Bad # {} PROVE FALSE
    <2>1. Bad \in SUBSET Nat  OBVIOUS
    <2>2. PICK k \in Bad : \A j \in Bad : k <= j
      <3> HIDE DEF Bad
      <3> QED  BY <1>1, <2>1, Least
    <2>3. k \in 1 .. Len(s) /\ k \in 1 .. Len(t) /\ s[k] = t[k]  BY <2>2
    <2>4. k # 1 => f[k - 1] = g[k - 1]
      <3>1. k # 1 => k - 1 \in 1 .. n /\ ~(k <= k - 1)  BY <2>2
      <3> QED  BY <2>2, <3>1
    <2> QED  BY <2>2, <2>3, <2>4, JoinedAt
  <1> QED  BY <1>1

\* FlattenSeq takes the last of them.
LEMMA FlattenJoined ==
  ASSUME NEW S, NEW s \in Seq(Seq(S)), Len(s) # 0
  PROVE  \E g : Joined(s, g) /\ FlattenSeq(s) = g[Len(s)]
  <1> DEFINE g == CHOOSE f : Joined(s, f)
  <1>1. Joined(s, g)  BY JoinedExists
  <1>2. FlattenSeq(s) = g[Len(s)]  BY DEF FlattenSeq, Joined
  <1> QED  BY <1>1, <1>2

\* Each of them is a sequence of what the parts are sequences of, and has the elements of its parts.
LEMMA JoinedType ==
  ASSUME NEW S, NEW s \in Seq(Seq(S)), NEW g, Joined(s, g), NEW i \in 1 .. Len(s)
  PROVE  g[i] \in Seq(S)
  <1> DEFINE Bad == {k \in 1 .. Len(s) : g[k] \notin Seq(S)}
  <1>1. ASSUME Bad # {} PROVE FALSE
    <2>1. Bad \in SUBSET Nat  OBVIOUS
    <2>2. PICK k \in Bad : \A j \in Bad : k <= j
      <3> HIDE DEF Bad
      <3> QED  BY <1>1, <2>1, Least
    <2>3. k \in 1 .. Len(s) /\ s[k] \in Seq(S) /\ g[k] \notin Seq(S)  BY <2>2
    <2>4. k # 1 => g[k - 1] \in Seq(S)
      <3>1. k # 1 => k - 1 \in 1 .. Len(s) /\ ~(k <= k - 1)  BY <2>2
      <3> QED  BY <2>2, <3>1
    <2>5. g[k] = IF k = 1 THEN s[k] ELSE g[k - 1] \o s[k]  BY <2>3, JoinedAt
    <2> QED  BY <2>3, <2>4, <2>5
  <1> QED  BY <1>1

LEMMA ConcatRange ==
  ASSUME NEW S, NEW a \in Seq(S), NEW b \in Seq(S)
  PROVE  ToSet(a \o b) = ToSet(a) \cup ToSet(b)
  <1>1. /\ Len(a) \in Nat /\ Len(b) \in Nat /\ DOMAIN a = 1 .. Len(a) /\ DOMAIN b = 1 .. Len(b)
        /\ DOMAIN (a \o b) = 1 .. Len(a) + Len(b)
        /\ \A i \in 1 .. Len(a) : (a \o b)[i] = a[i]
        /\ \A i \in 1 .. Len(b) : (a \o b)[Len(a) + i] = b[i]
    OBVIOUS
  <1> DEFINE c == a \o b
  <1> HIDE DEF c
  <1>2. ASSUME NEW i \in DOMAIN c PROVE c[i] \in ToSet(a) \cup ToSet(b)
    <2>1. CASE i \in 1 .. Len(a)  BY <1>1, <2>1 DEF c, ToSet
    <2>2. CASE i \notin 1 .. Len(a)
      <3>1. i - Len(a) \in 1 .. Len(b) /\ Len(a) + (i - Len(a)) = i  BY <1>1, <1>2, <2>2 DEF c
      <3> QED  BY <1>1, <3>1 DEF c, ToSet
    <2> QED  BY <2>1, <2>2
  <1>3. ASSUME NEW i \in DOMAIN a PROVE a[i] \in ToSet(c)
    <2>1. i \in DOMAIN c /\ c[i] = a[i]  BY <1>1, <1>3 DEF c
    <2> QED  BY <2>1 DEF ToSet
  <1>4. ASSUME NEW i \in DOMAIN b PROVE b[i] \in ToSet(c)
    <2>1. Len(a) + i \in DOMAIN c /\ c[Len(a) + i] = b[i]  BY <1>1, <1>4 DEF c
    <2> QED  BY <2>1 DEF ToSet
  <1> QED  BY <1>2, <1>3, <1>4 DEF ToSet, c

LEMMA JoinedRange ==
  ASSUME NEW S, NEW s \in Seq(Seq(S)), NEW g, Joined(s, g), NEW i \in 1 .. Len(s)
  PROVE  ToSet(g[i]) = UNION {ToSet(s[j]) : j \in 1 .. i}
  <1> DEFINE Parts(k) == UNION {ToSet(s[j]) : j \in 1 .. k}
             Bad == {k \in 1 .. Len(s) : ToSet(g[k]) # Parts(k)}
  <1>1. ASSUME Bad # {} PROVE FALSE
    <2>1. Bad \in SUBSET Nat  OBVIOUS
    <2>2. PICK k \in Bad : \A j \in Bad : k <= j
      <3> HIDE DEF Bad
      <3> QED  BY <1>1, <2>1, Least
    <2>3. k \in 1 .. Len(s) /\ s[k] \in Seq(S) /\ ToSet(g[k]) # Parts(k)  BY <2>2
    <2>4. g[k] = IF k = 1 THEN s[k] ELSE g[k - 1] \o s[k]  BY <2>3, JoinedAt
    <2>5. CASE k = 1
      <3>1. 1 .. k = {k}  BY <2>5
      <3>2. Parts(k) = ToSet(s[k])  BY <3>1
      <3> QED  BY <2>3, <2>4, <2>5, <3>2
    <2>6. CASE k # 1
      <3>1. k - 1 \in 1 .. Len(s) /\ ~(k <= k - 1)  BY <2>3, <2>6
      <3>2. ToSet(g[k - 1]) = Parts(k - 1)
        <4> HIDE DEF Parts
        <4> QED  BY <2>2, <3>1
      <3>3. g[k - 1] \in Seq(S)  BY <3>1, JoinedType
      <3>4. ToSet(g[k]) = ToSet(g[k - 1]) \cup ToSet(s[k])  BY <2>3, <2>4, <2>6, <3>3, ConcatRange
      <3>5. 1 .. k = (1 .. (k - 1)) \cup {k}  BY <2>3, <2>6
      <3>6. Parts(k) = Parts(k - 1) \cup ToSet(s[k])  BY <3>5
      <3> HIDE DEF Parts
      <3> QED  BY <2>3, <3>2, <3>4, <3>6
    <2> QED  BY <2>5, <2>6
  <1> QED  BY <1>1

\* Flattening gives a sequence of what the parts are sequences of.
LEMMA FlattenType ==
  ASSUME NEW S, NEW s \in Seq(Seq(S))
  PROVE  FlattenSeq(s) \in Seq(S)
  <1>1. CASE Len(s) = 0
    <2>1. s = <<>>  BY <1>1
    <2>2. FlattenSeq(s) = s  BY <1>1 DEF FlattenSeq
    <2>3. <<>> \in Seq(S)  OBVIOUS
    <2> QED  BY <2>1, <2>2, <2>3, Zenon
  <1>2. CASE Len(s) # 0
    <2>1. PICK g : Joined(s, g) /\ FlattenSeq(s) = g[Len(s)]  BY <1>2, FlattenJoined
    <2>2. Len(s) \in 1 .. Len(s)  BY <1>2
    <2> QED  BY <2>1, <2>2, JoinedType
  <1> QED  BY <1>1, <1>2

\* Its elements are those of the parts.
LEMMA FlattenRange ==
  ASSUME NEW S, NEW s \in Seq(Seq(S))
  PROVE  ToSet(FlattenSeq(s)) = UNION {ToSet(s[i]) : i \in 1 .. Len(s)}
  <1>1. CASE Len(s) = 0
    <2>1. s = <<>> /\ FlattenSeq(s) = s  BY <1>1 DEF FlattenSeq
    <2>2. DOMAIN FlattenSeq(s) = {} /\ 1 .. Len(s) = {}  BY <1>1, <2>1
    <2> QED  BY <2>2 DEF ToSet
  <1>2. CASE Len(s) # 0
    <2>1. PICK g : Joined(s, g) /\ FlattenSeq(s) = g[Len(s)]  BY <1>2, FlattenJoined
    <2>2. Len(s) \in 1 .. Len(s)  BY <1>2
    <2> QED  BY <2>1, <2>2, JoinedRange
  <1> QED  BY <1>1, <1>2

\* One part more is its elements behind the others'.
LEMMA FlattenAppend ==
  ASSUME NEW S, NEW s \in Seq(Seq(S)), NEW x \in Seq(S)
  PROVE  FlattenSeq(Append(s, x)) = FlattenSeq(s) \o x
  <1> DEFINE t == Append(s, x)
  <1>1. /\ t \in Seq(Seq(S)) /\ Len(t) = Len(s) + 1 /\ Len(s) \in Nat
        /\ t[Len(t)] = x /\ \A i \in 1 .. Len(s) : t[i] = s[i]
    OBVIOUS
  <1> HIDE DEF t
  <1>2. PICK g : Joined(t, g) /\ FlattenSeq(t) = g[Len(t)]  BY <1>1, FlattenJoined
  <1>3. g[Len(t)] = IF Len(t) = 1 THEN t[Len(t)] ELSE g[Len(t) - 1] \o t[Len(t)]
    BY <1>1, <1>2, JoinedAt
  <1>4. CASE Len(s) = 0
    <2>1. FlattenSeq(s) = <<>>  BY <1>4 DEF FlattenSeq
    <2>2. g[Len(t)] = x  BY <1>1, <1>3, <1>4
    <2>3. <<>> \o x = x  OBVIOUS
    <2> QED  BY <1>2, <2>1, <2>2, <2>3 DEF t
  <1>5. CASE Len(s) # 0
    <2>1. PICK f : Joined(s, f) /\ FlattenSeq(s) = f[Len(s)]  BY <1>5, FlattenJoined
    <2>2. \A i \in 1 .. Len(s) : f[i] = g[i]
      <3>1. \A i \in 1 .. Len(s) : s[i] = t[i]  BY <1>1
      <3>2. Len(s) <= Len(s) /\ Len(s) <= Len(t) /\ Len(t) \in Nat  BY <1>1
      <3>3. Joined(s, f) /\ Joined(t, g) /\ Len(s) \in Nat  BY <1>1, <1>2, <2>1
      <3> HIDE DEF Joined
      <3> QED  BY <3>1, <3>2, <3>3, JoinedAgree
    <2>3. Len(s) \in 1 .. Len(s) /\ Len(t) # 1 /\ Len(t) - 1 = Len(s)  BY <1>1, <1>5
    <2> QED  BY <1>1, <1>2, <1>3, <2>1, <2>2, <2>3 DEF t
  <1> QED  BY <1>4, <1>5
-----------------------------------------------------------------------------
(* Greatest numbers, ends of sequences, and parts of them. *)

LEMMA MaxIsGreatest ==
  ASSUME NEW n \in Nat, NEW T \in SUBSET (0..n), T # {}
  PROVE  Max(T) \in T /\ \A k \in T : k <= Max(T)
  <1> DEFINE U == {n - k : k \in T}
  <1>1. U \in SUBSET Nat /\ U # {}
    <2>1. \A k \in T : n - k \in Nat  OBVIOUS
    <2> QED  BY <2>1
  <1>2. \E u \in U : \A v \in U : u <= v
    <2> HIDE DEF U
    <2> QED  BY <1>1, Least
  <1>3. \E k \in T : \A j \in T : k >= j
    <2>1. PICK u \in U : \A v \in U : u <= v  BY <1>2
    <2>2. PICK k \in T : u = n - k  BY <2>1
    <2>3. ASSUME NEW j \in T PROVE k >= j
      <3>1. n - j \in U /\ k \in Nat /\ j \in Nat  OBVIOUS
      <3>2. n - k <= n - j
        <4> HIDE DEF U
        <4> QED  BY <2>1, <2>2, <3>1
      <3> QED  BY <3>1, <3>2
    <2> QED  BY <2>3
  <1>4. Max(T) \in T /\ \A k \in T : Max(T) >= k  BY <1>3 DEF Max
  <1> QED  BY <1>4

\* An end of a sequence, place by place.
LEMMA SuffixIs ==
  ASSUME NEW S, NEW w \in Seq(S), NEW t \in Seq(S)
  PROVE  IsSuffix(w, t) <=>
           Len(w) <= Len(t) /\ \A i \in 1..Len(w) : w[i] = t[Len(t) - Len(w) + i]
  <1> DEFINE rw == Reverse(w)
             rt == Reverse(t)
             m == Len(w)
             n == Len(t)
  <1>1. /\ m \in Nat /\ n \in Nat /\ rw \in Seq(S) /\ rt \in Seq(S) /\ Len(rw) = m /\ Len(rt) = n
        /\ \A i \in 1..m : rw[i] = w[m - i + 1]
        /\ \A i \in 1..n : rt[i] = t[n - i + 1]
    BY DEF Reverse
  <1>2. IsSuffix(w, t) <=> m <= n /\ SubSeq(rw, 1, m) = SubSeq(rt, 1, m)
    BY <1>1 DEF IsSuffix, IsPrefix
  <1> HIDE DEF rw, rt
  <1>3. ASSUME m <= n
        PROVE  SubSeq(rw, 1, m) = SubSeq(rt, 1, m) <=> \A i \in 1..m : rw[i] = rt[i]
    <2>1. SubSeq(rw, 1, m) = [i \in 1..m |-> rw[i]] /\ SubSeq(rt, 1, m) = [i \in 1..m |-> rt[i]]
      BY <1>1, <1>3
    <2> QED  BY <2>1
  <1>4. ASSUME m <= n
        PROVE  (\A i \in 1..m : rw[i] = rt[i]) <=> (\A i \in 1..m : w[i] = t[n - m + i])
    <2> HIDE DEF m, n
    <2>1. ASSUME \A i \in 1..m : rw[i] = rt[i], NEW i \in 1..m
          PROVE  w[i] = t[n - m + i]
      <3>0. m \in Nat /\ n \in Nat  BY <1>1
      <3>1. m - i + 1 \in 1..m /\ m - (m - i + 1) + 1 = i /\ n - (m - i + 1) + 1 = n - m + i
        BY <3>0
      <3>2. m - i + 1 \in 1..n  BY <1>1, <1>4
      <3>3. rw[m - i + 1] = w[i]  BY <1>1, <3>1
      <3>4. rt[m - i + 1] = t[n - m + i]  BY <1>1, <3>1, <3>2
      <3> QED  BY <2>1, <3>1, <3>3, <3>4
    <2>2. ASSUME \A i \in 1..m : w[i] = t[n - m + i], NEW i \in 1..m
          PROVE  rw[i] = rt[i]
      <3>1. m - i + 1 \in 1..m /\ n - m + (m - i + 1) = n - i + 1 /\ i \in 1..n
        BY <1>1, <1>4
      <3>2. w[m - i + 1] = t[n - m + (m - i + 1)]  BY <2>2, <3>1
      <3> QED  BY <1>1, <3>1, <3>2
    <2> QED  BY <2>1, <2>2
  <1> QED  BY <1>2, <1>3, <1>4

\* A window of the newest goes on being one.
LEMMA SuffixGrows ==
  ASSUME NEW S, NEW w \in Seq(S), NEW t \in Seq(S), NEW x \in S
  PROVE  /\ IsSuffix(<<x>>, Append(t, x))
         /\ IsSuffix(w, t) => IsSuffix(Append(w, x), Append(t, x))
         /\ IsSuffix(w, t) /\ w # <<>> => IsSuffix(Append(Tail(w), x), Append(t, x))
  <1> DEFINE grown == Append(t, x)
             one == <<x>>
             more == Append(w, x)
             moved == Append(Tail(w), x)
  <1>1. /\ grown \in Seq(S) /\ Len(grown) = Len(t) + 1 /\ grown[Len(t) + 1] = x
        /\ \A i \in 1..Len(t) : grown[i] = t[i]
    OBVIOUS
  <1>2. Len(t) \in Nat /\ Len(w) \in Nat  OBVIOUS
  <1>3. one \in Seq(S) /\ Len(one) = 1 /\ one[1] = x  OBVIOUS
  <1>4. /\ more \in Seq(S) /\ Len(more) = Len(w) + 1 /\ more[Len(w) + 1] = x
        /\ \A i \in 1..Len(w) : more[i] = w[i]
    OBVIOUS
  <1>5. w # <<>> =>
          /\ moved \in Seq(S) /\ Len(moved) = Len(w) /\ moved[Len(w)] = x /\ Len(w) >= 1
          /\ \A i \in 1..(Len(w) - 1) : moved[i] = w[i + 1]
    OBVIOUS
  <1>6. IsSuffix(one, grown)
    <2> HIDE DEF one, grown
    <2>1. \A i \in 1..Len(one) : one[i] = grown[Len(grown) - Len(one) + i]
      <3>1. \A i \in 1..Len(one) : i = 1  BY <1>3
      <3>2. Len(grown) - Len(one) + 1 = Len(t) + 1  BY <1>1, <1>2, <1>3
      <3> QED  BY <1>1, <1>3, <3>1, <3>2
    <2>2. Len(one) <= Len(grown)  BY <1>1, <1>2, <1>3
    <2> QED  BY <1>1, <1>3, <2>1, <2>2, SuffixIs
  <1>7. ASSUME IsSuffix(w, t) PROVE IsSuffix(more, grown)
    <2>1. Len(w) <= Len(t) /\ \A i \in 1..Len(w) : w[i] = t[Len(t) - Len(w) + i]
      BY <1>7, SuffixIs
    <2> HIDE DEF more, grown
    <2>2. ASSUME NEW i \in 1..Len(more) PROVE more[i] = grown[Len(grown) - Len(more) + i]
      <3>1. CASE i = Len(w) + 1  BY <1>1, <1>2, <1>4, <3>1
      <3>2. CASE i # Len(w) + 1
        <4>1. i \in 1..Len(w) /\ Len(grown) - Len(more) + i = Len(t) - Len(w) + i
          BY <1>1, <1>2, <1>4, <3>2
        <4>2. Len(t) - Len(w) + i \in 1..Len(t)  BY <1>2, <2>1, <4>1
        <4> QED  BY <1>1, <1>4, <2>1, <4>1, <4>2
      <3> QED  BY <3>1, <3>2
    <2>3. Len(more) <= Len(grown)  BY <1>1, <1>2, <1>4, <2>1
    <2> QED  BY <1>1, <1>4, <2>2, <2>3, SuffixIs
  <1>8. ASSUME IsSuffix(w, t), w # <<>> PROVE IsSuffix(moved, grown)
    <2>1. Len(w) <= Len(t) /\ \A i \in 1..Len(w) : w[i] = t[Len(t) - Len(w) + i]
      BY <1>8, SuffixIs
    <2> HIDE DEF moved, grown
    <2>2. ASSUME NEW i \in 1..Len(moved) PROVE moved[i] = grown[Len(grown) - Len(moved) + i]
      <3>1. CASE i = Len(w)  BY <1>1, <1>2, <1>5, <1>8, <3>1
      <3>2. CASE i # Len(w)
        <4>0. Len(moved) = Len(w) /\ Len(grown) = Len(t) + 1  BY <1>1, <1>5, <1>8
        <4>1. /\ i \in 1..(Len(w) - 1) /\ i + 1 \in 1..Len(w)
              /\ Len(grown) - Len(moved) + i = Len(t) - Len(w) + (i + 1)
          BY <1>2, <3>2, <4>0
        <4>2. Len(t) - Len(w) + (i + 1) \in 1..Len(t)  BY <1>2, <2>1, <4>1
        <4>3. moved[i] = w[i + 1]  BY <1>5, <1>8, <4>1
        <4>4. w[i + 1] = t[Len(t) - Len(w) + (i + 1)]  BY <2>1, <4>1
        <4> QED  BY <1>1, <4>1, <4>2, <4>3, <4>4
      <3> QED  BY <3>1, <3>2
    <2>3. Len(moved) <= Len(grown)  BY <1>1, <1>2, <1>5, <1>8, <2>1
    <2> QED  BY <1>1, <1>5, <1>8, <2>2, <2>3, SuffixIs
  <1> QED  BY <1>6, <1>7, <1>8

\* The elements of a sequence that are of a set.
Only(s, T) == FlattenSeq([i \in DOMAIN s |-> IF s[i] \in T THEN <<s[i]>> ELSE <<>>])

LEMMA OnlyParts ==
  ASSUME NEW S, NEW s \in Seq(S), NEW T
  PROVE  /\ [i \in DOMAIN s |-> IF s[i] \in T THEN <<s[i]>> ELSE <<>>] \in Seq(Seq(S))
         /\ Only(s, T) \in Seq(S)
  <1> DEFINE part(i) == IF s[i] \in T THEN <<s[i]>> ELSE <<>>
             parts == [i \in DOMAIN s |-> part(i)]
  <1>1. DOMAIN s = 1..Len(s) /\ Len(s) \in Nat  OBVIOUS
  <1>2. \A i \in DOMAIN s : part(i) \in Seq(S)
    <2>1. \A i \in DOMAIN s : s[i] \in S  OBVIOUS
    <2>2. <<>> \in Seq(S) /\ \A x \in S : <<x>> \in Seq(S)  OBVIOUS
    <2> QED  BY <2>1, <2>2
  <1>3. parts \in Seq(Seq(S))
    <2> HIDE DEF part
    <2> QED  BY <1>1, <1>2
  <1> HIDE DEF parts
  <1>4. FlattenSeq(parts) \in Seq(S)  BY <1>3, FlattenType
  <1> QED  BY <1>3, <1>4 DEF Only, parts

LEMMA OnlyAppend ==
  ASSUME NEW S, NEW s \in Seq(S), NEW x \in S, NEW T
  PROVE  Only(Append(s, x), T) = IF x \in T THEN Append(Only(s, T), x) ELSE Only(s, T)
  <1> DEFINE part(y) == IF y \in T THEN <<y>> ELSE <<>>
             parts == [i \in DOMAIN s |-> part(s[i])]
             longer == Append(s, x)
             more == [i \in DOMAIN longer |-> part(longer[i])]
  <1>1. /\ DOMAIN s = 1..Len(s) /\ Len(s) \in Nat /\ DOMAIN longer = 1..(Len(s) + 1)
        /\ longer[Len(s) + 1] = x /\ \A i \in 1..Len(s) : longer[i] = s[i]
    OBVIOUS
  <1>2. parts \in Seq(Seq(S)) /\ Only(s, T) = FlattenSeq(parts) /\ Only(s, T) \in Seq(S)
    BY OnlyParts DEF Only
  <1>3. part(x) \in Seq(S)
    <2>1. <<>> \in Seq(S) /\ <<x>> \in Seq(S)  OBVIOUS
    <2> QED  BY <2>1
  <1>4. more = Append(parts, part(x))
    <2> HIDE DEF longer, part
    <2>1. /\ Len(parts) = Len(s) /\ parts = [i \in 1..Len(s) |-> part(s[i])]
      BY <1>1
    <2>2. Append(parts, part(x)) = [i \in 1..(Len(s) + 1) |-> IF i = Len(s) + 1 THEN part(x) ELSE part(s[i])]
      BY <1>1, <1>2, <2>1
    <2> QED  BY <1>1, <2>2
  <1>5. FlattenSeq(more) = FlattenSeq(parts) \o part(x)
    <2> HIDE DEF more, parts, part
    <2> QED  BY <1>2, <1>3, <1>4, FlattenAppend
  <1>6. Only(s, T) \o <<x>> = Append(Only(s, T), x) /\ Only(s, T) \o <<>> = Only(s, T)
    BY <1>2
  <1>7. Only(longer, T) = FlattenSeq(more)  BY DEF Only
  <1> HIDE DEF more, longer, parts
  <1> QED  BY <1>2, <1>5, <1>6, <1>7 DEF longer

LEMMA OnlyNone == ASSUME NEW T PROVE Only(<<>>, T) = <<>>
  <1> DEFINE parts == [i \in DOMAIN <<>> |-> IF <<>>[i] \in T THEN <<<<>>[i]>> ELSE <<>>]
  <1>1. DOMAIN parts = {} /\ parts = <<>>  OBVIOUS
  <1>2. FlattenSeq(parts) = parts  BY <1>1 DEF FlattenSeq
  <1> QED  BY <1>1, <1>2 DEF Only

\* What a function gives for each element of a list, one after the other.
Each(s, g) == FlattenSeq([i \in DOMAIN s |-> g[s[i]]])

LEMMA EachParts ==
  ASSUME NEW S, NEW s \in Seq(S), NEW T, NEW g \in [S -> Seq(T)]
  PROVE  [i \in DOMAIN s |-> g[s[i]]] \in Seq(Seq(T)) /\ Each(s, g) \in Seq(T)
  <1> DEFINE parts == [i \in DOMAIN s |-> g[s[i]]]
  <1>1. DOMAIN s = 1..Len(s) /\ Len(s) \in Nat /\ \A i \in DOMAIN s : s[i] \in S  OBVIOUS
  <1>2. parts \in Seq(Seq(T))  BY <1>1
  <1> HIDE DEF parts
  <1>3. FlattenSeq(parts) \in Seq(T)  BY <1>2, FlattenType
  <1> QED  BY <1>2, <1>3 DEF Each, parts

LEMMA EachAppend ==
  ASSUME NEW S, NEW s \in Seq(S), NEW x \in S, NEW T, NEW g \in [S -> Seq(T)]
  PROVE  Each(Append(s, x), g) = Each(s, g) \o g[x]
  <1> DEFINE parts == [i \in DOMAIN s |-> g[s[i]]]
             longer == Append(s, x)
             more == [i \in DOMAIN longer |-> g[longer[i]]]
  <1>1. /\ DOMAIN s = 1..Len(s) /\ Len(s) \in Nat /\ DOMAIN longer = 1..(Len(s) + 1)
        /\ longer[Len(s) + 1] = x /\ \A i \in 1..Len(s) : longer[i] = s[i]
    OBVIOUS
  <1>2. parts \in Seq(Seq(T)) /\ Each(s, g) = FlattenSeq(parts)  BY EachParts DEF Each
  <1>3. g[x] \in Seq(T)  OBVIOUS
  <1>4. more = Append(parts, g[x])
    <2> HIDE DEF longer
    <2>1. Len(parts) = Len(s) /\ parts = [i \in 1..Len(s) |-> g[s[i]]]  BY <1>1
    <2>2. Append(parts, g[x]) =
            [i \in 1..(Len(s) + 1) |-> IF i = Len(s) + 1 THEN g[x] ELSE g[s[i]]]
      BY <1>1, <1>2, <2>1
    <2> QED  BY <1>1, <2>2
  <1>5. FlattenSeq(more) = FlattenSeq(parts) \o g[x]
    <2> HIDE DEF more, parts
    <2> QED  BY <1>2, <1>3, <1>4, FlattenAppend
  <1>6. Each(longer, g) = FlattenSeq(more)  BY DEF Each
  <1> HIDE DEF more, longer, parts
  <1> QED  BY <1>2, <1>5, <1>6 DEF longer

LEMMA EachNone == ASSUME NEW g PROVE Each(<<>>, g) = <<>>
  <1> DEFINE parts == [i \in DOMAIN <<>> |-> g[<<>>[i]]]
  <1>1. DOMAIN parts = {} /\ parts = <<>>  OBVIOUS
  <1>2. FlattenSeq(parts) = parts  BY <1>1 DEF FlattenSeq
  <1> QED  BY <1>1, <1>2 DEF Each

\* A selection of a list with at most one element more.
LEMMA OnlyMore ==
  ASSUME NEW T, NEW s \in Seq(T), NEW p \in Seq(T), Len(p) <= 1, NEW U
  PROVE  Only(s \o p, U) = Only(s, U) \o Only(p, U)
  <1>1. Only(s, U) \in Seq(T)  BY OnlyParts
  <1>2. CASE p = <<>>
    <2>1. s \o p = s /\ Only(p, U) = <<>>  BY <1>2, OnlyNone
    <2>2. Only(s, U) \o <<>> = Only(s, U)  BY <1>1
    <2> QED  BY <2>1, <2>2
  <1>3. CASE p # <<>>
    <2>1. Len(p) = 1
      <3>1. Len(p) \in Nat /\ Len(p) # 0  BY <1>3
      <3>2. \A m \in Nat : m # 0 /\ m <= 1 => m = 1  OBVIOUS
      <3> QED  BY <3>1, <3>2
    <2>2. PICK y \in T : p = <<y>>
      <3>1. p \in Seq(T) /\ 1 \in 1..Len(p)  BY <2>1
      <3>2. p[1] \in T  BY <3>1
      <3>3. <<p[1]>> \in Seq(T) /\ Len(<<p[1]>>) = 1 /\ <<p[1]>>[1] = p[1]  BY <3>2
      <3>4. p = <<p[1]>>  BY <2>1, <3>1, <3>3
      <3> QED  BY <3>2, <3>4
    <2>3. <<>> \in Seq(T) /\ Append(<<>>, y) = <<y>> /\ s \o <<y>> = Append(s, y)  OBVIOUS
    <2>4. Only(Append(s, y), U) = IF y \in U THEN Append(Only(s, U), y) ELSE Only(s, U)
      BY OnlyAppend
    <2>5. Only(Append(<<>>, y), U) = IF y \in U THEN Append(Only(<<>>, U), y) ELSE Only(<<>>, U)
      BY <2>3, OnlyAppend
    <2>6. /\ Append(Only(s, U), y) = Only(s, U) \o <<y>>
          /\ Only(s, U) = Only(s, U) \o <<>>
      BY <1>1
    <2> QED  BY <2>2, <2>3, <2>4, <2>5, <2>6, OnlyNone
  <1> QED  BY <1>2, <1>3

\* Where each part is selected whole or not at all, selecting among the elements first and among
\* the parts they give afterwards is the same.
LEMMA EachOnly ==
  ASSUME NEW S, NEW s \in Seq(S), NEW T, NEW g \in [S -> Seq(T)], \A x \in S : Len(g[x]) <= 1,
         NEW M, NEW K, M \subseteq K, NEW U,
         \A x \in S : x \in K => Only(g[x], U) = IF x \in M THEN g[x] ELSE <<>>
  PROVE  Each(Only(s, M), g) = Only(Each(Only(s, K), g), U)
  <1> DEFINE n == Len(s)
             q == [k \in 0..n |-> [i \in 1..k |-> s[i]]]
             Agree(t) == Each(Only(t, M), g) = Only(Each(Only(t, K), g), U)
             Bad == {k \in 0..n : ~Agree(q[k])}
  <1>1. n \in Nat /\ q[n] = s /\ q[0] = <<>>
    <2>1. n \in Nat /\ s = [i \in 1..n |-> s[i]] /\ n \in 0..n /\ 0 \in 0..n  OBVIOUS
    <2>2. [i \in 1..0 |-> s[i]] = <<>>  OBVIOUS
    <2> HIDE DEF n
    <2> QED  BY <2>1, <2>2
  <1>2. \A k \in 0..n : q[k] \in Seq(S)
    <2>1. \A i \in 1..n : s[i] \in S  OBVIOUS
    <2>2. \A k \in 0..n : k \in Nat /\ \A i \in 1..k : i \in 1..n  BY <1>1
    <2> QED  BY <2>1, <2>2
  <1>3. \A k \in 1..n : q[k] = Append(q[k - 1], s[k]) /\ s[k] \in S /\ k - 1 \in 0..n
    <2>1. TAKE k \in 1..n
    <2>2. k - 1 \in 0..n /\ k \in 0..n /\ (k - 1) + 1 = k /\ s[k] \in S  BY <1>1
    <2>3. q[k - 1] \in Seq(S) /\ Len(q[k - 1]) = k - 1 /\ q[k - 1] = [i \in 1..(k - 1) |-> s[i]]
      BY <1>2, <2>2
    <2>4. q[k] = [i \in 1..k |-> s[i]]  BY <2>2
    <2> HIDE DEF q, n
    <2> QED  BY <2>2, <2>3, <2>4
  <1> HIDE DEF q, n
  <1>4. Agree(q[0])
    <2>1. Only(<<>>, M) = <<>> /\ Only(<<>>, K) = <<>> /\ Only(<<>>, U) = <<>>  BY OnlyNone
    <2>2. Each(<<>>, g) = <<>>  BY EachNone
    <2> QED  BY <1>1, <2>1, <2>2
  <1>5. ASSUME NEW k \in 1..n, Agree(q[k - 1]) PROVE Agree(q[k])
    <2> DEFINE t == q[k - 1]  x == s[k]
               mine == Only(t, M)  kept == Only(t, K)
    <2>1. t \in Seq(S) /\ x \in S /\ q[k] = Append(t, x)  BY <1>2, <1>3
    <2>2. Each(mine, g) = Only(Each(kept, g), U)  BY <1>5
    <2> HIDE DEF t, x
    <2>3. mine \in Seq(S) /\ kept \in Seq(S)  BY <2>1, OnlyParts
    <2>4. /\ Only(q[k], M) = IF x \in M THEN Append(mine, x) ELSE mine
          /\ Only(q[k], K) = IF x \in K THEN Append(kept, x) ELSE kept
      BY <2>1, OnlyAppend
    <2> HIDE DEF mine, kept
    <2>5. /\ Each(Append(mine, x), g) = Each(mine, g) \o g[x]
          /\ Each(Append(kept, x), g) = Each(kept, g) \o g[x]
          /\ Each(kept, g) \in Seq(T)
      <3>1. Each(Append(mine, x), g) = Each(mine, g) \o g[x]  BY <2>1, <2>3, EachAppend
      <3>2. Each(Append(kept, x), g) = Each(kept, g) \o g[x]  BY <2>1, <2>3, EachAppend
      <3>3. Each(kept, g) \in Seq(T)  BY <2>3, EachParts
      <3> QED  BY <3>1, <3>2, <3>3
    <2>6. g[x] \in Seq(T) /\ Len(g[x]) <= 1  BY <2>1
    <2>7. Only(Each(kept, g) \o g[x], U) = Only(Each(kept, g), U) \o Only(g[x], U)
      BY <2>5, <2>6, OnlyMore
    <2>8. CASE x \notin K
      <3>1. x \notin M  BY <2>8
      <3> QED  BY <2>2, <2>4, <2>8, <3>1
    <2>9. CASE x \in K /\ x \notin M
      <3>1. Only(g[x], U) = <<>>  BY <2>1, <2>9
      <3>2. Only(Each(kept, g), U) \o <<>> = Only(Each(kept, g), U)
        <4>1. Only(Each(kept, g), U) \in Seq(T)  BY <2>5, OnlyParts
        <4> QED  BY <4>1
      <3> QED  BY <2>2, <2>4, <2>5, <2>7, <2>9, <3>1, <3>2
    <2>10. CASE x \in M
      <3>1. x \in K /\ Only(g[x], U) = g[x]  BY <2>1, <2>10
      <3> QED  BY <2>2, <2>4, <2>5, <2>7, <2>10, <3>1
    <2> QED  BY <2>8, <2>9, <2>10
  <1> HIDE DEF Agree
  <1>6. ASSUME Bad # {} PROVE FALSE
    <2>1. Bad \in SUBSET Nat  BY <1>1
    <2>2. PICK k \in Bad : \A j \in Bad : k <= j
      <3> HIDE DEF Bad
      <3> QED  BY <1>6, <2>1, Least
    <2>3. k \in 0..n /\ ~Agree(q[k]) /\ k \in Nat  BY <2>1, <2>2
    <2>4. k \in 1..n
      <3>1. k # 0  BY <1>4, <2>3
      <3> QED  BY <1>1, <2>3, <3>1
    <2>5. k - 1 \in 0..n /\ ~(k <= k - 1)  BY <1>3, <2>3, <2>4
    <2>6. Agree(q[k - 1])
      <3> HIDE DEF Bad
      <3>1. k - 1 \notin Bad  BY <2>2, <2>5
      <3> USE DEF Bad
      <3> QED  BY <2>5, <3>1
    <2> QED  BY <1>5, <2>3, <2>4, <2>6
  <1>7. Agree(q[n])
    <2>1. n \in 0..n  BY <1>1
    <2> QED  BY <1>6, <2>1
  <1> QED  BY <1>1, <1>7 DEF Agree
-----------------------------------------------------------------------------
(* Sums over finite sets. *)

Pick(s) == CHOOSE x \in s : TRUE

\* The sums of a function over the subsets of a set.
Sums(f, S, g) ==
  g = [s \in SUBSET S |-> IF s = {} THEN 0 ELSE f[Pick(s)] + g[s \ {Pick(s)}]]

LEMMA SumsAt ==
  ASSUME NEW f, NEW S, NEW g, Sums(f, S, g), NEW s \in SUBSET S
  PROVE  g[s] = IF s = {} THEN 0 ELSE f[Pick(s)] + g[s \ {Pick(s)}]
  <1> DEFINE G(t) == IF t = {} THEN 0 ELSE f[Pick(t)] + g[t \ {Pick(t)}]
  <1>1. g = [t \in SUBSET S |-> G(t)]  BY DEF Sums
  <1> HIDE DEF G
  <1>2. g[s] = G(s)  BY <1>1
  <1> QED  BY <1>2 DEF G

LEMMA Picked1 == ASSUME NEW s, s # {} PROVE Pick(s) \in s
  BY DEF Pick

\* The subsets of a finite set with at most k elements.
Small(S, k) == {s \in SUBSET S : Cardinality(s) <= k}

LEMMA SmallStep ==
  ASSUME NEW S, IsFiniteSet(S), NEW k \in Nat, NEW s \in Small(S, k), s # {}
  PROVE  s \ {Pick(s)} \in Small(S, k - 1) /\ Pick(s) \in s /\ k # 0
  <1>1. s \in SUBSET S /\ IsFiniteSet(s) /\ Cardinality(s) <= k  BY FS_Subset DEF Small
  <1>2. Pick(s) \in s  BY Picked1
  <1>3. Cardinality(s) \in Nat /\ Cardinality(s) # 0
    BY <1>1, FS_CardinalityType, FS_EmptySet
  <1>4. Cardinality(s \ {Pick(s)}) = Cardinality(s) - 1
    BY <1>1, <1>2, FS_RemoveElement
  <1>5. Cardinality(s \ {Pick(s)}) <= k - 1 /\ k # 0  BY <1>1, <1>3, <1>4
  <1> QED  BY <1>1, <1>2, <1>5 DEF Small

\* There is such a function: the least number of elements it fails at would have one.
LEMMA SumsExists ==
  ASSUME NEW f, NEW S, IsFiniteSet(S)
  PROVE  \E g : Sums(f, S, g)
  <1> DEFINE Up(k, g) ==
               g = [s \in Small(S, k) |-> IF s = {} THEN 0 ELSE f[Pick(s)] + g[s \ {Pick(s)}]]
             n == Cardinality(S)
             Bad == {k \in 0 .. n : ~ \E g : Up(k, g)}
  <1>1. n \in Nat  BY FS_CardinalityType
  <1> HIDE DEF Up, n
  <1>2. Bad \in SUBSET Nat  BY <1>1
  <1>3. ASSUME Bad # {} PROVE FALSE
    <2>1. PICK k \in Bad : \A j \in Bad : k <= j
      <3> HIDE DEF Bad
      <3> QED  BY <1>2, <1>3, Least
    <2>2. k \in 0 .. n  BY <2>1
    <2>3. \E prior : k # 0 => Up(k - 1, prior)
      <3>1. CASE k = 0  BY <3>1
      <3>2. CASE k # 0
        <4>1. k - 1 \in 0 .. n /\ ~(k <= k - 1)  BY <1>1, <2>2, <3>2
        <4>2. k - 1 \notin Bad
          <5> HIDE DEF Bad
          <5> QED  BY <2>1, <4>1
        <4> QED  BY <4>1, <4>2
      <3> QED  BY <3>1, <3>2
    <2>4. PICK prior : k # 0 => Up(k - 1, prior)  BY <2>3
    <2> DEFINE H(g, s) == IF s = {} THEN 0 ELSE f[Pick(s)] + g[s \ {Pick(s)}]
               h == [s \in Small(S, k) |-> H(prior, s)]
    <2>5. ASSUME NEW s \in Small(S, k), s # {} PROVE h[s \ {Pick(s)}] = prior[s \ {Pick(s)}]
      <3> DEFINE t == s \ {Pick(s)}
      <3>1. k \in Nat /\ k # 0 /\ t \in Small(S, k - 1)  BY <1>1, <2>2, <2>5, SmallStep
      <3>2. t \in Small(S, k)
        <4>1. t \in SUBSET S /\ Cardinality(t) <= k - 1  BY <3>1 DEF Small
        <4>2. Cardinality(t) \in Nat  BY <4>1, FS_Subset, FS_CardinalityType
        <4>3. Cardinality(t) <= k  BY <3>1, <4>1, <4>2
        <4> QED  BY <4>1, <4>3 DEF Small
      <3>3. h[t] = H(prior, t)
        <4> HIDE DEF H, t
        <4> QED  BY <3>2
      <3>4. prior[t] = H(prior, t)
        <4>1. prior = [u \in Small(S, k - 1) |-> H(prior, u)]  BY <2>4, <3>1 DEF Up
        <4> HIDE DEF H, t
        <4> QED  BY <3>1, <4>1
      <3> QED  BY <3>3, <3>4
    <2>6. \A s \in Small(S, k) : H(h, s) = H(prior, s)
      <3> HIDE DEF h
      <3> QED  BY <2>5
    <2>7. h = [s \in Small(S, k) |-> H(h, s)]
      <3>1. h = [s \in Small(S, k) |-> H(prior, s)]  OBVIOUS
      <3> HIDE DEF h, H
      <3> QED  BY <2>6, <3>1
    <2>8. Up(k, h)
      <3> HIDE DEF h
      <3> QED  BY <2>7 DEF Up
    <2> HIDE DEF h
    <2> QED  BY <2>1, <2>8
  <1>4. PICK g : Up(n, g)
    <2>1. n \in 0 .. n  BY <1>1
    <2> QED  BY <1>3, <2>1
  <1>5. Small(S, n) = SUBSET S
    <2>1. \A s \in SUBSET S : Cardinality(s) <= n  BY FS_Subset DEF n
    <2> QED  BY <2>1 DEF Small
  <1> QED  BY <1>4, <1>5 DEF Sums, Up

\* Two of them agree where their functions and their sets do, and a sum of integers is one.
LEMMA SumsAgree ==
  ASSUME NEW f, NEW S, IsFiniteSet(S), NEW g, Sums(f, S, g),
         NEW e, NEW T, NEW h, Sums(e, T, h),
         NEW s \in SUBSET S, s \subseteq T, \A x \in s : f[x] = e[x] /\ f[x] \in Int
  PROVE  g[s] = h[s] /\ g[s] \in Int
  <1> DEFINE Right(t) == g[t] = h[t] /\ g[t] \in Int
             Bad == {k \in Nat : \E t \in SUBSET s : Cardinality(t) = k /\ ~Right(t)}
  <1> HIDE DEF Right
  <1>0. IsFiniteSet(s)  BY FS_Subset
  <1>1. ASSUME Bad # {} PROVE FALSE
    <2>1. Bad \in SUBSET Nat  OBVIOUS
    <2>2. PICK k \in Bad : \A j \in Bad : k <= j
      <3> HIDE DEF Bad
      <3> QED  BY <1>1, <2>1, Least
    <2>3. PICK t \in SUBSET s : Cardinality(t) = k /\ ~Right(t)  BY <2>2
    <2>4. t \in SUBSET S /\ t \in SUBSET T /\ IsFiniteSet(t) /\ k \in Nat
      BY <1>0, <2>1, <2>2, <2>3, FS_Subset
    <2>5. CASE t = {}
      <3>1. g[t] = 0 /\ h[t] = 0  BY <2>4, <2>5, SumsAt
      <3> QED  BY <2>3, <3>1 DEF Right
    <2>6. CASE t # {}
      <3> DEFINE x == Pick(t)  u == t \ {x}
      <3>1. x \in t  BY <2>6, Picked1
      <3>2. Cardinality(u) = k - 1 /\ k - 1 \in Nat
        <4>1. Cardinality(u) = k - 1  BY <2>3, <2>4, <3>1, FS_RemoveElement
        <4>2. k # 0  BY <2>3, <2>4, <2>6, FS_EmptySet
        <4> QED  BY <2>4, <4>1, <4>2
      <3>3. Right(u)
        <4>1. ~(k <= k - 1)  BY <2>4
        <4>2. k - 1 \notin Bad
          <5> HIDE DEF Bad
          <5> QED  BY <2>2, <4>1
        <4>3. u \in SUBSET s  BY <2>3
        <4> HIDE DEF u
        <4> QED  BY <3>2, <4>2, <4>3
      <3>4. g[t] = f[x] + g[u] /\ h[t] = e[x] + h[u]  BY <2>4, <2>6, SumsAt
      <3>5. f[x] = e[x] /\ f[x] \in Int  BY <2>3, <3>1
      <3> HIDE DEF x, u
      <3>6. Right(t)  BY <3>3, <3>4, <3>5 DEF Right
      <3> QED  BY <2>3, <3>6
    <2> QED  BY <2>5, <2>6
  <1>2. Right(s)
    <2>1. Cardinality(s) \in Nat  BY <1>0, FS_CardinalityType
    <2> QED  BY <1>1, <2>1
  <1> QED  BY <1>2 DEF Right

\* Any element may be the first to be taken out.
IntegersOn(f, S) == \A x \in S : f[x] \in Int
TakesAny(f, S, g) == \A s \in SUBSET S : \A a \in s : g[s] = f[a] + g[s \ {a}]

\* The order the elements are taken in does not matter.
LEMMA SumsTake ==
  ASSUME NEW f, NEW S, IsFiniteSet(S), NEW g, Sums(f, S, g), IntegersOn(f, S)
  PROVE  TakesAny(f, S, g)
  <1> DEFINE Right(t) == \A b \in t : g[t] = f[b] + g[t \ {b}]
             Bad == {k \in Nat : \E t \in SUBSET S : Cardinality(t) = k /\ ~Right(t)}
  <1>0. \A t \in SUBSET S : g[t] \in Int
    <2>1. TAKE t \in SUBSET S
    <2> QED  BY SumsAgree DEF IntegersOn
  <1>1. ASSUME Bad # {} PROVE FALSE
    <2>1. Bad \in SUBSET Nat  OBVIOUS
    <2>2. PICK k \in Bad : \A j \in Bad : k <= j
      <3> HIDE DEF Bad
      <3> QED  BY <1>1, <2>1, Least
    <2>3. PICK t \in SUBSET S : Cardinality(t) = k /\ ~Right(t)  BY <2>2
    <2>4. PICK b \in t : g[t] # f[b] + g[t \ {b}]  BY <2>3
    <2> DEFINE x == Pick(t)
    <2>5. x \in t /\ IsFiniteSet(t) /\ k \in Nat  BY <2>2, <2>3, <2>4, Picked1, FS_Subset
    <2>6. g[t] = f[x] + g[t \ {x}]  BY <2>3, <2>5, SumsAt
    <2>7. b # x  BY <2>4, <2>6
    <2>8. \A y \in t : Cardinality(t \ {y}) = k - 1  BY <2>3, <2>5, FS_RemoveElement
    <2>9. k - 1 \in Nat /\ ~(k <= k - 1)
      <3>1. k # 0  BY <2>3, <2>4, <2>5, FS_EmptySet
      <3> QED  BY <2>5, <3>1
    <2>10. \A y \in t : Right(t \ {y})
      <3>1. k - 1 \notin Bad
        <4> HIDE DEF Bad
        <4> QED  BY <2>2, <2>9
      <3>2. \A y \in t : t \ {y} \in SUBSET S  BY <2>3
      <3> HIDE DEF Right
      <3> QED  BY <2>8, <2>9, <3>1, <3>2
    <2>11. /\ g[t \ {x}] = f[b] + g[(t \ {x}) \ {b}]
           /\ g[t \ {b}] = f[x] + g[(t \ {b}) \ {x}]
      <3>1. b \in t \ {x} /\ x \in t \ {b}  BY <2>5, <2>7
      <3> HIDE DEF x
      <3> QED  BY <2>5, <2>10, <3>1
    <2>12. (t \ {x}) \ {b} = (t \ {b}) \ {x}  OBVIOUS
    <2>13. f[x] \in Int /\ f[b] \in Int /\ g[(t \ {b}) \ {x}] \in Int
      BY <1>0, <2>3, <2>5 DEF IntegersOn
    <2> DEFINE rest == g[(t \ {b}) \ {x}]
    <2>14. /\ g[t \ {x}] = f[b] + rest /\ g[t \ {b}] = f[x] + rest /\ rest \in Int
      BY <2>11, <2>12, <2>13
    <2>15. f[x] + (f[b] + rest) = f[b] + (f[x] + rest)
      <3> HIDE DEF rest, x
      <3> QED  BY <2>13, <2>14
    <2> HIDE DEF x, rest
    <2> QED  BY <2>4, <2>6, <2>14, <2>15
  <1>2. ASSUME NEW s \in SUBSET S PROVE Right(s)
    <2>1. IsFiniteSet(s)  BY FS_Subset
    <2>2. Cardinality(s) \in Nat  BY <2>1, FS_CardinalityType
    <2> HIDE DEF Right
    <2> QED  BY <1>1, <2>2
  <1> QED  BY <1>2 DEF TakesAny

\* SumFunction takes the last of them.
LEMMA SumFunctionSums ==
  ASSUME NEW f, IsFiniteSet(DOMAIN f)
  PROVE  \E g : Sums(f, DOMAIN f, g) /\ SumFunction(f) = g[DOMAIN f]
  <1> DEFINE g == CHOOSE h : Sums(f, DOMAIN f, h)
  <1>1. Sums(f, DOMAIN f, g)  BY SumsExists
  <1>2. SumFunction(f) = g[DOMAIN f]
    BY DEF SumFunction, SumFunctionOnSet, FoldFunctionOnSet, MapThenFoldSet, Sums, Pick
  <1> QED  BY <1>1, <1>2

\* A sum of nothing, and a sum with one element taken out.
LEMMA SumOfNone == ASSUME NEW f, DOMAIN f = {} PROVE SumFunction(f) = 0
  <1>1. IsFiniteSet(DOMAIN f)  BY FS_EmptySet
  <1>2. PICK g : Sums(f, DOMAIN f, g) /\ SumFunction(f) = g[DOMAIN f]
    BY <1>1, SumFunctionSums
  <1> QED  BY <1>2, SumsAt

LEMMA SumTakes ==
  ASSUME NEW f, IsFiniteSet(DOMAIN f), \A x \in DOMAIN f : f[x] \in Int, NEW a \in DOMAIN f,
         NEW e, DOMAIN e = DOMAIN f \ {a}, \A x \in DOMAIN e : e[x] = f[x]
  PROVE  SumFunction(f) = f[a] + SumFunction(e)
  <1>1. PICK g : Sums(f, DOMAIN f, g) /\ SumFunction(f) = g[DOMAIN f]  BY SumFunctionSums
  <1>2. IsFiniteSet(DOMAIN e)  BY FS_RemoveElement
  <1>3. PICK h : Sums(e, DOMAIN e, h) /\ SumFunction(e) = h[DOMAIN e]
    BY <1>2, SumFunctionSums
  <1>4. g[DOMAIN f] = f[a] + g[DOMAIN f \ {a}]
    <2> DEFINE D == DOMAIN f
    <2>1. IsFiniteSet(D) /\ Sums(f, D, g) /\ (\A x \in D : f[x] \in Int) /\ a \in D
      BY <1>1
    <2> HIDE DEF D
    <2>2. D \in SUBSET D  OBVIOUS
    <2>3. IntegersOn(f, D)  BY <2>1 DEF IntegersOn
    <2>5. TakesAny(f, D, g)  BY <2>1, <2>3, SumsTake
    <2>4. g[D] = f[a] + g[D \ {a}]  BY <2>1, <2>2, <2>5 DEF TakesAny
    <2> QED  BY <2>4 DEF D
  <1>5. h[DOMAIN e] = g[DOMAIN e]
    <2>1. \A x \in DOMAIN e : e[x] = f[x] /\ e[x] \in Int  OBVIOUS
    <2>2. DOMAIN e \in SUBSET DOMAIN e /\ DOMAIN e \subseteq DOMAIN f  OBVIOUS
    <2> QED  BY <1>1, <1>2, <1>3, <2>1, <2>2, SumsAgree
  <1> QED  BY <1>1, <1>3, <1>4, <1>5

LEMMA SumIsInt ==
  ASSUME NEW f, IsFiniteSet(DOMAIN f), \A x \in DOMAIN f : f[x] \in Int
  PROVE  SumFunction(f) \in Int
  <1>1. PICK g : Sums(f, DOMAIN f, g) /\ SumFunction(f) = g[DOMAIN f]  BY SumFunctionSums
  <1>2. g[DOMAIN f] \in Int  BY <1>1, SumsAgree
  <1> QED  BY <1>1, <1>2

\* What the elements of a sequence in a set come to, and what parts of at most one element do.
InSet(q, P) == {j \in DOMAIN q : q[j] \in P}
SumIn(q, P, v) == SumFunction([j \in InSet(q, P) |-> v[q[j]]])
PartsIn(s, k, P) == {i \in 1..k : s[i] # <<>> /\ s[i][1] \in P}
SumParts(s, k, P, v) == SumFunction([i \in PartsIn(s, k, P) |-> v[s[i][1]]])

LEMMA SumInGrows ==
  ASSUME NEW T, NEW q \in Seq(T), NEW p \in Seq(T), Len(p) <= 1, NEW P, NEW v, IntegersOn(v, P)
  PROVE  SumIn(q \o p, P, v) =
           IF p # <<>> /\ p[1] \in P THEN v[p[1]] + SumIn(q, P, v) ELSE SumIn(q, P, v)
  <1> DEFINE n == Len(q)  r == q \o p
  <1>1. CASE p = <<>>
    <2>1. r = q  BY <1>1
    <2> QED  BY <1>1, <2>1
  <1>2. CASE p # <<>>
    <2>1. Len(p) = 1 /\ n \in Nat
      <3>1. Len(p) \in Nat /\ Len(p) # 0 /\ Len(q) \in Nat  BY <1>2
      <3>2. \A m \in Nat : m # 0 /\ m <= 1 => m = 1  OBVIOUS
      <3> QED  BY <3>1, <3>2
    <2>2. /\ r \in Seq(T) /\ Len(r) = n + 1 /\ r[n + 1] = p[1]
          /\ \A j \in 1..n : r[j] = q[j]
      <3>1. r \in Seq(T) /\ Len(r) = n + 1
        <4>1. q \o p \in Seq(T) /\ Len(q \o p) = Len(q) + Len(p)  OBVIOUS
        <4> QED  BY <2>1, <4>1
      <3>2. \A j \in 1..(Len(q) + Len(p)) :
              (q \o p)[j] = IF j <= Len(q) THEN q[j] ELSE p[j - Len(q)]
        OBVIOUS
      <3>3. r[n + 1] = p[1]
        <4>1. n + 1 \in 1..(n + 1) /\ ~(n + 1 <= n) /\ (n + 1) - n = 1  BY <2>1
        <4> QED  BY <2>1, <3>2, <4>1
      <3>4. \A j \in 1..n : r[j] = q[j]
        <4>1. \A j \in 1..n : j \in 1..(n + 1) /\ j <= n  BY <2>1
        <4> QED  BY <2>1, <3>2, <4>1
      <3> QED  BY <3>1, <3>3, <3>4
    <2> HIDE DEF r
    <2>3. DOMAIN q = 1..n /\ DOMAIN r = 1..(n + 1)  BY <2>2
    <2> HIDE DEF n
    <2>4. InSet(r, P) = InSet(q, P) \cup (IF p[1] \in P THEN {n + 1} ELSE {})
      <3>1. \A j : j \in 1..(n + 1) <=> j \in 1..n \/ j = n + 1  BY <2>1
      <3> QED  BY <2>2, <2>3, <3>1 DEF InSet
    <2>5. n + 1 \notin InSet(q, P)
      <3>1. n + 1 \notin 1..n  BY <2>1
      <3> QED  BY <2>3, <3>1 DEF InSet
    <2>6. \A j \in InSet(q, P) : v[r[j]] = v[q[j]]  BY <2>2, <2>3 DEF InSet
    <2> DEFINE f == [j \in InSet(r, P) |-> v[r[j]]]
               e == [j \in InSet(q, P) |-> v[q[j]]]
    <2>7. CASE p[1] \notin P
      <3>1. f = e  BY <2>4, <2>6, <2>7
      <3> QED  BY <2>7, <3>1 DEF SumIn, r
    <2>8. CASE p[1] \in P
      <3>1. IsFiniteSet(DOMAIN f)
        <4>1. IsFiniteSet(1..(n + 1))  BY <2>1, FS_Interval
        <4>2. InSet(r, P) \in SUBSET (1..(n + 1))  BY <2>3 DEF InSet
        <4> QED  BY <4>1, <4>2, FS_Subset
      <3>2. \A x \in DOMAIN f : f[x] \in Int  BY DEF InSet, IntegersOn
      <3>3. n + 1 \in DOMAIN f /\ f[n + 1] = v[p[1]]  BY <2>2, <2>4, <2>8
      <3>4. DOMAIN e = DOMAIN f \ {n + 1} /\ \A x \in DOMAIN e : e[x] = f[x]
        BY <2>4, <2>5, <2>6, <2>8
      <3> HIDE DEF f, e
      <3>5. SumFunction(f) = f[n + 1] + SumFunction(e)  BY <3>1, <3>2, <3>3, <3>4, SumTakes
      <3> QED  BY <1>2, <2>8, <3>3, <3>5 DEF SumIn, f, e, r
    <2> QED  BY <2>7, <2>8
  <1> QED  BY <1>1, <1>2

LEMMA SumPartsGrows ==
  ASSUME NEW s, NEW k \in Nat \ {0}, NEW P, NEW v, IntegersOn(v, P)
  PROVE  SumParts(s, k, P, v) =
           IF s[k] # <<>> /\ s[k][1] \in P THEN v[s[k][1]] + SumParts(s, k - 1, P, v)
           ELSE SumParts(s, k - 1, P, v)
  <1> DEFINE f == [i \in PartsIn(s, k, P) |-> v[s[i][1]]]
             e == [i \in PartsIn(s, k - 1, P) |-> v[s[i][1]]]
             taken == s[k] # <<>> /\ s[k][1] \in P
  <1>1. /\ \A i : i \in 1..k <=> i \in 1..(k - 1) \/ i = k
        /\ k \notin 1..(k - 1)
    OBVIOUS
  <1>2. PartsIn(s, k, P) = PartsIn(s, k - 1, P) \cup (IF taken THEN {k} ELSE {})
    BY <1>1 DEF PartsIn
  <1>3. k \notin PartsIn(s, k - 1, P)  BY <1>1 DEF PartsIn
  <1>4. CASE ~taken
    <2>1. f = e  BY <1>2, <1>4
    <2> QED  BY <1>4, <2>1 DEF SumParts
  <1>5. CASE taken
    <2>1. IsFiniteSet(DOMAIN f)
      <3>1. IsFiniteSet(1..k)  BY FS_Interval
      <3>2. PartsIn(s, k, P) \in SUBSET (1..k)  BY DEF PartsIn
      <3> QED  BY <3>1, <3>2, FS_Subset
    <2>2. \A x \in DOMAIN f : f[x] \in Int  BY DEF PartsIn, IntegersOn
    <2>3. k \in DOMAIN f /\ f[k] = v[s[k][1]]  BY <1>2, <1>5
    <2>4. DOMAIN e = DOMAIN f \ {k} /\ \A x \in DOMAIN e : e[x] = f[x]
      BY <1>2, <1>3, <1>5
    <2> HIDE DEF f, e
    <2>5. SumFunction(f) = f[k] + SumFunction(e)  BY <2>1, <2>2, <2>3, <2>4, SumTakes
    <2> QED  BY <1>5, <2>3, <2>5 DEF SumParts, f, e
  <1> QED  BY <1>4, <1>5

LEMMA FlattenNone == FlattenSeq(<<>>) = <<>>
  BY DEF FlattenSeq

\* A flattened sequence of such parts comes to what its parts do.
LEMMA SumOfFlattened ==
  ASSUME NEW T, NEW s \in Seq(Seq(T)), \A i \in DOMAIN s : Len(s[i]) <= 1,
         NEW P, NEW v, IntegersOn(v, P)
  PROVE  SumIn(FlattenSeq(s), P, v) = SumParts(s, Len(s), P, v)
  <1> DEFINE n == Len(s)
  <1>1. n \in Nat /\ DOMAIN s = 1..n  OBVIOUS
  <1>2. SumIn(<<>>, P, v) = 0 /\ SumParts(s, 0, P, v) = 0
    <2>1. InSet(<<>>, P) = {} /\ PartsIn(s, 0, P) = {}
      <3>1. DOMAIN <<>> = {} /\ 1..0 = {}  OBVIOUS
      <3> QED  BY <3>1 DEF InSet, PartsIn
    <2> DEFINE f == [j \in InSet(<<>>, P) |-> v[<<>>[j]]]
               e == [i \in PartsIn(s, 0, P) |-> v[s[i][1]]]
    <2>2. DOMAIN f = {} /\ DOMAIN e = {}  BY <2>1
    <2> HIDE DEF f, e
    <2>3. SumFunction(f) = 0 /\ SumFunction(e) = 0  BY <2>2, SumOfNone
    <2> QED  BY <2>3 DEF SumIn, SumParts, f, e
  <1>3. CASE n = 0
    <2>1. s = <<>>  BY <1>3
    <2> QED  BY <1>2, <1>3, <2>1, FlattenNone
  <1>4. CASE n # 0
    <2>1. PICK g : Joined(s, g) /\ FlattenSeq(s) = g[n]  BY <1>4, FlattenJoined
    <2> DEFINE Bad == {k \in 1..n : SumIn(g[k], P, v) # SumParts(s, k, P, v)}
    <2>2. ASSUME Bad # {} PROVE FALSE
      <3>1. Bad \in SUBSET Nat  OBVIOUS
      <3>2. PICK k \in Bad : \A j \in Bad : k <= j
        <4> HIDE DEF Bad
        <4> QED  BY <2>2, <3>1, Least
      <3>3. k \in 1..n /\ SumIn(g[k], P, v) # SumParts(s, k, P, v)  BY <3>2
      <3> DEFINE q == IF k = 1 THEN <<>> ELSE g[k - 1]
      <3>4. k \in Nat \ {0} /\ (k # 1 => k - 1 \in 1..n /\ ~(k <= k - 1))  BY <1>1, <3>3
      <3>5. q \in Seq(T)
        <4>1. k # 1 => g[k - 1] \in Seq(T)  BY <2>1, <3>4, JoinedType
        <4> QED  BY <4>1
      <3>6. s[k] \in Seq(T) /\ Len(s[k]) <= 1  BY <1>1, <3>3
      <3>7. g[k] = q \o s[k]
        <4>1. g[k] = IF k = 1 THEN s[k] ELSE g[k - 1] \o s[k]  BY <2>1, <3>3, JoinedAt
        <4>2. <<>> \o s[k] = s[k]  BY <3>6
        <4> QED  BY <4>1, <4>2
      <3>8. SumIn(q, P, v) = SumParts(s, k - 1, P, v)
        <4>1. CASE k = 1
          <5>1. k - 1 = 0  BY <4>1
          <5> QED  BY <1>2, <4>1, <5>1
        <4>2. CASE k # 1
          <5> HIDE DEF Bad
          <5>1. k - 1 \notin Bad  BY <3>2, <3>4, <4>2
          <5> USE DEF Bad
          <5> QED  BY <3>4, <4>2, <5>1
        <4> QED  BY <4>1, <4>2
      <3> HIDE DEF q
      <3>9. SumIn(q \o s[k], P, v) =
              IF s[k] # <<>> /\ s[k][1] \in P THEN v[s[k][1]] + SumIn(q, P, v) ELSE SumIn(q, P, v)
        BY <3>5, <3>6, SumInGrows
      <3>10. SumParts(s, k, P, v) =
               IF s[k] # <<>> /\ s[k][1] \in P THEN v[s[k][1]] + SumParts(s, k - 1, P, v)
               ELSE SumParts(s, k - 1, P, v)
        BY <3>4, SumPartsGrows
      <3> QED  BY <3>3, <3>7, <3>8, <3>9, <3>10
    <2>3. n \in 1..n  BY <1>1, <1>4
    <2> QED  BY <2>1, <2>2, <2>3
  <1> QED  BY <1>3, <1>4
=============================================================================
