----------------------------- MODULE ListsProofs ------------------------------
(***************************************************************************)
(* Lemmas about lists and recursion that the proofs of several components  *)
(* need.  Induction is over sets of numbers: a set that has 0, and with    *)
(* each number the next, has them all, since what it lacked would have a   *)
(* least one.                                                              *)
(***************************************************************************)
EXTENDS Lists, TLAPS, WellFoundedInduction, NaturalsInduction, FiniteSetTheorems,
        FunctionTheorems, SequenceTheorems

\* A set of natural numbers has a least one.
LEMMA Least ==
  ASSUME NEW S \in SUBSET Nat, S # {} PROVE \E x \in S : \A y \in S : x <= y
<1>1. PICK x \in S : \A y \in S : <<y, x>> \notin OpToRel(<, Nat)
  BY WFMin, NatLessThanWellFounded, Zenon
<1>2. \A y \in S : ~(y < x)
  BY <1>1, Zenon DEF OpToRel
<1>3. \A y \in S : x <= y
  BY <1>2
<1> QED BY <1>3

LEMMA LeastInSet ==
  ASSUME NEW S \in SUBSET Nat, S # {}
  PROVE  Min(S) \in S /\ \A x \in S : Min(S) <= x
<1>1. \E x \in S : \A y \in S : x <= y
  BY Least
<1> QED BY <1>1 DEF Min

LEMMA UpTo ==
  ASSUME NEW n \in Nat, NEW S, 0 \in S, \A k \in 0..n : k \in S /\ k < n => k + 1 \in S
  PROVE  0..n \subseteq S
<1> DEFINE B == (0..n) \ S
<1> SUFFICES ASSUME B # {} PROVE FALSE
  OBVIOUS
<1>1. PICK x \in B : \A y \in B : x <= y
  <2>1. B \in SUBSET Nat
    OBVIOUS
  <2> HIDE DEF B
  <2> QED BY <2>1, Least
<1>2. x \in Nat /\ x # 0 /\ x <= n
  OBVIOUS
<1>3. x - 1 \in 0..n /\ x - 1 < n /\ (x - 1) + 1 = x /\ ~(x <= x - 1)
  BY <1>2
<1>4. x - 1 \in S
  BY <1>1, <1>3
<1> QED BY <1>3, <1>4

LEMMA AllNat ==
  ASSUME NEW S, 0 \in S, \A k \in Nat : k \in S => k + 1 \in S PROVE Nat \subseteq S
<1> SUFFICES ASSUME NEW n \in Nat PROVE n \in S
  OBVIOUS
<1>1. 0..n \subseteq S
  <2>1. \A k \in 0..n : k \in S /\ k < n => k + 1 \in S
    OBVIOUS
  <2> QED BY <2>1, UpTo
<1> QED BY <1>1

\* A function that is defined from its value before is one.
Iterates(f, A, base, step) ==
  f \in [Nat -> A] /\ f[0] = base /\ \A k \in Nat : f[k + 1] = step[<<k, f[k]>>]

LEMMA NatRec ==
  ASSUME NEW A, NEW base \in A, NEW step \in [Nat \X A -> A]
  PROVE  \E f : Iterates(f, A, base, step)
<1> DEFINE Is(g, n) == /\ g \in [0..n -> A] /\ g[0] = base
                       /\ \A k \in 0..(n - 1) : g[k + 1] = step[<<k, g[k]>>]
<1> DEFINE S == {n \in Nat : \E g : Is(g, n)}
<1>1. Nat \subseteq S
  <2>1. 0 \in S
    <3> DEFINE g == [i \in 0..0 |-> base]
    <3>1. Is(g, 0)
      OBVIOUS
    <3> QED BY <3>1
  <2>2. ASSUME NEW n \in Nat, n \in S PROVE n + 1 \in S
    <3>1. PICK g : Is(g, n)
      BY <2>2
    <3> DEFINE h == [i \in 0..(n + 1) |-> IF i <= n THEN g[i] ELSE step[<<n, g[n]>>]]
    <3>2. g[n] \in A /\ step[<<n, g[n]>>] \in A
      BY <3>1
    <3>3. h \in [0..(n + 1) -> A] /\ h[0] = base
      BY <3>1, <3>2
    <3>4. ASSUME NEW k \in 0..((n + 1) - 1) PROVE h[k + 1] = step[<<k, h[k]>>]
      <4>1. CASE k = n
        <5>1. h[k] = g[n] /\ h[k + 1] = step[<<n, g[n]>>]
          BY <4>1
        <5> QED BY <4>1, <5>1
      <4>2. CASE k # n
        <5>1. k \in 0..(n - 1) /\ k \in 0..(n + 1) /\ k + 1 \in 0..(n + 1) /\ k + 1 <= n /\ k <= n
          BY <4>2
        <5>2. h[k] = g[k] /\ h[k + 1] = g[k + 1]
          BY <5>1
        <5> HIDE DEF h
        <5> QED BY <3>1, <5>1, <5>2
      <4> QED BY <4>1, <4>2
    <3>5. Is(h, n + 1)
      <4> HIDE DEF h
      <4> QED BY <3>3, <3>4
    <3>6. \E g_1 : Is(g_1, n + 1)
      <4> HIDE DEF h, Is
      <4> QED BY <3>5
    <3> HIDE DEF Is
    <3> QED BY <3>6
  <2> HIDE DEF S
  <2> QED BY <2>1, <2>2, AllNat
<1>2. ASSUME NEW m \in Nat, NEW n \in Nat, m <= n, NEW g, NEW h, Is(g, m), Is(h, n)
      PROVE  \A k \in 0..m : g[k] = h[k]
  <2> DEFINE E == {k \in 0..m : g[k] = h[k]}
  <2>1. 0 \in E
    BY <1>2
  <2>2. ASSUME NEW k \in 0..m, k \in E, k < m PROVE k + 1 \in E
    <3>1. k \in 0..(m - 1) /\ k \in 0..(n - 1) /\ k + 1 \in 0..m
      BY <1>2, <2>2
    <3>2. g[k + 1] = step[<<k, g[k]>>] /\ h[k + 1] = step[<<k, h[k]>>] /\ g[k] = h[k]
      BY <1>2, <2>2, <3>1
    <3> QED BY <3>1, <3>2
  <2>3. 0..m \subseteq E
    <3> HIDE DEF E
    <3> QED BY <2>1, <2>2, UpTo
  <2> QED BY <2>3
<1> DEFINE at(n) == CHOOSE g : Is(g, n)
<1>3. \A n \in Nat : Is(at(n), n)
  <2> SUFFICES ASSUME NEW n \in Nat PROVE Is(at(n), n)
    OBVIOUS
  <2>1. \E g : Is(g, n)
    BY <1>1
  <2> HIDE DEF Is
  <2> QED BY <2>1
<1> HIDE DEF at
<1> DEFINE f == [n \in Nat |-> at(n)[n]]
<1>4. f \in [Nat -> A] /\ f[0] = base
  <2>1. \A n \in Nat : at(n)[n] \in A /\ at(0)[0] = base
    BY <1>3
  <2> QED BY <2>1
<1>5. ASSUME NEW k \in Nat PROVE f[k + 1] = step[<<k, f[k]>>]
  <2> DEFINE g == at(k)
  <2> DEFINE h == at(k + 1)
  <2>1. Is(g, k) /\ Is(h, k + 1) /\ k + 1 \in Nat /\ k <= k + 1
    BY <1>3
  <2>2. g[k] = h[k]
    <3> HIDE DEF g, h, Is
    <3>1. k \in 0..k
      OBVIOUS
    <3> QED BY <1>2, <2>1, <3>1
  <2>3. h[k + 1] = step[<<k, h[k]>>]
    <3>1. k \in 0..((k + 1) - 1)
      OBVIOUS
    <3> HIDE DEF h, g
    <3> QED BY <2>1, <3>1
  <2>4. f[k] = g[k] /\ f[k + 1] = h[k + 1]
    OBVIOUS
  <2> QED BY <2>2, <2>3, <2>4
<1> HIDE DEF f
<1> QED BY <1>4, <1>5 DEF Iterates

\* A loop of n steps, each from the result of the one before.
Loops(h, n, A, base, step) ==
  /\ h \in [0..n -> A] /\ h[0] = base
  /\ \A k \in 1..n : h[k] = step[<<k, h[k - 1]>>]

LEMMA LoopExists ==
  ASSUME NEW A, NEW base \in A, NEW n \in Nat, NEW step \in [Nat \X A -> A]
  PROVE  \E h : Loops(h, n, A, base, step)
<1> DEFINE next == [p \in Nat \X A |-> step[<<p[1] + 1, p[2]>>]]
<1>1. next \in [Nat \X A -> A]
  <2>1. ASSUME NEW p \in Nat \X A PROVE step[<<p[1] + 1, p[2]>>] \in A
    <3>1. <<p[1] + 1, p[2]>> \in Nat \X A
      OBVIOUS
    <3> QED BY <3>1
  <2> QED BY <2>1
<1>2. \A k \in Nat, a \in A : next[<<k, a>>] = step[<<k + 1, a>>]
  OBVIOUS
<1> HIDE DEF next
<1>3. PICK f : Iterates(f, A, base, next)
  BY <1>1, NatRec
<1>4. f \in [Nat -> A] /\ f[0] = base /\ \A k \in Nat : f[k + 1] = next[<<k, f[k]>>]
  BY <1>3 DEF Iterates
<1> DEFINE h == [k \in 0..n |-> f[k]]
<1>5. h \in [0..n -> A] /\ h[0] = base
  <2>1. \A k \in 0..n : k \in Nat
    OBVIOUS
  <2>2. \A k \in 0..n : f[k] \in A
    BY <1>4, <2>1
  <2> QED BY <1>4, <2>2
<1>6. ASSUME NEW k \in 1..n PROVE h[k] = step[<<k, h[k - 1]>>]
  <2>1. k - 1 \in Nat /\ (k - 1) + 1 = k /\ k - 1 \in 0..n /\ k \in 0..n
    OBVIOUS
  <2>2. f[k] = next[<<k - 1, f[k - 1]>>] /\ f[k - 1] \in A
    BY <1>4, <2>1
  <2>3. f[k] = step[<<k, f[k - 1]>>]
    BY <1>2, <2>1, <2>2
  <2> QED BY <2>1, <2>3
<1> QED BY <1>5, <1>6 DEF Loops

\* What has a value for each of n positions is a list as long.
LEMMA ListOf ==
  ASSUME NEW S, NEW n \in Nat, NEW f \in [1..n -> S] PROVE f \in Seq(S) /\ Len(f) = n
<1>1. f \in Seq(S)
  OBVIOUS
<1>2. Len(f) \in Nat /\ 1..Len(f) = 1..n
  BY <1>1, LenProperties
<1>3. \A m \in Nat : 1..m = 1..n => m = n
  <2> SUFFICES ASSUME NEW m \in Nat, 1..m = 1..n PROVE m = n
    OBVIOUS
  <2>1. n # 0 => n \in 1..m
    OBVIOUS
  <2>2. m # 0 => m \in 1..n
    OBVIOUS
  <2> QED BY <2>1, <2>2
<1> QED BY <1>1, <1>2, <1>3

LEMMA Within ==
  ASSUME NEW a \in Nat, NEW b \in Nat, NEW c \in Nat, NEW d \in Nat, b = a + d, b <= c
  PROVE  \A j \in 1..d : a + j \in 1..c /\ a + j <= b
OBVIOUS

LEMMA Beyond ==
  ASSUME NEW a \in Nat, NEW d \in Nat
  PROVE  \A j \in 1..d : a < a + j /\ a + j \in Nat /\ a + j <= a + d /\ (a + j) - a = j
OBVIOUS
-----------------------------------------------------------------------------
(* Lists of lists.                                                         *)

\* The list that FlattenSeq makes grows by one list after another.
Grows(h, S, n, ss) ==
  /\ h \in [0..n -> Seq(S)]
  /\ h[0] = <<>> /\ h[n] = FlattenSeq(ss)
  /\ \A k \in 1..n : h[k] = h[k - 1] \o ss[k]

LEMMA FlattenGrows ==
  ASSUME NEW S, NEW n \in Nat, NEW ss \in [1..n -> Seq(S)]
  PROVE  \E h : Grows(h, S, n, ss)
<1> DEFINE A == Seq(S)
<1> DEFINE step == [p \in Nat \X A |-> IF p[1] + 1 \in 1..n THEN p[2] \o ss[p[1] + 1] ELSE p[2]]
<1>1. <<>> \in A /\ step \in [Nat \X A -> A]
  <2>1. ASSUME NEW p \in Nat \X A PROVE step[p] \in A
    <3>1. CASE p[1] + 1 \in 1..n
      <4>1. p[2] \in Seq(S) /\ ss[p[1] + 1] \in Seq(S)
        BY <3>1
      <4>2. step[p] = p[2] \o ss[p[1] + 1]
        BY <3>1
      <4> QED BY <4>1, <4>2, ConcatProperties
    <3>2. CASE p[1] + 1 \notin 1..n
      BY <3>2
    <3> QED BY <3>1, <3>2
  <2>2. step = [p \in Nat \X A |-> step[p]]
    OBVIOUS
  <2> HIDE DEF step
  <2> QED BY <2>1, <2>2
<1>p. PICK f : Iterates(f, A, <<>>, step)
  <2> HIDE DEF step, A
  <2> QED BY <1>1, NatRec
<1>2. f \in [Nat -> A] /\ f[0] = <<>> /\ \A k \in Nat : f[k + 1] = step[<<k, f[k]>>]
  BY <1>p DEF Iterates
<1>3. \A k \in 1..n : f[k] = f[k - 1] \o ss[k]
  <2> SUFFICES ASSUME NEW k \in 1..n PROVE f[k] = f[k - 1] \o ss[k]
    OBVIOUS
  <2>1. k - 1 \in Nat /\ (k - 1) + 1 = k
    OBVIOUS
  <2>2. f[k] = step[<<k - 1, f[k - 1]>>] /\ f[k - 1] \in A
    BY <1>2, <2>1
  <2> QED BY <2>1, <2>2
<1> HIDE DEF step
<1>4. f[n] = FlattenSeq(ss)
  <2>1. Len(ss) = n
    OBVIOUS
  <2>2. CASE n = 0
    BY <1>2, <2>1, <2>2 DEF FlattenSeq
  <2>3. CASE n # 0
    <3> DEFINE Sol(g) == g = [i \in 1..n |-> IF i = 1 THEN ss[i] ELSE g[i - 1] \o ss[i]]
    <3> DEFINE F == [i \in 1..n |-> f[i]]
    <3>1. Sol(F)
      <4> SUFFICES ASSUME NEW i \in 1..n
                   PROVE  f[i] = IF i = 1 THEN ss[i] ELSE F[i - 1] \o ss[i]
        OBVIOUS
      <4>1. CASE i = 1
        <5>0. i - 1 = 0
          BY <4>1
        <5>1. f[i] = f[i - 1] \o ss[i] /\ ss[i] \in Seq(S) /\ i - 1 = 0
          BY <1>3, <5>0
        <5>2. f[i] = <<>> \o ss[i]
          BY <1>2, <5>1
        <5> QED BY <4>1, <5>1, <5>2, ConcatEmptySeq
      <4>2. CASE i # 1
        <5>1. i - 1 \in 1..n
          BY <4>2
        <5> QED BY <1>3, <4>2, <5>1
      <4> QED BY <4>1, <4>2
    <3> DEFINE G == CHOOSE g : Sol(g)
    <3>2. Sol(G)
      <4> HIDE DEF Sol, F
      <4> QED BY <3>1
    <3>3. FlattenSeq(ss) = G[n]
      <4>1. Len(ss) # 0
        BY <2>1, <2>3
      <4> QED BY <2>1, <4>1 DEF FlattenSeq
    <3> HIDE DEF G
    <3> DEFINE E == {k \in 0..n : k > 0 => G[k] = f[k]}
    <3>4. 0 \in E
      OBVIOUS
    <3>5. ASSUME NEW k \in 0..n, k \in E, k < n PROVE k + 1 \in E
      <4>1. k + 1 \in 1..n /\ (k + 1) - 1 = k
        BY <3>5
      <4>2. f[k + 1] = f[k] \o ss[k + 1]
        BY <1>3, <4>1
      <4>3. G[k + 1] = IF k + 1 = 1 THEN ss[k + 1] ELSE G[k] \o ss[k + 1]
        BY <3>2, <4>1
      <4>4. CASE k = 0
        <5>1. ss[k + 1] \in Seq(S)
          BY <4>1
        <5>2. f[k + 1] = <<>> \o ss[k + 1]
          BY <1>2, <4>2, <4>4
        <5>4. k + 1 = 1
          BY <4>4
        <5>5. G[k + 1] = ss[k + 1]
          BY <4>3, <5>4
        <5>3. f[k + 1] = G[k + 1]
          BY <5>1, <5>2, <5>5, ConcatEmptySeq
        <5> QED BY <4>1, <5>3
      <4>5. CASE k # 0
        <5>1. G[k] = f[k] /\ k + 1 # 1
          BY <3>5, <4>5
        <5>2. G[k + 1] = f[k + 1]
          BY <4>2, <4>3, <5>1
        <5> QED BY <4>1, <5>2
      <4> QED BY <4>4, <4>5
    <3>6. 0..n \subseteq E
      <4> HIDE DEF E
      <4> QED BY <3>4, <3>5, UpTo
    <3> QED BY <2>3, <3>3, <3>6
  <2> QED BY <2>2, <2>3
<1> DEFINE h == [k \in 0..n |-> f[k]]
<1>5. h \in [0..n -> Seq(S)] /\ h[0] = <<>> /\ h[n] = FlattenSeq(ss)
  BY <1>2, <1>4
<1>6. \A k \in 1..n : h[k] = h[k - 1] \o ss[k]
  <2> SUFFICES ASSUME NEW k \in 1..n PROVE h[k] = h[k - 1] \o ss[k]
    OBVIOUS
  <2>1. k \in 0..n /\ k - 1 \in 0..n
    OBVIOUS
  <2> QED BY <1>3, <2>1
<1> HIDE DEF h
<1> QED BY <1>5, <1>6 DEF Grows

\* Where each of the lists begins, behind off[i - 1], in the one they make.
Spread(ss, n, off) ==
  /\ off \in [0..n -> Nat] /\ off[0] = 0
  /\ \A i \in 1..n : off[i] = off[i - 1] + Len(ss[i])
  /\ \A i, j \in 0..n : i <= j => off[i] <= off[j]
  /\ Len(FlattenSeq(ss)) = off[n]
  /\ \A i \in 1..n : \A j \in 1..Len(ss[i]) :
       off[i - 1] + j \in 1..off[n] /\ FlattenSeq(ss)[off[i - 1] + j] = ss[i][j]
  /\ \A k \in 1..off[n] : \E i \in 1..n : \E j \in 1..Len(ss[i]) : k = off[i - 1] + j

LEMMA FlattenFacts ==
  ASSUME NEW S, NEW n \in Nat, NEW ss \in [1..n -> Seq(S)]
  PROVE  FlattenSeq(ss) \in Seq(S) /\ \E off : Spread(ss, n, off)
<1>p. PICK h : Grows(h, S, n, ss)
  BY FlattenGrows
<1>1. /\ h \in [0..n -> Seq(S)]
      /\ h[0] = <<>> /\ h[n] = FlattenSeq(ss)
      /\ \A k \in 1..n : h[k] = h[k - 1] \o ss[k]
  BY <1>p DEF Grows
<1> DEFINE off == [k \in 0..n |-> Len(h[k])]
<1>2. off \in [0..n -> Nat] /\ off[0] = 0 /\ off[n] = Len(FlattenSeq(ss))
  <2>1. \A k \in 0..n : Len(h[k]) \in Nat
    BY LenProperties
  <2> QED BY <1>1, <2>1
<1>3. \A i \in 1..n : /\ i - 1 \in 0..n /\ off[i] = off[i - 1] + Len(ss[i]) /\ Len(ss[i]) \in Nat
                      /\ \A k \in 1..off[i] : h[i][k] = IF k <= off[i - 1] THEN h[i - 1][k]
                                                        ELSE ss[i][k - off[i - 1]]
  <2> SUFFICES ASSUME NEW i \in 1..n
               PROVE  /\ i - 1 \in 0..n /\ off[i] = off[i - 1] + Len(ss[i]) /\ Len(ss[i]) \in Nat
                      /\ \A k \in 1..off[i] : h[i][k] = IF k <= off[i - 1] THEN h[i - 1][k]
                                                        ELSE ss[i][k - off[i - 1]]
    OBVIOUS
  <2>1. i - 1 \in 0..n /\ i \in 0..n
    OBVIOUS
  <2>2. h[i - 1] \in Seq(S) /\ ss[i] \in Seq(S) /\ h[i] = h[i - 1] \o ss[i]
    BY <1>1, <2>1
  <2>3. off[i] = Len(h[i]) /\ off[i - 1] = Len(h[i - 1])
    BY <2>1
  <2> HIDE DEF off
  <2> QED BY <2>1, <2>2, <2>3, ConcatProperties, LenProperties
<1> HIDE DEF off
<1>4. \A i, j \in 0..n : i <= j => off[i] <= off[j]
  <2> SUFFICES ASSUME NEW i \in 0..n PROVE \A j \in 0..n : i <= j => off[i] <= off[j]
    OBVIOUS
  <2> DEFINE E == {j \in 0..n : i <= j => off[i] <= off[j]}
  <2>1. 0 \in E
    BY <1>2
  <2>2. ASSUME NEW j \in 0..n, j \in E, j < n PROVE j + 1 \in E
    <3>1. j + 1 \in 1..n /\ (j + 1) - 1 = j
      BY <2>2
    <3>2. off[j + 1] = off[j] + Len(ss[j + 1]) /\ Len(ss[j + 1]) \in Nat
      BY <1>3, <3>1
    <3>3. off[i] \in Nat /\ off[j] \in Nat
      BY <1>2
    <3>4. CASE i <= j
      BY <2>2, <3>1, <3>2, <3>3, <3>4
    <3>5. CASE i = j + 1
      BY <3>1, <3>2, <3>3, <3>5
    <3>6. CASE i > j + 1
      BY <3>1, <3>6
    <3> QED BY <3>4, <3>5, <3>6
  <2>3. 0..n \subseteq E
    <3> HIDE DEF E
    <3> QED BY <2>1, <2>2, UpTo
  <2> QED BY <2>3
<1> DEFINE Upto(m) ==
      /\ \A i \in 1..n : i <= m => \A j \in 1..Len(ss[i]) : h[m][off[i - 1] + j] = ss[i][j]
      /\ \A k \in 1..off[m] : \E i \in 1..n : i <= m /\ \E j \in 1..Len(ss[i]) : k = off[i - 1] + j
<1>5. \A m \in 0..n : Upto(m)
  <2> DEFINE E == {m \in 0..n : Upto(m)}
  <2>1. 0 \in E
    BY <1>2
  <2>2. ASSUME NEW m \in 0..n, m \in E, m < n PROVE m + 1 \in E
    <3>0. m + 1 \in 1..n /\ (m + 1) - 1 = m /\ m + 1 \in 0..n
      BY <2>2
    <3>1. /\ off[m + 1] = off[m] + Len(ss[m + 1]) /\ Len(ss[m + 1]) \in Nat
          /\ off[m] \in Nat /\ off[m + 1] \in Nat
          /\ \A k \in 1..off[m + 1] : h[m + 1][k] = IF k <= off[m] THEN h[m][k]
                                                    ELSE ss[m + 1][k - off[m]]
      BY <1>2, <1>3, <3>0
    <3>9. off[m] \in Nat /\ off[m + 1] \in Nat /\ off[m] <= off[m + 1]
      <4>1. off[m + 1] = off[m] + Len(ss[m + 1]) /\ Len(ss[m + 1]) \in Nat /\ off[m] \in Nat
        BY <3>1
      <4> QED BY <4>1
    <3>2. ASSUME NEW i \in 1..n, i <= m + 1, NEW j \in 1..Len(ss[i])
          PROVE  h[m + 1][off[i - 1] + j] = ss[i][j]
      <4>0. i - 1 \in 0..n /\ off[i - 1] \in Nat /\ off[i] = off[i - 1] + Len(ss[i]) /\ Len(ss[i]) \in Nat
        BY <1>2, <1>3
      <4>1. CASE i <= m
        <5>1. off[i] <= off[m] /\ off[i] \in Nat
          BY <1>2, <1>4, <4>1
        <5>2. off[i - 1] + j \in 1..off[m + 1] /\ off[i - 1] + j <= off[m]
          <6>1. off[m] <= off[m + 1] /\ off[i] <= off[m + 1]
            BY <3>9, <5>1
          <6>2. off[i - 1] + j \in 1..off[m + 1] /\ off[i - 1] + j <= off[i]
            BY <3>1, <4>0, <5>1, <6>1, Within
          <6>3. off[i - 1] + j \in Nat
            BY <6>2
          <6> QED BY SMTT(30), <3>1, <5>1, <6>2, <6>3
        <5>3. h[m][off[i - 1] + j] = ss[i][j]
          BY <2>2, <4>1
        <5> QED BY <3>1, <5>2, <5>3
      <4>2. CASE i = m + 1
        <5>1. off[m] + j \in 1..off[m + 1] /\ ~(off[m] + j <= off[m]) /\ (off[m] + j) - off[m] = j
          BY <3>1, <4>2
        <5>2. i - 1 = m
          BY <3>0, <4>2
        <5> QED BY <3>1, <4>2, <5>1, <5>2
      <4> QED BY <3>2, <3>0, <4>1, <4>2
    <3>3. ASSUME NEW k \in 1..off[m + 1]
          PROVE  \E i \in 1..n : i <= m + 1 /\ \E j \in 1..Len(ss[i]) : k = off[i - 1] + j
      <4>1. CASE k <= off[m]
        <5>1. k \in 1..off[m]
          BY <3>1, <4>1
        <5>2. PICK i \in 1..n : i <= m /\ \E j \in 1..Len(ss[i]) : k = off[i - 1] + j
          BY <2>2, <5>1
        <5>3. i <= m + 1
          BY <5>2
        <5> QED BY <5>2, <5>3
      <4>2. CASE ~(k <= off[m])
        <5>1. k - off[m] \in 1..Len(ss[m + 1]) /\ k = off[m] + (k - off[m])
          BY <3>1, <4>2
        <5>2. \E j \in 1..Len(ss[m + 1]) : k = off[(m + 1) - 1] + j
          BY <3>0, <5>1
        <5> QED BY <3>0, <5>2
      <4> QED BY <4>1, <4>2
    <3> QED BY <3>0, <3>2, <3>3
  <2>3. 0..n \subseteq E
    <3> HIDE DEF E
    <3> QED BY <2>1, <2>2, UpTo
  <2> QED BY <2>3
<1>6. /\ \A i \in 1..n : \A j \in 1..Len(ss[i]) :
           off[i - 1] + j \in 1..off[n] /\ FlattenSeq(ss)[off[i - 1] + j] = ss[i][j]
      /\ \A k \in 1..off[n] : \E i \in 1..n : \E j \in 1..Len(ss[i]) : k = off[i - 1] + j
  <2>1. Upto(n)
    <3>1. n \in 0..n
      OBVIOUS
    <3> HIDE DEF Upto
    <3> QED BY <1>5, <3>1
  <2>2. ASSUME NEW i \in 1..n, NEW j \in 1..Len(ss[i]) PROVE off[i - 1] + j \in 1..off[n]
    <3>1. /\ i - 1 \in 0..n /\ off[i] = off[i - 1] + Len(ss[i]) /\ Len(ss[i]) \in Nat
          /\ off[i - 1] \in Nat /\ off[n] \in Nat
      BY <1>2, <1>3
    <3>2. off[i] <= off[n]
      BY <1>4
    <3>3. off[i] \in Nat
      BY <1>2
    <3> QED BY <3>1, <3>2, <3>3, Within
  <2> QED BY <1>1, <2>1, <2>2
<1>7. FlattenSeq(ss) \in Seq(S)
  <2>1. n \in 0..n
    OBVIOUS
  <2> QED BY <1>1, <2>1
<1>8. Spread(ss, n, off)
  BY <1>2, <1>3, <1>4, <1>6 DEF Spread
<1> QED BY <1>7, <1>8
-----------------------------------------------------------------------------
(* Parts of lists.                                                         *)

\* There is one way to go through numbers in order.
LEMMA AscendingExists ==
  ASSUME NEW P \in SUBSET Nat, IsFiniteSet(P)
  PROVE  /\ Cardinality(P) \in Nat
         /\ Ascending(P) \in [1..Cardinality(P) -> P]
         /\ \A i, j \in 1..Cardinality(P) : i < j => Ascending(P)[i] < Ascending(P)[j]
         /\ \A p \in P : \E i \in 1..Cardinality(P) : Ascending(P)[i] = p
<1> DEFINE c == Cardinality(P)
<1> DEFINE upTo(p) == {q \in P : q <= p}
<1> DEFINE rank == [p \in P |-> Cardinality(upTo(p))]
<1>0. \A p \in P : p \in Nat
  OBVIOUS
<1>1. IsFiniteSet(P) /\ c \in Nat
  BY FS_CardinalityType
<1>2. \A p \in P : IsFiniteSet(upTo(p)) /\ rank[p] \in 1..c /\ rank[p] \in Nat
  <2> SUFFICES ASSUME NEW p \in P PROVE IsFiniteSet(upTo(p)) /\ rank[p] \in 1..c /\ rank[p] \in Nat
    OBVIOUS
  <2>1. upTo(p) \in SUBSET P /\ p \in upTo(p)
    OBVIOUS
  <2> HIDE DEF upTo
  <2>2. IsFiniteSet(upTo(p)) /\ Cardinality(upTo(p)) <= c
    BY <1>1, <2>1, FS_Subset
  <2>3. Cardinality(upTo(p)) \in Nat /\ Cardinality(upTo(p)) # 0
    BY <2>1, <2>2, FS_CardinalityType, FS_EmptySet
  <2> QED BY <1>1, <2>2, <2>3
<1>3. \A p, q \in P : p < q => rank[p] < rank[q]
  <2> SUFFICES ASSUME NEW p \in P, NEW q \in P, p < q PROVE rank[p] < rank[q]
    OBVIOUS
  <2>1. upTo(p) \in SUBSET upTo(q) /\ q \in upTo(q) /\ q \notin upTo(p)
    <3>1. p \in Nat /\ q \in Nat /\ q <= q /\ ~(q <= p)
      BY <1>0
    <3>2. \A r \in P : r <= p => r <= q
      BY <1>0, <3>1
    <3> QED BY <3>1, <3>2
  <2> HIDE DEF upTo
  <2>2. Cardinality(upTo(p)) <= Cardinality(upTo(q)) /\ Cardinality(upTo(p)) # Cardinality(upTo(q))
    BY <1>2, <2>1, FS_Subset
  <2> QED BY <1>1, <1>2, <2>2
<1> HIDE DEF rank
<1>4. rank \in Injection(P, 1..c)
  <2>1. rank \in [P -> 1..c]
    BY <1>2 DEF rank
  <2>2. \A p, q \in P : rank[p] = rank[q] => p = q
    <3> SUFFICES ASSUME NEW p \in P, NEW q \in P, rank[p] = rank[q], p # q PROVE FALSE
      OBVIOUS
    <3>1. rank[p] \in Nat /\ rank[q] \in Nat
      BY <1>2
    <3>2. p \in Nat /\ q \in Nat
      BY <1>0
    <3>3. p < q \/ q < p
      BY <3>2
    <3> QED BY <1>3, <3>1, <3>3
  <2> QED BY <2>1, <2>2 DEF Injection, IsInjective
<1>5. rank \in Surjection(P, 1..c)
  <2>1. IsFiniteSet(1..c) /\ Cardinality(1..c) = c
    BY <1>1, FS_Interval
  <2> QED BY <1>1, <1>4, <2>1, FS_Injection
<1> DEFINE f == [i \in 1..c |-> CHOOSE p \in P : rank[p] = i]
<1>6. \A i \in 1..c : f[i] \in P /\ rank[f[i]] = i
  BY <1>5 DEF Surjection
<1> HIDE DEF f
<1>7. f \in [1..c -> P]
  BY <1>6 DEF f
<1>8. \A i, j \in 1..c : i < j => f[i] < f[j]
  <2> SUFFICES ASSUME NEW i \in 1..c, NEW j \in 1..c, i < j, ~(f[i] < f[j]) PROVE FALSE
    OBVIOUS
  <2>1. i \in Nat /\ j \in Nat /\ i # j /\ ~(j < i)
    BY <1>1
  <2>2. /\ f[i] \in P /\ f[j] \in P /\ rank[f[i]] = i /\ rank[f[j]] = j
        /\ f[i] \in Nat /\ f[j] \in Nat
    BY <1>0, <1>6
  <2>3. f[i] = f[j] \/ f[j] < f[i]
    BY <2>2
  <2> QED BY <1>3, <2>1, <2>2, <2>3
<1> DEFINE g == Ascending(P)
<1>9. g \in [1..c -> P] /\ \A i, j \in 1..c : i < j => g[i] < g[j]
  <2>1. \E h \in [1..c -> P] : \A i, j \in DOMAIN h : i < j => h[i] < h[j]
    BY <1>7, <1>8
  <2> QED BY <2>1 DEF Ascending
<1> HIDE DEF g
<1>10. \A p \in P : \E i \in 1..c : g[i] = p
  <2>1. \A i, j \in 1..c : g[i] = g[j] => i = j
    <3> SUFFICES ASSUME NEW i \in 1..c, NEW j \in 1..c, g[i] = g[j], i # j PROVE FALSE
      OBVIOUS
    <3>1. i < j \/ j < i
      BY <1>1
    <3>2. g[i] \in Nat /\ g[j] \in Nat
      BY <1>0, <1>9
    <3>3. g[i] < g[j] \/ g[j] < g[i]
      BY <1>9, <3>1
    <3> QED BY <3>2, <3>3
  <2>2. g \in Injection(1..c, P)
    BY <1>9, <2>1 DEF Injection, IsInjective
  <2>3. IsFiniteSet(1..c) /\ Cardinality(1..c) = c
    BY <1>1, FS_Interval
  <2>4. g \in Surjection(1..c, P)
    BY <1>1, <2>2, <2>3, FS_Injection
  <2> QED BY <2>4 DEF Surjection
<1> QED BY <1>1, <1>9, <1>10 DEF g

\* What is selected from a list: off[i] is where what is at i goes, if it does.
Places(t, list, P, off) ==
  /\ off \in [0..Len(list) -> Nat] /\ off[0] = 0 /\ Len(t) = off[Len(list)]
  /\ \A i \in 1..Len(list) :
       /\ i \in P => off[i] = off[i - 1] + 1 /\ off[i] \in 1..Len(t) /\ t[off[i]] = list[i]
       /\ i \notin P => off[i] = off[i - 1]
  /\ \A k \in 1..Len(t) : \E i \in P \cap (1..Len(list)) : k = off[i]

LEMMA SelectedPlaces ==
  ASSUME NEW S, NEW list \in Seq(S), NEW P
  PROVE  /\ Selected(list, P) \in Seq(S)
         /\ \E off : Places(Selected(list, P), list, P, off)
<1> DEFINE n == Len(list)
<1> DEFINE ss == [i \in 1..n |-> IF i \in P THEN <<list[i]>> ELSE <<>>]
<1> DEFINE t == FlattenSeq(ss)
<1>1. n \in Nat /\ DOMAIN list = 1..n /\ \A i \in 1..n : list[i] \in S
  BY LenProperties, ElementOfSeq
<1>2. Selected(list, P) = t
  BY <1>1 DEF Selected
<1>3. /\ ss \in [1..n -> Seq(S)]
      /\ \A i \in 1..n : i \in P => ss[i] = <<list[i]>> /\ Len(ss[i]) = 1
      /\ \A i \in 1..n : i \notin P => Len(ss[i]) = 0
  BY <1>1
<1> HIDE DEF ss, n
<1>4. t \in Seq(S)
  BY <1>1, <1>3, FlattenFacts
<1>5. PICK off : Spread(ss, n, off)
  BY <1>1, <1>3, FlattenFacts
<1>6. /\ off \in [0..n -> Nat] /\ off[0] = 0
      /\ \A i \in 1..n : off[i] = off[i - 1] + Len(ss[i])
      /\ Len(t) = off[n]
      /\ \A i \in 1..n : \A j \in 1..Len(ss[i]) :
           off[i - 1] + j \in 1..off[n] /\ t[off[i - 1] + j] = ss[i][j]
      /\ \A k \in 1..off[n] : \E i \in 1..n : \E j \in 1..Len(ss[i]) : k = off[i - 1] + j
  BY <1>5 DEF Spread
<1> HIDE DEF t
<1>7. ASSUME NEW i \in 1..n, i \in P
      PROVE  off[i] = off[i - 1] + 1 /\ off[i] \in 1..Len(t) /\ t[off[i]] = list[i]
  <2>1. ss[i] = <<list[i]>> /\ Len(ss[i]) = 1
    BY <1>3, <1>7
  <2>2. 1 \in 1..Len(ss[i])
    BY <2>1
  <2>3. ss[i][1] = list[i]
    BY <2>1
  <2>4. off[i] = off[i - 1] + 1
    BY <1>6, <2>1
  <2> QED BY <1>6, <2>2, <2>3, <2>4
<1>8. ASSUME NEW i \in 1..n, i \notin P PROVE off[i] = off[i - 1]
  <2>1. off[i] = off[i - 1] + 0
    BY <1>3, <1>6, <1>8
  <2>2. off[i - 1] \in Nat
    <3>1. i - 1 \in 0..n
      BY <1>1
    <3> QED BY <1>6, <3>1
  <2> QED BY <2>1, <2>2
<1>9. ASSUME NEW k \in 1..Len(t) PROVE \E i \in P \cap (1..n) : k = off[i]
  <2>1. PICK i \in 1..n : \E j \in 1..Len(ss[i]) : k = off[i - 1] + j
    BY SMTT(30), <1>6
  <2>2. PICK j \in 1..Len(ss[i]) : k = off[i - 1] + j
    BY <2>1
  <2>3. i \in P /\ Len(ss[i]) = 1
    BY <1>3
  <2>4. j = 1
    BY <2>3
  <2> QED BY <1>7, <2>2, <2>3, <2>4
<1>10. Places(t, list, P, off)
  BY <1>6, <1>7, <1>8, <1>9 DEF Places, n
<1> QED BY <1>2, <1>4, <1>10

\* It is no longer than the list, and of its elements.
LEMMA SelectedFacts ==
  ASSUME NEW S, NEW list \in Seq(S), NEW P
  PROVE  /\ Selected(list, P) \in Seq(S)
         /\ Len(Selected(list, P)) \in Nat /\ Len(list) \in Nat
         /\ Len(Selected(list, P)) <= Len(list)
         /\ ToSet(Selected(list, P)) = {list[i] : i \in P \cap DOMAIN list}
<1> DEFINE n == Len(list)
<1> DEFINE t == Selected(list, P)
<1>1. n \in Nat /\ DOMAIN list = 1..n /\ t \in Seq(S)
  BY LenProperties, SelectedPlaces
<1>2. PICK off : Places(t, list, P, off)
  BY SelectedPlaces
<1> HIDE DEF t
<1>3. /\ off \in [0..n -> Nat] /\ off[0] = 0 /\ Len(t) = off[n]
      /\ \A i \in 1..n :
           /\ i \in P => off[i] = off[i - 1] + 1 /\ off[i] \in 1..Len(t) /\ t[off[i]] = list[i]
           /\ i \notin P => off[i] = off[i - 1]
      /\ \A k \in 1..Len(t) : \E i \in P \cap (1..n) : k = off[i]
  BY <1>2 DEF Places
<1> HIDE DEF n
<1>4. off[n] <= n
  <2> DEFINE E == {k \in 0..n : off[k] <= k}
  <2>1. 0 \in E
    BY <1>1, <1>3
  <2>2. ASSUME NEW k \in 0..n, k \in E, k < n PROVE k + 1 \in E
    <3>1. k + 1 \in 1..n /\ (k + 1) - 1 = k /\ k \in Nat
      BY <1>1, <2>2
    <3>2. off[k + 1] \in {off[k], off[k] + 1} /\ off[k] \in Nat
      BY <1>3, <3>1
    <3>3. off[k] <= k
      BY <2>2
    <3>4. off[k] + 0 <= k + 1 /\ off[k] + 1 <= k + 1 /\ off[k] <= k + 1
      BY <3>1, <3>2, <3>3
    <3>5. off[k + 1] <= k + 1
      BY <3>2, <3>4
    <3> QED BY <1>1, <3>1, <3>5
  <2>3. 0..n \subseteq E
    <3> HIDE DEF E
    <3> QED BY <1>1, <2>1, <2>2, UpTo
  <2> QED BY <1>1, <2>3
<1>5. DOMAIN t = 1..Len(t)
  BY <1>1, LenProperties
<1>6. ToSet(t) = {list[i] : i \in P \cap (1..n)}
  <2>1. ASSUME NEW k \in 1..Len(t) PROVE \E i \in P \cap (1..n) : t[k] = list[i]
    <3>1. PICK i \in P \cap (1..n) : k = off[i]
      BY <1>3
    <3> QED BY <1>3, <3>1
  <2>2. ASSUME NEW i \in P \cap (1..n) PROVE \E k \in 1..Len(t) : t[k] = list[i]
    <3>1. off[i] \in 1..Len(t) /\ t[off[i]] = list[i]
      BY <1>3
    <3> QED BY <3>1
  <2> QED BY <1>5, <2>1, <2>2 DEF ToSet
<1> QED BY <1>1, <1>3, <1>4, <1>6 DEF n, t

\* The first of it is the first of the list that is selected, and different
\* elements stay different.
LEMMA SelectedOrder ==
  ASSUME NEW S, NEW list \in Seq(S), NEW P
  PROVE  /\ P \cap DOMAIN list = {} => Selected(list, P) = <<>>
         /\ \A p \in P \cap DOMAIN list : (\A i \in P : ~(i < p)) =>
              Selected(list, P) # <<>> /\ Selected(list, P)[1] = list[p]
         /\ (\A i, j \in P \cap DOMAIN list : list[i] = list[j] => i = j) =>
              Cardinality(ToSet(Selected(list, P))) = Len(Selected(list, P))
<1> DEFINE n == Len(list)
<1> DEFINE t == Selected(list, P)
<1>1. n \in Nat /\ DOMAIN list = 1..n /\ t \in Seq(S) /\ DOMAIN t = 1..Len(t) /\ Len(t) \in Nat
  BY LenProperties, SelectedPlaces
<1>2. PICK off : Places(t, list, P, off)
  BY SelectedPlaces
<1> HIDE DEF t
<1>3. /\ off \in [0..n -> Nat] /\ off[0] = 0 /\ Len(t) = off[n]
      /\ \A i \in 1..n :
           /\ i \in P => off[i] = off[i - 1] + 1 /\ off[i] \in 1..Len(t) /\ t[off[i]] = list[i]
           /\ i \notin P => off[i] = off[i - 1]
      /\ \A k \in 1..Len(t) : \E i \in P \cap (1..n) : k = off[i]
  BY <1>2 DEF Places
<1> HIDE DEF n
<1>4. ASSUME P \cap (1..n) = {} PROVE t = <<>>
  <2>1. Len(t) = 0
    <3> SUFFICES ASSUME Len(t) # 0 PROVE FALSE
      OBVIOUS
    <3>1. 1 \in 1..Len(t)
      BY <1>1
    <3> QED BY <1>3, <1>4, <3>1
  <2> QED BY <1>1, <2>1, EmptySeq
<1>5. ASSUME NEW p \in P \cap (1..n), \A i \in P : ~(i < p) PROVE t # <<>> /\ t[1] = list[p]
  <2> DEFINE E == {k \in 0..(p - 1) : off[k] = 0}
  <2>0. p \in Nat /\ p - 1 \in Nat /\ p <= n
    BY <1>1
  <2>1. 0 \in E
    BY <1>3, <2>0
  <2>2. ASSUME NEW k \in 0..(p - 1), k \in E, k < p - 1 PROVE k + 1 \in E
    <3>1. k + 1 \in 1..n /\ (k + 1) - 1 = k /\ k + 1 < p /\ k + 1 \in 0..(p - 1)
      BY <1>1, <2>0, <2>2
    <3>2. k + 1 \notin P
      BY <1>5, <3>1
    <3> QED BY <1>3, <2>2, <3>1, <3>2
  <2>3. 0..(p - 1) \subseteq E
    <3> HIDE DEF E
    <3> QED BY <2>0, <2>1, <2>2, UpTo
  <2>4. off[p - 1] = 0
    BY <2>0, <2>3
  <2>5. off[p] = 0 + 1 /\ off[p] \in 1..Len(t) /\ t[off[p]] = list[p]
    BY <1>3, <2>4
  <2>6. t[1] = list[p] /\ Len(t) # 0
    BY <2>5
  <2>7. Len(<<>>) = 0
    OBVIOUS
  <2> QED BY <2>6, <2>7
<1>6. ASSUME \A i, j \in P \cap (1..n) : list[i] = list[j] => i = j
      PROVE  Cardinality(ToSet(t)) = Len(t)
  <2>1. \A k, l \in 1..Len(t) : t[k] = t[l] => k = l
    <3> SUFFICES ASSUME NEW k \in 1..Len(t), NEW l \in 1..Len(t), t[k] = t[l] PROVE k = l
      OBVIOUS
    <3>1. PICK i \in P \cap (1..n) : k = off[i]
      BY <1>3
    <3>2. PICK j \in P \cap (1..n) : l = off[j]
      BY <1>3
    <3>3. t[k] = list[i] /\ t[l] = list[j]
      BY <1>3, <3>1, <3>2
    <3> QED BY <1>6, <3>1, <3>2, <3>3
  <2> DEFINE T == ToSet(t)
  <2>2. T = {t[k] : k \in 1..Len(t)}
    BY <1>1 DEF ToSet
  <2>3. t \in [1..Len(t) -> T] /\ \A x \in T : \E k \in 1..Len(t) : t[k] = x
    <3>1. t \in [1..Len(t) -> S]
      BY <1>1, LenProperties
    <3> QED BY <2>2, <3>1
  <2> HIDE DEF T
  <2>4. t \in Bijection(1..Len(t), T)
    BY <2>1, <2>3 DEF Bijection, Injection, Surjection, IsInjective
  <2>5. ExistsBijection(1..Len(t), T)
    BY <2>4 DEF ExistsBijection
  <2>6. Cardinality(T) = Len(t)
    BY <1>1, <2>5, FS_CountingElements
  <2> QED BY <2>6 DEF T
<1> QED BY <1>1, <1>4, <1>5, <1>6 DEF t

\* There is one list with the places of what is selected.
LEMMA SelectedIs ==
  ASSUME NEW S, NEW list \in Seq(S), NEW P, NEW u \in Seq(S), NEW place, Places(u, list, P, place)
  PROVE  Selected(list, P) = u
<1> DEFINE n == Len(list)
<1> DEFINE t == Selected(list, P)
<1>1. n \in Nat /\ t \in Seq(S)
  BY LenProperties, SelectedPlaces
<1>2. PICK off : Places(t, list, P, off)
  BY SelectedPlaces
<1> HIDE DEF t
<1>3. /\ off \in [0..n -> Nat] /\ off[0] = 0 /\ Len(t) = off[n]
      /\ \A i \in 1..n :
           /\ i \in P => off[i] = off[i - 1] + 1 /\ off[i] \in 1..Len(t) /\ t[off[i]] = list[i]
           /\ i \notin P => off[i] = off[i - 1]
      /\ \A k \in 1..Len(t) : \E i \in P \cap (1..n) : k = off[i]
  BY <1>2 DEF Places
<1>4. /\ place \in [0..n -> Nat] /\ place[0] = 0 /\ Len(u) = place[n]
      /\ \A i \in 1..n :
           /\ i \in P => place[i] = place[i - 1] + 1 /\ u[place[i]] = list[i]
           /\ i \notin P => place[i] = place[i - 1]
  BY DEF Places
<1> HIDE DEF n
<1>5. \A i \in 0..n : place[i] = off[i]
  <2> DEFINE E == {i \in 0..n : place[i] = off[i]}
  <2>1. 0 \in E
    BY <1>1, <1>3, <1>4
  <2>2. ASSUME NEW k \in 0..n, k \in E, k < n PROVE k + 1 \in E
    <3>1. k + 1 \in 1..n /\ (k + 1) - 1 = k /\ k + 1 \in 0..n
      BY <1>1, <2>2
    <3>2. place[k] = off[k]
      BY <2>2
    <3>3. place[k + 1] = off[k + 1]
      BY SMTT(30), <1>3, <1>4, <3>1, <3>2
    <3> QED BY <3>1, <3>3
  <2>3. 0..n \subseteq E
    <3> HIDE DEF E
    <3> QED BY <1>1, <2>1, <2>2, UpTo
  <2> QED BY <2>3
<1>6. n \in 0..n
  BY <1>1
<1>7. Len(u) = Len(t)
  BY <1>3, <1>4, <1>5, <1>6
<1>8. \A k \in 1..Len(t) : u[k] = t[k]
  <2> SUFFICES ASSUME NEW k \in 1..Len(t) PROVE u[k] = t[k]
    OBVIOUS
  <2>1. PICK i \in P \cap (1..n) : k = off[i]
    BY <1>3
  <2>2. i \in 0..n
    BY <1>1
  <2> QED BY <1>3, <1>4, <1>5, <2>1, <2>2
<1> QED BY <1>1, <1>7, <1>8, SeqEqual DEF t

LEMMA SelectedAll ==
  ASSUME NEW S, NEW list \in Seq(S) PROVE Selected(list, 1..Len(list)) = list
<1> DEFINE n == Len(list)
<1> DEFINE off == [i \in 0..n |-> i]
<1>1. n \in Nat
  BY LenProperties
<1> HIDE DEF n
<1>2. off \in [0..n -> Nat] /\ off[0] = 0 /\ off[n] = n
  BY <1>1
<1>3. \A i \in 1..n : i - 1 \in 0..n /\ i \in 0..n /\ i = (i - 1) + 1
  BY <1>1
<1>4. \A i \in 1..n : off[i] = i /\ off[i - 1] = i - 1
  BY <1>3
<1>5. Places(list, list, 1..n, off)
  BY <1>2, <1>3, <1>4 DEF Places, n
<1> QED BY <1>5, SelectedIs DEF n

\* What is selected up to a place is counted by the positions selected from.
LEMMA SelectedCounts ==
  ASSUME NEW S, NEW list \in Seq(S), NEW P \in SUBSET (1..Len(list)), NEW off,
         Places(Selected(list, P), list, P, off)
  PROVE  /\ \A i \in 0..Len(list) : off[i] = Cardinality({j \in P : j <= i})
         /\ Len(Selected(list, P)) = Cardinality(P)
<1> DEFINE n == Len(list)
<1> DEFINE upTo(i) == {j \in P : j <= i}
<1>1. n \in Nat
  BY LenProperties
<1>2. /\ off \in [0..n -> Nat] /\ off[0] = 0 /\ Len(Selected(list, P)) = off[n]
      /\ \A i \in 1..n :
           /\ i \in P => off[i] = off[i - 1] + 1
           /\ i \notin P => off[i] = off[i - 1]
  BY DEF Places
<1>3. P \in SUBSET (1..n)
  OBVIOUS
<1> HIDE DEF n
<1> DEFINE E == {i \in 0..n : IsFiniteSet(upTo(i)) /\ off[i] = Cardinality(upTo(i))}
<1>4. 0 \in E
  <2>1. upTo(0) = {}
    <3>1. \A j \in P : j \in Nat /\ ~(j <= 0)
      BY <1>1, <1>3
    <3> QED BY <3>1
  <2>2. IsFiniteSet(upTo(0)) /\ Cardinality(upTo(0)) = 0
    BY <2>1, FS_EmptySet
  <2> HIDE DEF upTo
  <2> QED BY <1>1, <1>2, <2>2
<1>5. ASSUME NEW k \in 0..n, k \in E, k < n PROVE k + 1 \in E
  <2>1. k + 1 \in 1..n /\ (k + 1) - 1 = k /\ k + 1 \in 0..n
    BY <1>1, <1>5
  <2>2. IsFiniteSet(upTo(k)) /\ off[k] = Cardinality(upTo(k))
    BY <1>5
  <2>3. CASE k + 1 \in P
    <3>1. upTo(k + 1) = upTo(k) \union {k + 1} /\ k + 1 \notin upTo(k)
      <4>1. \A j \in P : j \in Nat
        BY <1>1, <1>3
      <4>2. \A j \in P : j <= k + 1 <=> j <= k \/ j = k + 1
        BY <1>5, <4>1
      <4>3. ~(k + 1 <= k) /\ k + 1 <= k + 1
        BY <2>1
      <4> QED BY <2>3, <4>2, <4>3
    <3> HIDE DEF upTo
    <3>2. IsFiniteSet(upTo(k + 1)) /\ Cardinality(upTo(k + 1)) = Cardinality(upTo(k)) + 1
      BY <2>2, <3>1, FS_AddElement
    <3> QED BY <1>2, <2>1, <2>2, <2>3, <3>2
  <2>4. CASE k + 1 \notin P
    <3>1. upTo(k + 1) = upTo(k)
      <4>1. \A j \in P : j \in Nat /\ j # k + 1
        BY <1>1, <1>3, <2>4
      <4>2. \A j \in P : j <= k + 1 <=> j <= k
        BY <1>5, <4>1
      <4> QED BY <4>2
    <3> HIDE DEF upTo
    <3> QED BY <1>2, <2>1, <2>2, <2>4, <3>1
  <2> QED BY <2>3, <2>4
<1>6. 0..n \subseteq E
  <2> HIDE DEF E
  <2> QED BY <1>1, <1>4, <1>5, UpTo
<1>7. upTo(n) = P /\ n \in 0..n
  <2>1. \A j \in P : j <= n
    BY <1>1, <1>3
  <2>2. upTo(n) = P
    BY <2>1
  <2>3. n \in 0..n
    BY <1>1
  <2> QED BY <2>2, <2>3
<1>8. off[n] = Cardinality(P)
  <2>1. off[n] = Cardinality(upTo(n))
    BY <1>6, <1>7
  <2> QED BY <1>7, <2>1
<1> QED BY <1>2, <1>6, <1>8 DEF n

\* What is selected from two lists, one behind the other.
LEMMA SelectedJoin ==
  ASSUME NEW S, NEW a \in Seq(S), NEW b \in Seq(S), NEW P, NEW A, NEW B,
         \A i \in 1..Len(a) : i \in P <=> i \in A,
         \A i \in 1..Len(b) : Len(a) + i \in P <=> i \in B
  PROVE  Selected(a \o b, P) = Selected(a, A) \o Selected(b, B)
<1> DEFINE m == Len(a)
<1> DEFINE n == Len(b)
<1> DEFINE s == a \o b
<1> DEFINE t == Selected(a, A)
<1> DEFINE u == Selected(b, B)
<1> DEFINE w == t \o u
<1>1. m \in Nat /\ n \in Nat /\ t \in Seq(S) /\ u \in Seq(S) /\ Len(t) \in Nat /\ Len(u) \in Nat
  BY LenProperties, SelectedPlaces
<1>2. /\ s \in Seq(S) /\ Len(s) = m + n
      /\ \A i \in 1..(m + n) : s[i] = IF i <= m THEN a[i] ELSE b[i - m]
  BY ConcatProperties
<1>3. PICK f : Places(t, a, A, f)
  BY SelectedPlaces
<1>4. PICK g : Places(u, b, B, g)
  BY SelectedPlaces
<1> HIDE DEF t, u
<1>5. /\ w \in Seq(S) /\ Len(w) = Len(t) + Len(u)
      /\ \A i \in 1..(Len(t) + Len(u)) : w[i] = IF i <= Len(t) THEN t[i] ELSE u[i - Len(t)]
  BY <1>1, ConcatProperties
<1>6. /\ f \in [0..m -> Nat] /\ f[0] = 0 /\ Len(t) = f[m]
      /\ \A i \in 1..m :
           /\ i \in A => f[i] = f[i - 1] + 1 /\ f[i] \in 1..Len(t) /\ t[f[i]] = a[i]
           /\ i \notin A => f[i] = f[i - 1]
      /\ \A k \in 1..Len(t) : \E i \in A \cap (1..m) : k = f[i]
  BY <1>3 DEF Places
<1>7. /\ g \in [0..n -> Nat] /\ g[0] = 0 /\ Len(u) = g[n]
      /\ \A i \in 1..n :
           /\ i \in B => g[i] = g[i - 1] + 1 /\ g[i] \in 1..Len(u) /\ u[g[i]] = b[i]
           /\ i \notin B => g[i] = g[i - 1]
      /\ \A k \in 1..Len(u) : \E i \in B \cap (1..n) : k = g[i]
  BY <1>4 DEF Places
<1>8. (\A i \in 1..m : i \in P <=> i \in A) /\ (\A i \in 1..n : m + i \in P <=> i \in B)
  OBVIOUS
<1> DEFINE l == Len(t)
<1> DEFINE off == [i \in 0..(m + n) |-> IF i <= m THEN f[i] ELSE l + g[i - m]]
<1> HIDE DEF m, n, s, w
<1>9. /\ \A i \in 0..m : off[i] = f[i]
      /\ \A i \in 0..n : off[m + i] = l + g[i]
  <2>1. \A i \in 0..m : i \in 0..(m + n) /\ i <= m
    BY <1>1
  <2>2. \A i \in 0..n : m + i \in 0..(m + n) /\ (m + i) - m = i /\ (m + i <= m => i = 0)
    BY <1>1
  <2>3. l + g[0] = f[m] /\ m + 0 = m
    BY <1>1, <1>6, <1>7
  <2> QED BY <2>1, <2>2, <2>3
<1>10. off \in [0..(m + n) -> Nat] /\ off[0] = 0 /\ off[m + n] = Len(t) + Len(u)
  <2>1. \A i \in 0..(m + n) : (IF i <= m THEN f[i] ELSE l + g[i - m]) \in Nat
    <3>1. \A i \in 0..(m + n) : i <= m => i \in 0..m
      BY <1>1
    <3>2. \A i \in 0..(m + n) : ~(i <= m) => i - m \in 0..n
      BY <1>1
    <3>3. \A i \in 0..n : l + g[i] \in Nat
      BY <1>1, <1>7
    <3> QED BY <1>6, <3>1, <3>2, <3>3
  <2>2. 0 \in 0..m /\ n \in 0..n
    BY <1>1
  <2>3. off \in [0..(m + n) -> Nat]
    BY <2>1
  <2> HIDE DEF off
  <2> QED BY <1>6, <1>7, <1>9, <2>2, <2>3
<1> HIDE DEF off
<1>11. ASSUME NEW i \in 1..m
       PROVE  /\ i \in P => off[i] = off[i - 1] + 1 /\ off[i] \in 1..Len(w) /\ w[off[i]] = s[i]
              /\ i \notin P => off[i] = off[i - 1]
  <2>1. i \in 0..m /\ i - 1 \in 0..m /\ i \in 1..(m + n) /\ i <= m
    BY <1>1
  <2>2. off[i] = f[i] /\ off[i - 1] = f[i - 1] /\ s[i] = a[i]
    BY <1>2, <1>9, <2>1
  <2>3. \A k \in 1..Len(t) : k \in 1..Len(w) /\ w[k] = t[k]
    BY <1>1, <1>5
  <2>4. i \in P <=> i \in A
    BY <1>8
  <2>5. /\ i \in A => f[i] = f[i - 1] + 1 /\ f[i] \in 1..Len(t) /\ t[f[i]] = a[i]
        /\ i \notin A => f[i] = f[i - 1]
    BY <1>6
  <2> QED BY SMTT(30), <2>2, <2>3, <2>4, <2>5
<1>12. ASSUME NEW j \in 1..n
       PROVE  /\ m + j \in P => /\ off[m + j] = off[(m + j) - 1] + 1 /\ off[m + j] \in 1..Len(w)
                                /\ w[off[m + j]] = s[m + j]
              /\ m + j \notin P => off[m + j] = off[(m + j) - 1]
  <2>1. /\ j \in 0..n /\ j - 1 \in 0..n /\ m + j \in 1..(m + n) /\ ~(m + j <= m)
        /\ (m + j) - m = j /\ (m + j) - 1 = m + (j - 1)
    BY <1>1
  <2>2. off[m + j] = l + g[j] /\ off[(m + j) - 1] = l + g[j - 1] /\ s[m + j] = b[j]
    BY <1>2, <1>9, <2>1
  <2>3. \A k \in 1..Len(u) : l + k \in 1..Len(w) /\ w[l + k] = u[k]
    <3> SUFFICES ASSUME NEW k \in 1..Len(u) PROVE l + k \in 1..Len(w) /\ w[l + k] = u[k]
      OBVIOUS
    <3>1. l + k \in 1..(Len(t) + Len(u)) /\ ~(l + k <= l) /\ (l + k) - l = k
      BY <1>1
    <3> QED BY <1>5, <3>1
  <2>4. m + j \in P <=> j \in B
    BY <1>8
  <2>5. g[j - 1] \in Nat /\ l + (g[j - 1] + 1) = (l + g[j - 1]) + 1
    <3>1. g[j - 1] \in Nat
      BY <1>7, <2>1
    <3> QED BY <1>1, <3>1
  <2>6. ASSUME m + j \in P
        PROVE  /\ off[m + j] = off[(m + j) - 1] + 1 /\ off[m + j] \in 1..Len(w)
               /\ w[off[m + j]] = s[m + j]
    <3>1. g[j] = g[j - 1] + 1 /\ g[j] \in 1..Len(u) /\ u[g[j]] = b[j]
      BY <1>7, <2>4, <2>6
    <3> QED BY <2>2, <2>3, <2>5, <3>1
  <2>7. ASSUME m + j \notin P PROVE off[m + j] = off[(m + j) - 1]
    BY <1>7, <2>2, <2>4, <2>7
  <2> QED BY <2>6, <2>7
<1>13. ASSUME NEW i \in 1..(m + n)
       PROVE  /\ i \in P => off[i] = off[i - 1] + 1 /\ off[i] \in 1..Len(w) /\ w[off[i]] = s[i]
              /\ i \notin P => off[i] = off[i - 1]
  <2>1. CASE i <= m
    <3>1. i \in 1..m
      BY <1>1, <2>1
    <3> QED BY <1>11, <3>1
  <2>2. CASE ~(i <= m)
    <3>1. i - m \in 1..n /\ m + (i - m) = i
      BY <1>1, <2>2
    <3> QED BY <1>12, <3>1
  <2> QED BY <2>1, <2>2
<1>14. ASSUME NEW k \in 1..Len(w) PROVE \E i \in P \cap (1..(m + n)) : k = off[i]
  <2>1. CASE k <= Len(t)
    <3>1. k \in 1..Len(t)
      BY <1>1, <1>5, <2>1
    <3>2. PICK i \in A \cap (1..m) : k = f[i]
      BY <1>6, <3>1
    <3>3. i \in P /\ i \in 0..m /\ i \in 1..(m + n)
      BY <1>1, <1>8
    <3> QED BY <1>9, <3>2, <3>3
  <2>2. CASE ~(k <= Len(t))
    <3>1. k - l \in 1..Len(u) /\ l + (k - l) = k
      BY <1>1, <1>5, <2>2
    <3>2. PICK j \in B \cap (1..n) : k - l = g[j]
      BY <1>7, <3>1
    <3>3. m + j \in P /\ j \in 0..n /\ m + j \in 1..(m + n)
      BY <1>1, <1>8
    <3> QED BY <1>9, <3>1, <3>2, <3>3
  <2> QED BY <2>1, <2>2
<1>15. Places(w, s, P, off)
  BY <1>2, <1>5, <1>10, <1>13, <1>14 DEF Places
<1> QED BY <1>2, <1>5, <1>15, SelectedIs DEF s, w, t, u

\* In the list that the lists of the numbers Q make, in order, position m is
\* position num[m] of the list of who[m], and the other way round.
Threaded(t, Q, g, who, num) ==
  /\ who \in [1..Len(t) -> Q] /\ num \in [1..Len(t) -> Nat \ {0}]
  /\ \A m \in 1..Len(t) : num[m] \in 1..Len(g[who[m]]) /\ t[m] = g[who[m]][num[m]]
  /\ \A q \in Q : \A j \in 1..Len(g[q]) : \E m \in 1..Len(t) : who[m] = q /\ num[m] = j
  /\ \A m, l \in 1..Len(t) : who[m] = who[l] /\ num[m] < num[l] => m < l
  /\ \A m, l \in 1..Len(t) : who[m] = who[l] /\ num[m] = num[l] => m = l

LEMMA InTurnFacts ==
  ASSUME NEW S, NEW Q \in SUBSET Nat, IsFiniteSet(Q), NEW g, \A q \in Q : g[q] \in Seq(S)
  PROVE  /\ InTurn(Q, g) \in Seq(S) /\ Len(InTurn(Q, g)) \in Nat
         /\ \E who, num : Threaded(InTurn(Q, g), Q, g, who, num)
<1> DEFINE n == Cardinality(Q)
<1> DEFINE at == Ascending(Q)
<1> DEFINE ss == [i \in DOMAIN at |-> g[at[i]]]
<1> DEFINE t == FlattenSeq(ss)
<1>1. /\ n \in Nat /\ at \in [1..n -> Q]
      /\ \A i, j \in 1..n : i < j => at[i] < at[j]
      /\ \A q \in Q : \E i \in 1..n : at[i] = q
  BY AscendingExists
<1>0. \A i, j \in 1..n : at[i] = at[j] => i = j
  <2> HIDE DEF at, n
  <2> SUFFICES ASSUME NEW i \in 1..n, NEW j \in 1..n, at[i] = at[j], i # j PROVE FALSE
    OBVIOUS
  <2>1. i < j \/ j < i
    BY <1>1
  <2>2. at[i] \in Nat /\ at[j] \in Nat
    BY <1>1
  <2>3. at[i] < at[j] \/ at[j] < at[i]
    BY <1>1, <2>1
  <2> QED BY <2>2, <2>3
<1>2. ss \in [1..n -> Seq(S)] /\ \A i \in 1..n : ss[i] = g[at[i]]
  <2> HIDE DEF at, n
  <2> QED BY <1>1
<1>t. InTurn(Q, g) = t
  BY DEF InTurn
<1> HIDE DEF ss, at, n, t
<1>3. t \in Seq(S)
  BY <1>1, <1>2, FlattenFacts DEF t
<1>4. PICK off : Spread(ss, n, off)
  BY <1>1, <1>2, FlattenFacts
<1>5. /\ off \in [0..n -> Nat] /\ off[0] = 0
      /\ \A i \in 1..n : off[i] = off[i - 1] + Len(ss[i])
      /\ \A i, j \in 0..n : i <= j => off[i] <= off[j]
      /\ Len(t) = off[n]
      /\ \A i \in 1..n : \A j \in 1..Len(ss[i]) :
           off[i - 1] + j \in 1..off[n] /\ t[off[i - 1] + j] = ss[i][j]
      /\ \A k \in 1..off[n] : \E i \in 1..n : \E j \in 1..Len(ss[i]) : k = off[i - 1] + j
  BY <1>4 DEF Spread, t
<1>6. \A i \in 1..n : i - 1 \in 0..n /\ off[i - 1] \in Nat /\ Len(ss[i]) \in Nat /\ off[i] \in Nat
  <2> SUFFICES ASSUME NEW i \in 1..n
               PROVE  i - 1 \in 0..n /\ off[i - 1] \in Nat /\ Len(ss[i]) \in Nat /\ off[i] \in Nat
    OBVIOUS
  <2>1. i - 1 \in 0..n /\ i \in 0..n
    BY <1>1
  <2>2. ss[i] \in Seq(S)
    BY <1>2
  <2> QED BY <1>5, <2>1, <2>2, LenProperties
<1> DEFINE In(m, i) == off[i - 1] < m /\ m <= off[i]
<1>7. \A m \in 1..off[n] : \E i \in 1..n : In(m, i)
  <2> SUFFICES ASSUME NEW m \in 1..off[n] PROVE \E i \in 1..n : In(m, i)
    OBVIOUS
  <2>1. PICK i \in 1..n : \E j \in 1..Len(ss[i]) : m = off[i - 1] + j
    BY <1>5
  <2>2. PICK j \in 1..Len(ss[i]) : m = off[i - 1] + j
    BY <2>1
  <2>3. In(m, i)
    <3>1. off[i] = off[i - 1] + Len(ss[i])
      BY <1>5
    <3> QED BY <1>6, <2>2, <3>1, Beyond
  <2> QED BY <2>3
<1>8. \A m \in Nat, i, j \in 1..n : In(m, i) /\ In(m, j) => i = j
  <2> SUFFICES ASSUME NEW m \in Nat, NEW i \in 1..n, NEW j \in 1..n, In(m, i), In(m, j), i < j
               PROVE  FALSE
    BY <1>1
  <2>1. i <= j - 1 /\ i \in 0..n /\ j - 1 \in 0..n
    BY <1>1
  <2>2. off[i] <= off[j - 1]
    BY <1>5, <2>1
  <2> QED BY <1>6, <2>2
<1> DEFINE which(m) == CHOOSE i \in 1..n : In(m, i)
<1>9. \A m \in 1..off[n] : which(m) \in 1..n /\ In(m, which(m))
  <2> HIDE DEF In
  <2> QED BY <1>7
<1> HIDE DEF which
<1> DEFINE who == [m \in 1..Len(t) |-> at[which(m)]]
<1> DEFINE num == [m \in 1..Len(t) |-> m - off[which(m) - 1]]
<1>10. ASSUME NEW m \in 1..Len(t)
       PROVE  /\ which(m) \in 1..n /\ who[m] = at[which(m)] /\ who[m] \in Q
              /\ num[m] = m - off[which(m) - 1] /\ num[m] \in Nat \ {0} /\ num[m] \in 1..Len(ss[which(m)])
              /\ m = off[which(m) - 1] + num[m] /\ ss[which(m)] = g[who[m]]
  <2> DEFINE i == which(m)
  <2>0. i \in 1..n /\ off[i - 1] < m /\ m <= off[i] /\ m \in Nat
    BY <1>5, <1>9
  <2>1. who[m] = at[i] /\ num[m] = m - off[i - 1]
    OBVIOUS
  <2> HIDE DEF i, who, num
  <2>2. off[i - 1] \in Nat /\ Len(ss[i]) \in Nat /\ off[i] \in Nat /\ off[i] = off[i - 1] + Len(ss[i])
    BY <1>5, <1>6, <2>0
  <2>3. num[m] \in Nat \ {0} /\ num[m] \in 1..Len(ss[i]) /\ m = off[i - 1] + num[m]
    BY <2>0, <2>1, <2>2
  <2>4. at[i] \in Q /\ ss[i] = g[at[i]]
    BY <1>1, <1>2, <2>0
  <2> QED BY <2>0, <2>1, <2>3, <2>4 DEF i
<1>11. who \in [1..Len(t) -> Q] /\ num \in [1..Len(t) -> Nat \ {0}]
  <2>1. \A m \in 1..Len(t) : who[m] \in Q /\ num[m] \in Nat \ {0}
    BY <1>10
  <2>2. who = [m \in 1..Len(t) |-> who[m]] /\ num = [m \in 1..Len(t) |-> num[m]]
    OBVIOUS
  <2> HIDE DEF who, num
  <2> QED BY <2>1, <2>2
<1> HIDE DEF who, num
<1>12. \A m \in 1..Len(t) : num[m] \in 1..Len(g[who[m]]) /\ t[m] = g[who[m]][num[m]]
  <2> SUFFICES ASSUME NEW m \in 1..Len(t)
               PROVE  num[m] \in 1..Len(g[who[m]]) /\ t[m] = g[who[m]][num[m]]
    OBVIOUS
  <2> DEFINE i == which(m)
  <2>1. i \in 1..n /\ num[m] \in 1..Len(ss[i]) /\ m = off[i - 1] + num[m] /\ ss[i] = g[who[m]]
    BY <1>10
  <2> HIDE DEF i
  <2> QED BY <1>5, <2>1
<1>13. ASSUME NEW q \in Q, NEW j \in 1..Len(g[q])
       PROVE  \E m \in 1..Len(t) : who[m] = q /\ num[m] = j
  <2>1. PICK i \in 1..n : at[i] = q
    BY <1>1
  <2>2. ss[i] = g[q] /\ j \in 1..Len(ss[i])
    BY <1>2, <2>1
  <2> DEFINE m == off[i - 1] + j
  <2>3. m \in 1..off[n] /\ m \in 1..Len(t)
    BY <1>5, <2>2
  <2>4. In(m, i) /\ m \in Nat /\ m - off[i - 1] = j
    <3>1. off[i] = off[i - 1] + Len(ss[i])
      BY <1>5
    <3> QED BY <1>6, <2>2, <3>1, Beyond
  <2>5. which(m) = i
    <3>1. which(m) \in 1..n /\ In(m, which(m))
      BY <1>9, <2>3
    <3> HIDE DEF m, In
    <3> QED BY <1>8, <2>4, <3>1
  <2>6. who[m] = q /\ num[m] = m - off[i - 1]
    BY <1>10, <2>1, <2>3, <2>5
  <2> HIDE DEF m
  <2> QED BY <2>3, <2>4, <2>6
<1>14. ASSUME NEW m \in 1..Len(t), NEW l \in 1..Len(t), who[m] = who[l]
       PROVE  which(m) = which(l) /\ (num[m] < num[l] => m < l) /\ (num[m] = num[l] => m = l)
  <2>1. which(m) = which(l)
    <3>1. who[m] = at[which(m)] /\ who[l] = at[which(l)] /\ which(m) \in 1..n /\ which(l) \in 1..n
      BY <1>10
    <3> QED BY <1>0, <1>14, <3>1
  <2> DEFINE o == off[which(m) - 1]
  <2>2. /\ m = o + num[m] /\ l = o + num[l] /\ num[m] \in Nat /\ num[l] \in Nat
        /\ which(m) \in 1..n
    BY <1>10, <2>1
  <2>3. o \in Nat
    BY <1>6, <2>2
  <2> HIDE DEF o
  <2> QED BY <2>1, <2>2, <2>3
<1>15. Threaded(t, Q, g, who, num)
  BY <1>11, <1>12, <1>13, <1>14 DEF Threaded
<1> QED BY <1>3, <1>15, <1>t, LenProperties
-----------------------------------------------------------------------------
(* Lists that have nothing twice.                                           *)

\* A list that has nothing twice.
Distinct(s) == \A i, j \in DOMAIN s : s[i] = s[j] => i = j

\* What every list is.

LEMMA ListFacts ==
  ASSUME NEW S, NEW s \in Seq(S)
  PROVE  /\ Len(s) \in Nat /\ DOMAIN s = 1 .. Len(s) /\ s \in [1 .. Len(s) -> S]
         /\ ToSet(s) \subseteq S
         /\ (s = <<>> <=> Len(s) = 0) /\ (s = <<>> <=> ToSet(s) = {})
<1>1. Len(s) \in Nat /\ DOMAIN s = 1 .. Len(s) /\ s \in [1 .. Len(s) -> S]
  BY LenProperties
<1>2. s = <<>> <=> Len(s) = 0
  BY EmptySeq
<1>3. s # <<>> => s[1] \in ToSet(s)
  BY <1>1, <1>2 DEF ToSet
<1>4. s = <<>> => ToSet(s) = {}
  BY <1>1, <1>2 DEF ToSet
<1> QED BY <1>1, <1>2, <1>3, <1>4 DEF ToSet

\* A list is one of whatever it has.
LEMMA ListIn ==
  ASSUME NEW S, NEW T, NEW s \in Seq(S), ToSet(s) \subseteq T PROVE s \in Seq(T)
<1>1. Len(s) \in Nat /\ s \in [1 .. Len(s) -> S]
  BY ListFacts
<1>2. s \in [1 .. Len(s) -> T]
  <2>1. \A i \in 1 .. Len(s) : s[i] \in T
    BY <1>1 DEF ToSet
  <2> QED BY <1>1, <2>1
<1> QED BY <1>1, <1>2, ListOf

\* Lists of one thing and of two.
LEMMA OneThing ==
  ASSUME NEW S, NEW a \in S
  PROVE  /\ <<a>> \in Seq(S) /\ <<a>> # <<>> /\ Distinct(<<a>>) /\ ToSet(<<a>>) = {a}
         /\ <<a>> \in [1 .. 1 -> S]
BY DEF Distinct, ToSet


LEMMA TwoThings ==
  ASSUME NEW S, NEW a \in S, NEW b \in S, a # b
  PROVE  /\ <<a, b>> \in Seq(S) /\ <<a, b>> # <<>> /\ Distinct(<<a, b>>)
         /\ ToSet(<<a, b>>) = {a, b} /\ <<a, b>> \in [1 .. 2 -> S]
         /\ <<a, b>>[1] = a /\ <<a, b>>[2] = b
BY DEF Distinct, ToSet

\* Where each thing that was selected comes from.
Origins(t, list, P, from) ==
  /\ from \in [1 .. Len(t) -> P \cap (1 .. Len(list))]
  /\ \A k \in 1 .. Len(t) : t[k] = list[from[k]]
  /\ \A k, l \in 1 .. Len(t) : from[k] = from[l] => k = l
  /\ \A i \in P \cap (1 .. Len(list)) : \E k \in 1 .. Len(t) : from[k] = i

LEMMA SelectedFrom ==
  ASSUME NEW S, NEW list \in Seq(S), NEW P
  PROVE  \E from : Origins(Selected(list, P), list, P, from)
<1> DEFINE t == Selected(list, P)
<1> DEFINE I == P \cap (1 .. Len(list))
<1>1. PICK off : Places(t, list, P, off)
  BY SelectedPlaces
<1> HIDE DEF t
<1>2. /\ \A i \in I : off[i] \in 1 .. Len(t) /\ t[off[i]] = list[i]
      /\ \A i \in I : off[i] = off[i - 1] + 1
      /\ \A k \in 1 .. Len(t) : \E i \in I : k = off[i]
  BY <1>1 DEF Places
<1>3. \A i, j \in I : off[i] = off[j] => i = j
  <2>0. Len(list) \in Nat
    BY LenProperties
  <2>1. off \in [0 .. Len(list) -> Nat]
    BY <1>1 DEF Places
  <2>2. \A i \in 1 .. Len(list) : off[i] \in {off[i - 1], off[i - 1] + 1}
    BY <1>1 DEF Places
  <2>3. \A j \in 0 .. Len(list) : \A i \in 0 .. Len(list) : i <= j => off[i] <= off[j]
    <3> DEFINE E == {j \in 0 .. Len(list) :
                       \A i \in 0 .. Len(list) : i <= j => off[i] <= off[j]}
    <3>1. 0 \in E
      <4>1. \A i \in 0 .. Len(list) : i <= 0 => i = 0
        BY <2>0
      <4>2. off[0] \in Nat
        BY <2>0, <2>1
      <4> QED BY <2>0, <4>1, <4>2
    <3>2. ASSUME NEW j \in 0 .. Len(list), j \in E, j < Len(list) PROVE j + 1 \in E
      <4>1. j + 1 \in 1 .. Len(list) /\ (j + 1) - 1 = j /\ j + 1 \in 0 .. Len(list)
        BY <2>0, <3>2
      <4>2. off[j] \in Nat /\ off[j + 1] \in Nat /\ off[j] <= off[j + 1]
        BY <2>1, <2>2, <4>1
      <4>3. ASSUME NEW i \in 0 .. Len(list), i <= j + 1 PROVE off[i] <= off[j + 1]
        <5>1. CASE i = j + 1
          BY <4>2, <5>1
        <5>2. CASE i # j + 1
          <6>1. i <= j
            BY <2>0, <4>3, <5>2
          <6>2. off[i] <= off[j] /\ off[i] \in Nat
            BY <2>1, <3>2, <6>1
          <6> QED BY <4>2, <6>2
        <5> QED BY <5>1, <5>2
      <4> QED BY <4>1, <4>3
    <3>3. 0 .. Len(list) \subseteq E
      <4> HIDE DEF E
      <4> QED BY <2>0, <3>1, <3>2, UpTo
    <3> QED BY <3>3
  <2>4. \A i, j \in I : i < j => off[i] < off[j]
    <3> SUFFICES ASSUME NEW i \in I, NEW j \in I, i < j PROVE off[i] < off[j]
      OBVIOUS
    <3>1. i \in 0 .. Len(list) /\ j - 1 \in 0 .. Len(list) /\ i <= j - 1 /\ j \in 0 .. Len(list)
      BY <2>0
    <3>2. off[i] <= off[j - 1] /\ off[i] \in Nat /\ off[j - 1] \in Nat
      BY <2>1, <2>3, <3>1
    <3>3. off[j] = off[j - 1] + 1
      BY <1>2
    <3> QED BY <3>2, <3>3
  <2>5. \A i, j \in I : i = j \/ i < j \/ j < i
    BY <2>0
  <2>6. \A i \in I : off[i] \in Nat
    BY <2>0, <2>1
  <2> QED BY <2>4, <2>5, <2>6
<1> DEFINE from == [k \in 1 .. Len(t) |-> CHOOSE i \in I : k = off[i]]
<1>4. \A k \in 1 .. Len(t) : from[k] \in I /\ off[from[k]] = k
  BY <1>2
<1>5. from \in [1 .. Len(t) -> I]
  BY <1>4
<1> HIDE DEF from
<1>6. \A k \in 1 .. Len(t) : t[k] = list[from[k]]
  BY <1>2, <1>4
<1>7. \A k, l \in 1 .. Len(t) : from[k] = from[l] => k = l
  BY <1>4
<1>8. \A i \in I : \E k \in 1 .. Len(t) : from[k] = i
  <2> SUFFICES ASSUME NEW i \in I PROVE from[off[i]] = i /\ off[i] \in 1 .. Len(t)
    OBVIOUS
  <2>1. off[i] \in 1 .. Len(t)
    BY <1>2
  <2>2. from[off[i]] \in I /\ off[from[off[i]]] = off[i]
    BY <1>4, <2>1
  <2> HIDE DEF I
  <2> QED BY <1>3, <2>1, <2>2
<1>9. Origins(t, list, P, from)
  BY <1>5, <1>6, <1>7, <1>8 DEF Origins
<1> QED BY <1>9 DEF t

\* Lists that have nothing twice and nothing in common make one that has
\* nothing twice.
LEMMA FlattenDistinct ==
  ASSUME NEW S, NEW n \in Nat, NEW ss \in [1 .. n -> Seq(S)],
         \A i \in 1 .. n : Distinct(ss[i]),
         \A i, j \in 1 .. n : i # j => ToSet(ss[i]) \cap ToSet(ss[j]) = {}
  PROVE  /\ FlattenSeq(ss) \in Seq(S) /\ Distinct(FlattenSeq(ss))
         /\ ToSet(FlattenSeq(ss)) = UNION {ToSet(ss[i]) : i \in 1 .. n}
<1> DEFINE t == FlattenSeq(ss)
<1>1. t \in Seq(S) /\ \E off : Spread(ss, n, off)
  BY FlattenFacts
<1>2. PICK off : Spread(ss, n, off)
  BY <1>1
<1>3. Len(t) = off[n] /\ DOMAIN t = 1 .. off[n]
  BY <1>1, <1>2, LenProperties DEF Spread
<1>4. \A i \in 1 .. n : DOMAIN ss[i] = 1 .. Len(ss[i])
  BY LenProperties
<1>5. /\ \A i \in 1 .. n : \A j \in 1 .. Len(ss[i]) :
           off[i - 1] + j \in 1 .. off[n] /\ t[off[i - 1] + j] = ss[i][j]
      /\ \A k \in 1 .. off[n] : \E i \in 1 .. n : \E j \in 1 .. Len(ss[i]) : k = off[i - 1] + j
  BY <1>2 DEF Spread
<1> HIDE DEF t
<1>6. \A i \in 1 .. n : \A j \in 1 .. Len(ss[i]) : ss[i][j] \in ToSet(ss[i])
  BY <1>4 DEF ToSet
<1>7. Distinct(t)
  <2> SUFFICES ASSUME NEW k \in 1 .. off[n], NEW l \in 1 .. off[n], t[k] = t[l] PROVE k = l
    BY <1>3 DEF Distinct
  <2>1. PICK i \in 1 .. n : \E x \in 1 .. Len(ss[i]) : k = off[i - 1] + x
    BY <1>5
  <2>2. PICK x \in 1 .. Len(ss[i]) : k = off[i - 1] + x
    BY <2>1
  <2>3. PICK j \in 1 .. n : \E y \in 1 .. Len(ss[j]) : l = off[j - 1] + y
    BY <1>5
  <2>4. PICK y \in 1 .. Len(ss[j]) : l = off[j - 1] + y
    BY <2>3
  <2>5. ss[i][x] = ss[j][y]
    BY <1>5, <2>2, <2>4
  <2>6. i = j
    BY <1>6, <2>5
  <2>7. x = y
    BY <1>4, <2>5, <2>6 DEF Distinct
  <2> QED BY <2>2, <2>4, <2>6, <2>7
<1>8. ToSet(t) = UNION {ToSet(ss[i]) : i \in 1 .. n}
  <2>1. ASSUME NEW q \in ToSet(t) PROVE \E i \in 1 .. n : q \in ToSet(ss[i])
    <3>1. PICK k \in 1 .. off[n] : q = t[k]
      BY <1>3 DEF ToSet
    <3>2. PICK i \in 1 .. n : \E x \in 1 .. Len(ss[i]) : k = off[i - 1] + x
      BY <1>5
    <3>3. PICK x \in 1 .. Len(ss[i]) : k = off[i - 1] + x
      BY <3>2
    <3>4. q = ss[i][x]
      BY <1>5, <3>1, <3>3
    <3> QED BY <1>6, <3>4
  <2>2. ASSUME NEW i \in 1 .. n, NEW q \in ToSet(ss[i]) PROVE q \in ToSet(t)
    <3>1. PICK x \in 1 .. Len(ss[i]) : q = ss[i][x]
      BY <1>4 DEF ToSet
    <3> QED BY <1>3, <1>5, <3>1 DEF ToSet
  <2> QED BY <2>1, <2>2
<1> QED BY <1>1, <1>7, <1>8 DEF t

\* A list that has nothing twice is as long as what it has.
LEMMA DistinctCounts ==
  ASSUME NEW S, NEW list \in Seq(S), Distinct(list)
  PROVE  Cardinality(ToSet(list)) = Len(list)
<1>1. DOMAIN list = 1 .. Len(list)
  BY LenProperties
<1>2. Selected(list, 1 .. Len(list)) = list
  BY SelectedAll
<1>3. Cardinality(ToSet(Selected(list, 1 .. Len(list)))) = Len(Selected(list, 1 .. Len(list)))
  BY <1>1, SelectedOrder DEF Distinct
<1> QED BY <1>2, <1>3
=============================================================================
