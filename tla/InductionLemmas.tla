-------------------------- MODULE InductionLemmas --------------------------
(***************************************************************************)
(* Induction over numbers, with sets in the place of predicates, and the   *)
(* functions that a recursion defines: that they exist, and so satisfy     *)
(* their equation, is what a proof about a recursive function starts with. *)
(***************************************************************************)
EXTENDS Naturals, WellFoundedInduction, TLAPS

\* Induction up to n, with a set in the place of a predicate.
LEMMA Induct ==
  ASSUME NEW n \in Nat, NEW T, 0 \in T, \A k \in 0..n - 1 : k \in T => k + 1 \in T
  PROVE  \A k \in 0..n : k \in T
<1> DEFINE Out == {k \in 0..n : k \notin T}
<1> SUFFICES ASSUME Out # {} PROVE FALSE
  OBVIOUS
<1>1. PICK x \in Out : \A y \in Out : ~(<<y, x>> \in OpToRel(<, Nat))
  <2>1. Out \subseteq Nat
    OBVIOUS
  <2> HIDE DEF Out
  <2> QED BY <2>1, WFMin, NatLessThanWellFounded
<1>2. x \in 0..n /\ x # 0 /\ x - 1 \in 0..n - 1
  OBVIOUS
<1>3. <<x - 1, x>> \in OpToRel(<, Nat)
  BY <1>2 DEF OpToRel
<1>4. x - 1 \in T
  <2>1. x - 1 \in 0..n
    BY <1>2
  <2>2. x - 1 \notin Out
    BY <1>1, <1>3
  <2> QED BY <2>1, <2>2
<1> QED BY <1>2, <1>4

\* A set of numbers that is not empty has a least element.
LEMMA LeastOf ==
  ASSUME NEW T, T \subseteq Nat, T # {}
  PROVE  /\ (CHOOSE n \in T : \A m \in T : n <= m) \in T
         /\ \A m \in T : (CHOOSE n \in T : \A k \in T : n <= k) <= m
<1>1. PICK x \in T : \A y \in T : ~(<<y, x>> \in OpToRel(<, Nat))
  BY WFMin, NatLessThanWellFounded
<1>2. \A y \in T : x <= y
  <2> TAKE y \in T
  <2>1. <<y, x>> \notin OpToRel(<, Nat)
    BY <1>1
  <2>2. ~(y < x)
    BY <2>1 DEF OpToRel
  <2> QED BY <2>2
<1> QED BY <1>1, <1>2

\* A recursion over 0..n that stays in V has a solution.
Solves(f, n, V, b, F) ==
  /\ f \in [0..n -> V] /\ f[0] = b
  /\ \A k \in 1..n : f[k] = F[k][f[k - 1]]

LEMMA Recursion ==
  ASSUME NEW n \in Nat, NEW V, NEW b \in V, NEW F \in [1..n -> [V -> V]]
  PROVE  \E f : Solves(f, n, V, b, F)
<1> DEFINE T == {m \in 0..n : \E f : Solves(f, m, V, b, F)}
<1>1. 0 \in T
  <2> DEFINE f == [k \in 0..0 |-> b]
  <2>1. f \in [0..0 -> V] /\ f[0] = b /\ 1..0 = {}
    OBVIOUS
  <2> HIDE DEF f
  <2>2. Solves(f, 0, V, b, F)
    BY <2>1 DEF Solves
  <2> QED BY <2>2
<1>2. ASSUME NEW m \in 0..n - 1, m \in T PROVE m + 1 \in T
  <2>1. PICK f : Solves(f, m, V, b, F)
    BY <1>2
  <2> DEFINE g == [k \in 0..m + 1 |-> IF k <= m THEN f[k] ELSE F[m + 1][f[m]]]
  <2>a. f \in [0..m -> V] /\ f[0] = b /\ \A k \in 1..m : f[k] = F[k][f[k - 1]]
    BY <2>1 DEF Solves
  <2>2. F[m + 1][f[m]] \in V
    BY <2>a
  <2>3. g \in [0..m + 1 -> V]
    BY <2>2, <2>a
  <2>4. g[0] = b
    BY <2>a
  <2>5. ASSUME NEW k \in 1..m + 1 PROVE g[k] = F[k][g[k - 1]]
    <3>1. g[k - 1] = f[k - 1]
      OBVIOUS
    <3>2. CASE k <= m
      BY <2>a, <3>1, <3>2
    <3>3. CASE k = m + 1
      <4>1. g[k] = F[m + 1][f[m]]
        BY <3>3
      <4>2. k - 1 = m
        BY <3>3
      <4> QED BY <3>1, <3>3, <4>1, <4>2
    <3> QED BY <3>2, <3>3
  <2> HIDE DEF g
  <2>6. Solves(g, m + 1, V, b, F)
    BY <2>3, <2>4, <2>5 DEF Solves
  <2> QED BY <2>6
<1>3. n \in T
  <2> HIDE DEF T
  <2>1. \A m \in 0..n : m \in T
    BY <1>1, <1>2, Induct
  <2> QED BY <2>1
<1> QED BY <1>3

\* A recursion over a set of trees: what Step makes of a tree depends only on
\* the trees below it, which are lower.  There is a function it does not change.
Graded(D, n, height, below) ==
  /\ n \in Nat /\ height \in [D -> 0..n] /\ below \in [D -> SUBSET D]
  /\ \A d \in D : \A c \in below[d] : height[c] < height[d]

LooksBelow(Step, D, V, below) ==
  /\ Step \in [[D -> V] -> [D -> V]]
  /\ \A f, g \in [D -> V], d \in D : (\A c \in below[d] : f[c] = g[c]) => Step[f][d] = Step[g][d]

LEMMA TreeRecursion ==
  ASSUME NEW D, NEW n, NEW height, NEW below, Graded(D, n, height, below),
         NEW V, V # {}, NEW Step, LooksBelow(Step, D, V, below)
  PROVE  \E f \in [D -> V] : f = Step[f]
<1> n \in Nat /\ height \in [D -> 0..n] /\ below \in [D -> SUBSET D]
  BY DEF Graded
<1> \A d \in D : \A c \in below[d] : height[c] < height[d]
  BY DEF Graded
<1> Step \in [[D -> V] -> [D -> V]]
  BY DEF LooksBelow
<1>0. \A f, g \in [D -> V], d \in D : (\A c \in below[d] : f[c] = g[c]) => Step[f][d] = Step[g][d]
  BY DEF LooksBelow
<1> PICK v \in V : TRUE
  OBVIOUS
<1> DEFINE Ok(f, h) == \A d \in D : height[d] < h => f[d] = Step[f][d]
           T == {h \in 0..n + 1 : \E f \in [D -> V] : Ok(f, h)}
<1>1. 0 \in T
  <2> DEFINE f == [d \in D |-> v]
  <2>1. f \in [D -> V]
    OBVIOUS
  <2>2. Ok(f, 0)
    OBVIOUS
  <2> HIDE DEF f, Ok
  <2> QED BY <2>1, <2>2
<1>2. ASSUME NEW h \in 0..n, h \in T PROVE h + 1 \in T
  <2>1. PICK f \in [D -> V] : Ok(f, h)
    BY <1>2
  <2>2. PICK g \in [D -> V] : g = Step[f]
    OBVIOUS
  <2>3. ASSUME NEW d \in D, height[d] < h + 1 PROVE g[d] = Step[g][d]
    <3>1. ASSUME NEW c \in below[d] PROVE g[c] = f[c]
      <4>1. c \in D /\ height[c] < height[d] /\ height[c] \in 0..n /\ height[d] \in 0..n
        OBVIOUS
      <4>2. height[c] < h
        BY <2>3, <4>1
      <4> QED BY <2>1, <2>2, <4>1, <4>2
    <3>2. Step[g][d] = Step[f][d]
      BY <1>0, <3>1
    <3> QED BY <2>2, <3>2
  <2>4. Ok(g, h + 1) /\ h + 1 \in 0..n + 1
    BY <2>3
  <2> HIDE DEF Ok
  <2> QED BY <2>4
<1>3. \A h \in 0..n + 1 : h \in T
  <2> HIDE DEF T
  <2>1. PICK p \in Nat : p = n + 1
    OBVIOUS
  <2>2. ASSUME NEW h \in 0..p - 1, h \in T PROVE h + 1 \in T
    <3>1. h \in 0..n
      BY <2>1
    <3> QED BY <1>2, <2>2, <3>1
  <2>3. \A h \in 0..p : h \in T
    BY <1>1, <2>2, Induct
  <2> QED BY <2>1, <2>3
<1>4. n + 1 \in T
  <2> HIDE DEF T
  <2> QED BY <1>3
<1>5. PICK f \in [D -> V] : Ok(f, n + 1)
  BY <1>4
<1>6. \A d \in D : height[d] < n + 1
  <2> TAKE d \in D
  <2>1. height[d] \in 0..n
    OBVIOUS
  <2> QED BY <2>1
<1>7. \A d \in D : f[d] = Step[f][d]
  BY <1>5, <1>6
<1> QED BY <1>7

\* Induction over such a set.
LEMMA TreeInduction ==
  ASSUME NEW D, NEW n, NEW height, NEW below, Graded(D, n, height, below),
         NEW S, \A d \in D : below[d] \subseteq S => d \in S
  PROVE  D \subseteq S
<1> n \in Nat /\ height \in [D -> 0..n] /\ below \in [D -> SUBSET D]
  BY DEF Graded
<1>1. \A d \in D : \A c \in below[d] : c \in D /\ height[c] < height[d]
  BY DEF Graded
<1> DEFINE T == {h \in 0..n : \A d \in D : height[d] < h + 1 => d \in S}
<1>2. ASSUME NEW h \in 0..n, \A d \in D : height[d] < h => d \in S PROVE h \in T
  <2> SUFFICES ASSUME NEW d \in D, height[d] < h + 1 PROVE d \in S
    OBVIOUS
  <2>1. ASSUME NEW c \in below[d] PROVE c \in S
    <3>1. c \in D /\ height[c] < height[d] /\ height[c] \in 0..n /\ height[d] \in 0..n
      BY <1>1
    <3> QED BY <1>2, <3>1
  <2> QED BY <2>1
<1>3. 0 \in T
  <2>1. \A d \in D : ~(height[d] < 0)
    OBVIOUS
  <2> HIDE DEF T
  <2> QED BY <1>2, <2>1
<1>4. \A h \in 0..n - 1 : h \in T => h + 1 \in T
  <2> TAKE h \in 0..n - 1
  <2> HAVE h \in T
  <2>1. \A d \in D : height[d] < h + 1 => d \in S
    OBVIOUS
  <2>2. h + 1 \in 0..n
    OBVIOUS
  <2> HIDE DEF T
  <2> QED BY <1>2, <2>1, <2>2
<1>5. n \in T
  <2> HIDE DEF T
  <2>1. \A h \in 0..n : h \in T
    BY <1>3, <1>4, Induct
  <2> QED BY <2>1
<1>6. \A d \in D : height[d] < n + 1
  <2> TAKE d \in D
  <2>1. height[d] \in 0..n
    OBVIOUS
  <2> QED BY <2>1
<1> QED BY <1>5, <1>6
=============================================================================
