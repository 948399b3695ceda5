--------------------------- MODULE RecursionLemmas ---------------------------
(***************************************************************************)
(* Induction over the natural numbers, stated for sets, and the existence  *)
(* of what is defined by recursion, stated for functions: no lemma takes   *)
(* an operator, so every one can be cited where loops are modelled by      *)
(* recursive functions.                                                    *)
(***************************************************************************)
EXTENDS Integers, Sequences, FiniteSetTheorems, SequenceTheorems, TLAPS

\* A set of natural numbers has a least one.
LEMMA LeastOf ==
  ASSUME NEW T \in SUBSET Nat, T # {}
  PROVE  \E m \in T : \A n \in T : m <= n
<1> DEFINE Less == {ss \in Nat \X Nat : ss[1] < ss[2]}
<1>1. OpToRel(<, Nat) = Less
  BY Zenon DEF OpToRel
<1>2. IsWellFoundedOn(Less, Nat)
  BY Zenon, <1>1, NatLessThanWellFounded
<1>3. \E m \in T : \A n \in T : ~(<<n, m>> \in Less)
  <2> HIDE DEF Less
  <2> QED BY <1>2, WFMin
<1>4. PICK m \in T : \A n \in T : ~(<<n, m>> \in Less)
  BY <1>3
<1>5. ASSUME NEW n \in T PROVE m <= n
  <2>1. ~(<<n, m>> \in Less) /\ <<n, m>> \in Nat \X Nat
    <3> HIDE DEF Less
    <3> QED BY <1>4
  <2>2. <<n, m>>[1] = n /\ <<n, m>>[2] = m
    OBVIOUS
  <2> QED BY <2>1, <2>2
<1> QED BY <1>5

\* Induction over all natural numbers.
LEMMA Induction ==
  ASSUME NEW T \in SUBSET Nat, 0 \in T, \A n \in T : n + 1 \in T
  PROVE  T = Nat
<1> SUFFICES ASSUME Nat \ T # {} PROVE FALSE
  OBVIOUS
<1>1. PICK m \in Nat \ T : \A n \in Nat \ T : m <= n
  BY LeastOf
<1>2. m - 1 \in Nat /\ m - 1 \in T
  BY <1>1
<1> QED BY <1>1, <1>2

\* Induction up to m: T holds the numbers for which something is shown.
LEMMA InductionTo ==
  ASSUME NEW m \in Nat, NEW T, 0 \in T, \A n \in 0..m - 1 : n \in T => n + 1 \in T
  PROVE  \A n \in 0..m : n \in T
<1> DEFINE U == {n \in Nat : n <= m => n \in T}
<1>1. \A n \in U : n + 1 \in U
  OBVIOUS
<1>2. 0 \in U /\ U \in SUBSET Nat
  OBVIOUS
<1>3. U = Nat
  <2> HIDE DEF U
  <2> QED BY <1>1, <1>2, Induction
<1> QED BY <1>3

-----------------------------------------------------------------------------
(* Recursion: f runs from base, and step leads from f[k - 1] to f[k].       *)

Runs(f, S, base, step, n) ==
  /\ f \in [0..n -> S] /\ f[0] = base
  /\ \A k \in 1..n : f[k] = step[<<k, f[k - 1]>>]

\* The same of a function whose values need not be known to be in S.
Follows(f, S, base, step, n) ==
  /\ f[0] = base
  /\ \A k \in 1..n : f[k - 1] \in S => f[k] = step[<<k, f[k - 1]>>]

RunsOn(f, S, base, step) ==
  /\ f \in [Nat -> S] /\ f[0] = base
  /\ \A k \in Nat \ {0} : f[k] = step[<<k, f[k - 1]>>]

\* What is defined up to m by recursion exists.
LEMMA Recursion ==
  ASSUME NEW S, NEW base \in S, NEW step \in [Nat \X S -> S], NEW m \in Nat
  PROVE  \E f : Runs(f, S, base, step, m)
<1> DEFINE T == {n \in Nat : \E f : Runs(f, S, base, step, n)}
<1>1. 0 \in T
  <2>1. Runs([n \in 0..0 |-> base], S, base, step, 0)
    BY DEF Runs
  <2> QED BY <2>1
<1>2. ASSUME NEW n \in T PROVE n + 1 \in T
  <2>1. PICK f : Runs(f, S, base, step, n)
    OBVIOUS
  <2> DEFINE g == [k \in 0..n + 1 |-> IF k = n + 1 THEN step[<<n + 1, f[n]>>] ELSE f[k]]
  <2>2. n \in Nat /\ f[n] \in S /\ \A k \in 0..n : f[k] \in S /\ k # n + 1
    BY <2>1 DEF Runs
  <2>3. g \in [0..n + 1 -> S] /\ g[0] = base
    BY <2>1, <2>2 DEF Runs
  <2>4. g[n + 1] = step[<<n + 1, f[n]>>] /\ \A k \in 0..n : g[k] = f[k]
    BY <2>2
  <2>5. ASSUME NEW k \in 1..n + 1 PROVE g[k] = step[<<k, g[k - 1]>>]
    <3> HIDE DEF g
    <3>1. CASE k = n + 1
      BY <2>2, <2>4, <3>1
    <3>2. CASE k # n + 1
      <4>1. k \in 1..n /\ k \in 0..n /\ k - 1 \in 0..n
        BY <2>2, <3>2
      <4>2. f[k] = step[<<k, f[k - 1]>>]
        BY <2>1, <4>1 DEF Runs
      <4> QED BY <2>4, <4>1, <4>2
    <3> QED BY <3>1, <3>2
  <2> HIDE DEF g
  <2>6. Runs(g, S, base, step, n + 1)
    BY <2>3, <2>5 DEF Runs
  <2> QED BY <2>2, <2>6
<1>3. T = Nat
  <2> HIDE DEF T
  <2>1. T \subseteq Nat
    BY DEF T
  <2> QED BY <2>1, <1>1, <1>2, Induction
<1> QED BY <1>3

\* And it is the only one.
LEMMA RunsOnce ==
  ASSUME NEW S, NEW base, NEW step, NEW m \in Nat, NEW f, NEW g,
         Runs(f, S, base, step, m), Follows(g, S, base, step, m)
  PROVE  \A k \in 0..m : g[k] = f[k] /\ g[k] \in S
<1> DEFINE T == {k \in 0..m : g[k] = f[k]}
<1>1. 0 \in T
  BY DEF Runs, Follows
<1>2. ASSUME NEW k \in 0..m - 1, k \in T PROVE k + 1 \in T
  <2>1. k + 1 \in 1..m /\ (k + 1) - 1 = k /\ k \in 0..m /\ k + 1 \in 0..m
    OBVIOUS
  <2>2. f[k] \in S /\ f[k + 1] = step[<<k + 1, f[k]>>]
    BY <2>1 DEF Runs
  <2>3. g[k] = f[k]
    BY <1>2
  <2>4. g[k + 1] = step[<<k + 1, g[k]>>]
    BY <2>1, <2>2, <2>3 DEF Follows
  <2> QED BY <2>1, <2>2, <2>3, <2>4
<1>3. \A k \in 0..m : k \in T
  <2> HIDE DEF T
  <2> QED BY <1>1, <1>2, InductionTo
<1> QED BY <1>3 DEF Runs

\* A recursion over all natural numbers.
LEMMA NatRecursion ==
  ASSUME NEW S, NEW base \in S, NEW step \in [Nat \X S -> S]
  PROVE  \E f : RunsOn(f, S, base, step)
<1> DEFINE F == [n \in Nat |-> CHOOSE f : Runs(f, S, base, step, n)]
           g == [n \in Nat |-> F[n][n]]
<1>1. ASSUME NEW n \in Nat PROVE Runs(F[n], S, base, step, n)
  <2>1. \E f : Runs(f, S, base, step, n)
    BY Recursion
  <2> QED BY <2>1
<1> HIDE DEF F
<1>2. ASSUME NEW n \in Nat
      PROVE  /\ F[n] \in [0..n -> S] /\ F[n][0] = base
             /\ \A k \in 1..n : F[n][k] = step[<<k, F[n][k - 1]>>]
  BY <1>1 DEF Runs
<1>3. ASSUME NEW n \in Nat
      PROVE  \A k \in 0..n : F[n + 1][k] = F[n][k]
  <2> DEFINE T == {k \in 0..n : F[n + 1][k] = F[n][k]}
  <2>1. 0 \in T
    BY <1>2
  <2>2. ASSUME NEW k \in 0..n - 1, k \in T PROVE k + 1 \in T
    <3>1. F[n + 1][k + 1] = step[<<k + 1, F[n + 1][k]>>]
      <4>1. k + 1 \in 1..n + 1 /\ (k + 1) - 1 = k
        OBVIOUS
      <4> QED BY <4>1, <1>2
    <3>2. F[n][k + 1] = step[<<k + 1, F[n][k]>>]
      <4>1. k + 1 \in 1..n /\ (k + 1) - 1 = k
        OBVIOUS
      <4> QED BY <4>1, <1>2
    <3> QED BY <2>2, <3>1, <3>2
  <2>3. \A k \in 0..n : k \in T
    <3> HIDE DEF T
    <3> QED BY <2>1, <2>2, InductionTo
  <2> QED BY <2>3
<1>4. g \in [Nat -> S] /\ g[0] = base
  BY <1>2
<1>5. ASSUME NEW k \in Nat, k # 0 PROVE g[k] = step[<<k, g[k - 1]>>]
  <2>1. k - 1 \in Nat /\ (k - 1) + 1 = k /\ k \in 1..k /\ k - 1 \in 0..k - 1
    BY <1>5
  <2>2. g[k] = F[k][k] /\ g[k - 1] = F[k - 1][k - 1]
    BY <2>1
  <2>3. F[k][k] = step[<<k, F[k][k - 1]>>]
    BY <1>2, <2>1
  <2>4. F[k][k - 1] = F[k - 1][k - 1]
    BY <1>3, <2>1
  <2> HIDE DEF g
  <2> QED BY <2>2, <2>3, <2>4
<1>6. RunsOn(g, S, base, step)
  <2> HIDE DEF g
  <2> QED BY <1>4, <1>5 DEF RunsOn
<1> QED BY <1>6

=============================================================================
