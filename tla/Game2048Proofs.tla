------------------------- MODULE Game2048Proofs -------------------------
(***************************************************************************)
(* Theorems about Game2048, for boards of every size, lines of every       *)
(* length and any file of scores.  The loops of a move are recursive       *)
(* functions; RecursionLemmas unrolls them.                                *)
(***************************************************************************)
EXTENDS Game2048, RecursionLemmas, TLAPS

-----------------------------------------------------------------------------
(* The recursive definitions, unrolled.                                    *)

\* Power[k] is 2^k, by its recursion.
LEMMA PowerValues ==
  /\ Power \in [Nat -> Nat \ {0}] /\ Power[0] = 1
  /\ \A k \in Nat : Power[k + 1] = 2 * Power[k]
<1> DEFINE step == [p \in Nat \X (Nat \ {0}) |-> 2 * p[2]]
<1>1. PICK f : RunsOn(f, Nat \ {0}, 1, step)
  <2>1. step \in [Nat \X (Nat \ {0}) -> Nat \ {0}]
    OBVIOUS
  <2> HIDE DEF step
  <2> QED BY <2>1, NatRecursion
<1>2. \A k \in Nat \ {0} : f[k] = 2 * f[k - 1]
  <2> TAKE k \in Nat \ {0}
  <2>1. f[k] = step[<<k, f[k - 1]>>] /\ f[k - 1] \in Nat \ {0} /\ <<k, f[k - 1]>> \in Nat \X (Nat \ {0})
    BY <1>1 DEF RunsOn
  <2> QED BY <2>1
<1>3. f = [k \in Nat |-> IF k = 0 THEN 1 ELSE 2 * f[k - 1]]
  BY <1>1, <1>2 DEF RunsOn
<1>4. Power = [k \in Nat |-> IF k = 0 THEN 1 ELSE 2 * Power[k - 1]]
  BY <1>3 DEF Power
<1>5. Power[0] = 1 /\ \A k \in Nat : Power[k + 1] = 2 * Power[k]
  BY <1>4
<1> DEFINE T == {k \in Nat : Power[k] \in Nat \ {0}}
<1>6. T = Nat
  <2>1. 0 \in T /\ \A k \in T : k + 1 \in T
    BY <1>5
  <2>2. T \subseteq Nat
    OBVIOUS
  <2> HIDE DEF T
  <2> QED BY <2>1, <2>2, Induction
<1>7. \A k \in Nat : Power[k] \in Nat \ {0}
  BY <1>6
<1>8. Power = [k \in Nat |-> Power[k]]
  BY <1>4
<1> QED BY <1>5, <1>7, <1>8

\* What SumTo adds up, one number at a time.
LEMMA SumToValues ==
  ASSUME NEW f, NEW n \in Nat, \A k \in 1..n : f[k] \in Int
  PROVE  /\ SumTo(f, 0) = 0
         /\ \A k \in 0..n : SumTo(f, k) \in Int
         /\ \A k \in 1..n : SumTo(f, k) = SumTo(f, k - 1) + f[k]
<1> DEFINE step == [p \in Nat \X Int |-> IF p[1] \in 1..n THEN p[2] + f[p[1]] ELSE 0]
           upTo(k) == CHOOSE u : u = [i \in 0..k |-> IF i = 0 THEN 0 ELSE u[i - 1] + f[i]]
<1>1. PICK g : Runs(g, Int, 0, step, n)
  <2>1. step \in [Nat \X Int -> Int]
    OBVIOUS
  <2>2. 0 \in Int /\ n \in Nat
    OBVIOUS
  <2> HIDE DEF step
  <2> QED BY <2>1, <2>2, Recursion
<1>2. \A k \in 1..n : g[k] = g[k - 1] + f[k]
  <2> TAKE k \in 1..n
  <2>1. k \in Nat /\ k - 1 \in 0..n
    OBVIOUS
  <2>2. g[k] = step[<<k, g[k - 1]>>] /\ g[k - 1] \in Int
    <3> HIDE DEF step
    <3> QED BY <1>1, <2>1 DEF Runs
  <2>3. <<k, g[k - 1]>> \in Nat \X Int
    BY <2>1, <2>2
  <2> QED BY <2>2, <2>3
<1>3. ASSUME NEW k \in 0..n
      PROVE  upTo(k) = [i \in 0..k |-> IF i = 0 THEN 0 ELSE upTo(k)[i - 1] + f[i]]
  <2> DEFINE h == [i \in 0..k |-> g[i]]
  <2>1. h = [i \in 0..k |-> IF i = 0 THEN 0 ELSE h[i - 1] + f[i]]
    BY <1>1, <1>2 DEF Runs
  <2> HIDE DEF h
  <2> QED BY <2>1
<1>4. ASSUME NEW k \in 0..n
      PROVE  \A i \in 0..k : upTo(k)[i] = g[i]
  <2> DEFINE u == upTo(k)
  <2>1. /\ u[0] = 0
        /\ \A i \in 1..k : u[i] = u[i - 1] + f[i]
    <3>1. u = [i \in 0..k |-> IF i = 0 THEN 0 ELSE u[i - 1] + f[i]]
      BY <1>3
    <3> HIDE DEF u
    <3> QED BY <3>1
  <2> DEFINE T == {i \in 0..k : u[i] = g[i]}
  <2> HIDE DEF u
  <2>2. 0 \in T /\ \A i \in 0..k - 1 : i \in T => i + 1 \in T
    BY <2>1, <1>1, <1>2 DEF Runs
  <2>3. \A i \in 0..k : i \in T
    <3> HIDE DEF T
    <3> QED BY <2>2, InductionTo
  <2> QED BY <2>3 DEF u
<1>5. \A k \in 0..n : SumTo(f, k) = g[k]
  BY <1>4 DEF SumTo
<1> QED BY <1>1, <1>2, <1>5 DEF Runs

\* A function on 1..n is a sequence.
LEMMA LineIsSeq ==
  ASSUME NEW V, NEW n \in Nat, NEW line \in [1..n -> V]
  PROVE  line \in Seq(V) /\ Len(line) = n /\ DOMAIN line = 1..n
<1>1. line \in Seq(V)
  BY SeqDef
<1> QED BY <1>1, LenProperties

\* The tiles of a line, one cell at a time.
LEMMA TilesValues ==
  ASSUME NEW n \in Nat, NEW line \in [1..n -> Nat]
  PROVE  /\ Tiles(line, 0) = <<>>
         /\ \A k \in 0..n : Tiles(line, k) \in Seq(Nat)
         /\ \A k \in 1..n : Tiles(line, k) = IF line[k] = 0 THEN Tiles(line, k - 1)
                                            ELSE Append(Tiles(line, k - 1), line[k])
<1> DEFINE step == [p \in Nat \X Seq(Nat) |->
                      IF p[1] \in 1..n /\ line[p[1]] # 0 THEN Append(p[2], line[p[1]]) ELSE p[2]]
<1>1. PICK g : Runs(g, Seq(Nat), <<>>, step, n)
  <2>1. step \in [Nat \X Seq(Nat) -> Seq(Nat)]
    <3>1. \A p \in Nat \X Seq(Nat) : step[p] \in Seq(Nat)
      <4> TAKE p \in Nat \X Seq(Nat)
      <4>1. CASE p[1] \in 1..n /\ line[p[1]] # 0
        <5>1. line[p[1]] \in Nat /\ p[2] \in Seq(Nat)
          BY <4>1
        <5>2. Append(p[2], line[p[1]]) \in Seq(Nat)
          BY <5>1, AppendProperties
        <5> QED BY <4>1, <5>2
      <4>2. CASE ~(p[1] \in 1..n /\ line[p[1]] # 0)
        BY <4>2
      <4> QED BY <4>1, <4>2
    <3> QED BY <3>1
  <2>2. <<>> \in Seq(Nat) /\ n \in Nat
    OBVIOUS
  <2> HIDE DEF step
  <2> QED BY <2>1, <2>2, Recursion
<1>2. \A k \in 1..n : g[k] = IF line[k] = 0 THEN g[k - 1] ELSE Append(g[k - 1], line[k])
  <2> TAKE k \in 1..n
  <2>1. k \in Nat /\ k - 1 \in 0..n
    OBVIOUS
  <2>2. g[k] = step[<<k, g[k - 1]>>] /\ g[k - 1] \in Seq(Nat)
    <3> HIDE DEF step
    <3> QED BY <1>1, <2>1 DEF Runs
  <2>3. <<k, g[k - 1]>> \in Nat \X Seq(Nat)
    BY <2>1, <2>2
  <2> QED BY <2>2, <2>3
<1> HIDE DEF step
<1>3. ASSUME NEW k \in 0..n
      PROVE  \E u : /\ u = [i \in 0..k |-> IF i = 0 THEN <<>>
                            ELSE IF line[i] = 0 THEN u[i - 1] ELSE Append(u[i - 1], line[i])]
                   /\ Tiles(line, k) = u[k]
  <2> DEFINE h == [i \in 0..k |-> g[i]]
  <2>1. ASSUME NEW i \in 0..k
        PROVE  h[i] = IF i = 0 THEN <<>>
                      ELSE IF line[i] = 0 THEN h[i - 1] ELSE Append(h[i - 1], line[i])
    <3>1. CASE i = 0
      BY <1>1, <3>1 DEF Runs
    <3>2. CASE i # 0
      <4>1. i \in 1..n /\ i - 1 \in 0..k
        BY <3>2
      <4>2. h[i] = g[i] /\ h[i - 1] = g[i - 1]
        BY <4>1
      <4> QED BY <1>2, <3>2, <4>1, <4>2
    <3> QED BY <3>1, <3>2
  <2>2. h = [i \in 0..k |-> IF i = 0 THEN <<>>
               ELSE IF line[i] = 0 THEN h[i - 1] ELSE Append(h[i - 1], line[i])]
    <3>1. h = [i \in 0..k |-> h[i]]
      OBVIOUS
    <3> HIDE DEF h
    <3> QED BY <2>1, <3>1
  <2> HIDE DEF h
  <2> QED BY <2>2 DEF Tiles
<1>4. ASSUME NEW k \in 0..n
      PROVE  Tiles(line, k) = g[k]
  <2>1. PICK u : /\ u = [i \in 0..k |-> IF i = 0 THEN <<>>
                          ELSE IF line[i] = 0 THEN u[i - 1] ELSE Append(u[i - 1], line[i])]
                 /\ Tiles(line, k) = u[k]
    BY <1>3
  <2>2. /\ u[0] = <<>>
        /\ \A i \in 1..k : u[i] = IF line[i] = 0 THEN u[i - 1] ELSE Append(u[i - 1], line[i])
    <3>1. \A i \in 0..k : u[i] = IF i = 0 THEN <<>>
                          ELSE IF line[i] = 0 THEN u[i - 1] ELSE Append(u[i - 1], line[i])
      BY Zenon, <2>1
    <3>2. 0 \in 0..k /\ \A i \in 1..k : i \in 0..k /\ i # 0
      OBVIOUS
    <3> QED BY <3>1, <3>2
  <2> DEFINE T == {i \in 0..k : u[i] = g[i]}
  <2>3. 0 \in T
    BY <2>2, <1>1 DEF Runs
  <2>4. ASSUME NEW i \in 0..k - 1, i \in T PROVE i + 1 \in T
    <3>1. i + 1 \in 1..k /\ i + 1 \in 1..n /\ (i + 1) - 1 = i
      OBVIOUS
    <3> QED BY <1>2, <2>2, <2>4, <3>1
  <2>5. \A i \in 0..k : i \in T
    <3>1. k \in Nat
      OBVIOUS
    <3> HIDE DEF T
    <3> QED BY <2>3, <2>4, <3>1, InductionTo
  <2>6. k \in T
    BY <2>5
  <2> QED BY <2>1, <2>6
<1>5. \A k \in 0..n : Tiles(line, k) \in Seq(Nat)
  BY <1>1, <1>4 DEF Runs
<1>6. Tiles(line, 0) = <<>>
  BY <1>1, <1>4 DEF Runs
<1>7. ASSUME NEW k \in 1..n
      PROVE  Tiles(line, k) = IF line[k] = 0 THEN Tiles(line, k - 1)
                              ELSE Append(Tiles(line, k - 1), line[k])
  <2>1. k \in 0..n /\ k - 1 \in 0..n
    OBVIOUS
  <2>2. Tiles(line, k) = g[k] /\ Tiles(line, k - 1) = g[k - 1]
    BY <1>4, <2>1
  <2> QED BY <1>2, <2>2
<1> QED BY <1>5, <1>6, <1>7

-----------------------------------------------------------------------------
(* The loop that shifts, pass by pass.                                     *)

\* The two outcomes of a pass: nothing to do, or the next tile comes to cell j.
Stays(new, line, n, j) ==
  new = line /\ (line[j] # 0 \/ \A k \in j + 1..n : line[k] = 0)
Pulls(new, line, n, j) ==
  \E k \in j + 1..n :
    /\ new = [line EXCEPT ![j] = line[k], ![k] = 0]
    /\ line[k] # 0 /\ \A i \in j..k - 1 : line[i] = 0

\* One pass of the loop that shifts changes nothing, or gives cell j the next tile.
LEMMA PullAtIs ==
  ASSUME NEW n \in Nat, NEW line \in [1..n -> Nat], NEW j \in 1..n
  PROVE  /\ PullAt(line, j) \in [1..n -> Nat]
         /\ Stays(PullAt(line, j), line, n, j) \/ Pulls(PullAt(line, j), line, n, j)
<1> DEFINE full == {k \in j + 1..n : line[k] # 0}
           next == CHOOSE k \in full : \A m \in full : k <= m
<1>1. Len(line) = n
  BY LineIsSeq
<1>2. PullAt(line, j) = IF line[j] # 0 \/ full = {} THEN line
                        ELSE [line EXCEPT ![j] = line[next], ![next] = 0]
  BY <1>1 DEF PullAt
<1>3. CASE line[j] # 0 \/ full = {}
  BY <1>2, <1>3 DEF Stays
<1>4. CASE ~(line[j] # 0 \/ full = {})
  <2>1. \E k \in full : \A m \in full : k <= m
    <3>1. full \in SUBSET Nat /\ full # {}
      BY <1>4
    <3> HIDE DEF full
    <3> QED BY <3>1, LeastOf
  <2>2. next \in full /\ \A m \in full : next <= m
    <3> HIDE DEF full
    <3> QED BY <2>1
  <2>3. PullAt(line, j) = [line EXCEPT ![j] = line[next], ![next] = 0]
    BY <1>2, <1>4
  <2> HIDE DEF next
  <2>4. next \in j + 1..n /\ line[next] # 0 /\ line[j] = 0
    BY <1>4, <2>2
  <2>5. \A i \in j..next - 1 : line[i] = 0
    BY <2>2, <2>4
  <2>6. [line EXCEPT ![j] = line[next], ![next] = 0] \in [1..n -> Nat]
    BY <2>4
  <2> QED BY <2>3, <2>4, <2>5, <2>6 DEF Pulls
<1> QED BY <1>3, <1>4

\* The lines between the passes of the loop that shifts.
LEMMA ShiftedRuns ==
  ASSUME NEW n \in Nat \ {0}, NEW line \in [1..n -> Nat]
  PROVE  \E h : /\ h[0] = line /\ Shifted(line) = h[n - 1]
                /\ \A j \in 0..n - 1 : h[j] \in [1..n -> Nat]
                /\ \A j \in 1..n - 1 : h[j] = PullAt(h[j - 1], j)
<1> DEFINE L == [1..n -> Nat]
           step == [p \in Nat \X L |-> IF p[1] \in 1..n THEN PullAt(p[2], p[1]) ELSE p[2]]
<1>1. Len(line) = n /\ n - 1 \in Nat /\ line \in L
  BY LineIsSeq
<1>2. PICK g : Runs(g, L, line, step, n - 1)
  <2>1. step \in [Nat \X L -> L]
    <3>1. ASSUME NEW p \in Nat \X L PROVE step[p] \in L
      <4>1. p[1] \in 1..n => PullAt(p[2], p[1]) \in L
        BY PullAtIs
      <4> QED BY <4>1
    <3> QED BY <3>1
  <2> HIDE DEF step, L
  <2> QED BY <1>1, <2>1, Recursion
<1>3. ASSUME NEW j \in 1..n - 1
      PROVE  \A x \in L : step[<<j, x>>] = PullAt(x, j)
  BY <1>3
<1> HIDE DEF step, L
<1>4. ASSUME NEW j \in 1..n - 1
      PROVE  g[j - 1] \in L /\ g[j] = PullAt(g[j - 1], j)
  <2>1. g[j] = step[<<j, g[j - 1]>>] /\ g[j - 1] \in L
    BY <1>2 DEF Runs
  <2> QED BY <1>3, <2>1
<1>5. ASSUME NEW j \in 0..n - 1
      PROVE  g[j] = IF j = 0 THEN line ELSE PullAt(g[j - 1], j)
  BY <1>2, <1>4 DEF Runs
<1>6. g = [j \in 0..n - 1 |-> IF j = 0 THEN line ELSE PullAt(g[j - 1], j)]
  <2>1. g = [j \in 0..n - 1 |-> g[j]]
    BY <1>2 DEF Runs
  <2> QED BY <1>5, <2>1
<1>7. PICK u : /\ u = [j \in 0..n - 1 |-> IF j = 0 THEN line ELSE PullAt(u[j - 1], j)]
               /\ Shifted(line) = u[n - 1]
  BY <1>1, <1>6 DEF Shifted
<1>8. u[0] = line /\ \A j \in 1..n - 1 : u[j] = PullAt(u[j - 1], j)
  <2>1. \A j \in 0..n - 1 : u[j] = IF j = 0 THEN line ELSE PullAt(u[j - 1], j)
    BY Zenon, <1>7
  <2> QED BY <2>1, <1>1
<1>9. \A j \in 0..n - 1 : u[j] = g[j] /\ u[j] \in L
  <2>1. Follows(u, L, line, step, n - 1)
    BY <1>3, <1>8 DEF Follows
  <2> QED BY <1>1, <1>2, <2>1, RunsOnce
<1> QED BY <1>1, <1>7, <1>8, <1>9 DEF L

-----------------------------------------------------------------------------
(* The loop that merges, pass by pass.                                     *)

\* What the loop that merges works on.
Merging(n) == [line : [1..n -> Nat], gain : Nat]

Unmerged(new, m, j) == new = m /\ (m.line[j] # m.line[j + 1] \/ m.line[j] = 0)
Doubled(new, m, j) ==
  /\ m.line[j] = m.line[j + 1] /\ m.line[j] # 0
  /\ new.line = [m.line EXCEPT ![j] = 2 * m.line[j], ![j + 1] = 0]
  /\ new.gain = m.gain + m.line[j]

\* One pass of the loop that merges changes nothing, or makes one tile of two.
LEMMA MergeAtIs ==
  ASSUME NEW n \in Nat, NEW m \in Merging(n), NEW j \in 1..n - 1
  PROVE  /\ MergeAt(m, j) \in Merging(n)
         /\ Unmerged(MergeAt(m, j), m, j) \/ Doubled(MergeAt(m, j), m, j)
<1>1. j \in 1..n /\ j + 1 \in 1..n /\ m.line[j] \in Nat /\ m.gain \in Nat /\ m.line \in [1..n -> Nat]
  BY DEF Merging
<1>2. CASE m.line[j] # m.line[j + 1] \/ m.line[j] = 0
  <2>1. MergeAt(m, j) = m
    BY <1>2 DEF MergeAt
  <2> QED BY <1>2, <2>1 DEF Unmerged
<1>3. CASE ~(m.line[j] # m.line[j + 1] \/ m.line[j] = 0)
  <2> DEFINE line == [m.line EXCEPT ![j] = 2 * m.line[j], ![j + 1] = 0]
  <2>1. MergeAt(m, j) = [line |-> line, gain |-> m.gain + m.line[j]]
    BY <1>3 DEF MergeAt
  <2>2. line \in [1..n -> Nat]
    BY <1>1
  <2> HIDE DEF line
  <2>3. MergeAt(m, j) \in Merging(n)
    BY <1>1, <2>1, <2>2 DEF Merging
  <2> QED BY <1>3, <2>1, <2>3 DEF line, Doubled
<1> QED BY <1>2, <1>3

\* The lines between the passes of the loop that merges.
LEMMA MergedRuns ==
  ASSUME NEW n \in Nat \ {0}, NEW line \in [1..n -> Nat]
  PROVE  \E h : /\ h[0] = [line |-> line, gain |-> 0] /\ Merged(line) = h[n - 1]
                /\ \A j \in 0..n - 1 : h[j] \in Merging(n)
                /\ \A j \in 1..n - 1 : h[j] = MergeAt(h[j - 1], j)
<1> DEFINE L == Merging(n)
           base == [line |-> line, gain |-> 0]
           step == [p \in Nat \X L |-> IF p[1] \in 1..n - 1 THEN MergeAt(p[2], p[1]) ELSE p[2]]
<1>1. Len(line) = n /\ n - 1 \in Nat /\ base \in L
  BY LineIsSeq DEF Merging
<1> HIDE DEF base
<1>2. PICK g : Runs(g, L, base, step, n - 1)
  <2>1. step \in [Nat \X L -> L]
    <3>1. ASSUME NEW p \in Nat \X L PROVE step[p] \in L
      <4>1. p[1] \in 1..n - 1 => MergeAt(p[2], p[1]) \in L
        BY MergeAtIs
      <4> QED BY <4>1
    <3> QED BY <3>1
  <2> HIDE DEF step, L
  <2> QED BY <1>1, <2>1, Recursion
<1>3. ASSUME NEW j \in 1..n - 1
      PROVE  \A x \in L : step[<<j, x>>] = MergeAt(x, j)
  BY <1>3
<1> HIDE DEF step, L
<1>4. ASSUME NEW j \in 1..n - 1
      PROVE  g[j - 1] \in L /\ g[j] = MergeAt(g[j - 1], j)
  <2>1. g[j] = step[<<j, g[j - 1]>>] /\ g[j - 1] \in L
    BY <1>2 DEF Runs
  <2> QED BY <1>3, <2>1
<1>5. ASSUME NEW j \in 0..n - 1
      PROVE  g[j] = IF j = 0 THEN base ELSE MergeAt(g[j - 1], j)
  BY <1>2, <1>4 DEF Runs
<1>6. g = [j \in 0..n - 1 |-> IF j = 0 THEN base ELSE MergeAt(g[j - 1], j)]
  <2>1. g = [j \in 0..n - 1 |-> g[j]]
    BY <1>2 DEF Runs
  <2> QED BY <1>5, <2>1
<1>7. PICK u : /\ u = [j \in 0..n - 1 |-> IF j = 0 THEN base ELSE MergeAt(u[j - 1], j)]
               /\ Merged(line) = u[n - 1]
  BY <1>1, <1>6 DEF Merged, base
<1>8. u[0] = base /\ \A j \in 1..n - 1 : u[j] = MergeAt(u[j - 1], j)
  <2>1. \A j \in 0..n - 1 : u[j] = IF j = 0 THEN base ELSE MergeAt(u[j - 1], j)
    BY Zenon, <1>7
  <2> QED BY <2>1, <1>1
<1>9. \A j \in 0..n - 1 : u[j] = g[j] /\ u[j] \in L
  <2>1. Follows(u, L, base, step, n - 1)
    BY <1>3, <1>8 DEF Follows
  <2> QED BY <1>1, <1>2, <2>1, RunsOnce
<1> QED BY <1>1, <1>7, <1>8, <1>9 DEF L, base

-----------------------------------------------------------------------------
(* The leaderboard.                                                        *)

Games == Seq([player : Players, score : Nat])

\* The best game so far, one line of scores.txt at a time.
LEMMA BestRuns ==
  ASSUME NEW games \in Games
  PROVE  \E h : /\ h[0] = Nobody /\ Best(games) = h[Len(games)]
                /\ \A k \in 1..Len(games) : h[k] = Better(h[k - 1], games[k])
<1> DEFINE n == Len(games)
           L == [player : Players, score : Nat] \cup {Nobody}
           step == [p \in Nat \X L |-> IF p[1] \in 1..n THEN Better(p[2], games[p[1]]) ELSE p[2]]
<1>1. n \in Nat /\ Nobody \in L /\ \A k \in 1..n : games[k] \in L
  <2>1. \A k \in 1..n : games[k] \in [player : Players, score : Nat]
    BY ElementOfSeq DEF Games
  <2> QED BY <2>1 DEF Games
<1>2. PICK g : Runs(g, L, Nobody, step, n)
  <2>1. step \in [Nat \X L -> L]
    <3>1. ASSUME NEW p \in Nat \X L PROVE step[p] \in L
      BY <1>1 DEF Better
    <3> QED BY <3>1
  <2> HIDE DEF step, L, n
  <2> QED BY <1>1, <2>1, Recursion
<1>3. ASSUME NEW k \in 1..n
      PROVE  \A x \in L : step[<<k, x>>] = Better(x, games[k])
  BY <1>1, <1>3
<1> HIDE DEF step, L
<1>4. ASSUME NEW k \in 1..n
      PROVE  g[k] = Better(g[k - 1], games[k])
  <2>1. g[k] = step[<<k, g[k - 1]>>] /\ g[k - 1] \in L
    BY <1>1, <1>2 DEF Runs
  <2> QED BY <1>3, <2>1
<1>5. g = [k \in 0..n |-> IF k = 0 THEN Nobody ELSE Better(g[k - 1], games[k])]
  <2>1. g = [k \in 0..n |-> g[k]] /\ g[0] = Nobody
    BY <1>2 DEF Runs
  <2>2. \A k \in 0..n : g[k] = IF k = 0 THEN Nobody ELSE Better(g[k - 1], games[k])
    <3> TAKE k \in 0..n
    <3>1. CASE k = 0
      BY <2>1, <3>1
    <3>2. CASE k # 0
      <4>1. k \in 1..n
        BY <1>1, <3>2
      <4> QED BY <1>4, <3>2, <4>1
    <3> QED BY <3>1, <3>2
  <2> QED BY <2>1, <2>2
<1>6. PICK u : /\ u = [k \in 0..n |-> IF k = 0 THEN Nobody ELSE Better(u[k - 1], games[k])]
               /\ Best(games) = u[n]
  BY <1>5 DEF Best
<1>7. u[0] = Nobody /\ \A k \in 1..n : u[k] = Better(u[k - 1], games[k])
  <2>1. \A k \in 0..n : u[k] = IF k = 0 THEN Nobody ELSE Better(u[k - 1], games[k])
    BY Zenon, <1>6
  <2> QED BY <2>1, <1>1
<1> QED BY <1>6, <1>7

\* displayLeaderboard ends with the first of the highest scores, if it is not 0.
THEOREM BestIsFirst ==
  ASSUME NEW games \in Games
  PROVE  LET best == Best(games) IN
         /\ \A j \in 1..Len(games) : games[j].score <= best.score
         /\ best # Nobody =>
              \E i \in 1..Len(games) :
                /\ best = games[i] /\ games[i].score > 0
                /\ \A j \in 1..i - 1 : games[j].score < games[i].score
<1> DEFINE n == Len(games)
<1>1. PICK h : /\ h[0] = Nobody /\ Best(games) = h[n]
               /\ \A k \in 1..n : h[k] = Better(h[k - 1], games[k])
  BY BestRuns
<1>2. n \in Nat /\ \A k \in 1..n : games[k] \in [player : Players, score : Nat]
  <2>1. games \in Seq([player : Players, score : Nat])
    BY DEF Games
  <2>2. \A k \in 1..n : games[k] \in [player : Players, score : Nat]
    BY <2>1, ElementOfSeq
  <2> QED BY <2>1, <2>2
<1> DEFINE Found(k) == \E i \in 1..k : /\ h[k] = games[i] /\ games[i].score > 0
                                       /\ \A j \in 1..i - 1 : games[j].score < games[i].score
           FirstBest(k) == /\ h[k].score \in Nat
                           /\ \A j \in 1..k : games[j].score <= h[k].score
                           /\ h[k] = Nobody \/ Found(k)
           T == {k \in 0..n : FirstBest(k)}
<1> HIDE DEF n
<1>3. 0 \in T
  BY <1>1, <1>2 DEF Nobody
<1>4. ASSUME NEW k \in 0..n - 1, k \in T PROVE k + 1 \in T
  <2>1. k + 1 \in 1..n /\ k \in Nat /\ (k + 1) - 1 = k
    BY <1>2
  <2>2. h[k + 1] = Better(h[k], games[k + 1]) /\ games[k + 1].score \in Nat
    BY <1>1, <1>2, <2>1
  <2>3. FirstBest(k)
    BY <1>4
  <2>4. CASE games[k + 1].score > h[k].score
    <3>1. h[k + 1] = games[k + 1]
      BY <2>2, <2>4 DEF Better
    <3>2. \A j \in 1..k : games[j].score < games[k + 1].score
      <4> TAKE j \in 1..k
      <4>1. games[j].score \in Nat /\ games[j].score <= h[k].score
        BY <1>2, <2>1, <2>3
      <4> QED BY <2>2, <2>3, <2>4, <4>1
    <3>3. Found(k + 1)
      BY <2>1, <2>2, <2>3, <2>4, <3>1, <3>2
    <3>4. \A j \in 1..k + 1 : games[j].score <= h[k + 1].score
      <4> TAKE j \in 1..k + 1
      <4>1. CASE j = k + 1
        BY <2>2, <3>1, <4>1
      <4>2. CASE j # k + 1
        <5>1. j \in 1..k /\ games[j].score \in Nat
          BY <1>2, <2>1, <4>2
        <5> QED BY <2>2, <3>1, <3>2, <5>1
      <4> QED BY <4>1, <4>2
    <3> QED BY <2>1, <2>2, <3>1, <3>3, <3>4
  <2>5. CASE ~(games[k + 1].score > h[k].score)
    <3>1. h[k + 1] = h[k]
      BY <2>2, <2>5 DEF Better
    <3>2. h[k + 1] = Nobody \/ Found(k + 1)
      BY <2>1, <2>3, <3>1
    <3>3. \A j \in 1..k + 1 : games[j].score <= h[k + 1].score
      BY <2>1, <2>2, <2>3, <2>5, <3>1
    <3> QED BY <2>1, <2>3, <3>1, <3>2, <3>3
  <2> QED BY <2>4, <2>5
<1>5. FirstBest(n)
  <2>1. \A k \in 0..n : k \in T
    <3> HIDE DEF T
    <3> QED BY <1>2, <1>3, <1>4, InductionTo
  <2> QED BY <1>2, <2>1
<1> QED BY <1>1, <1>5 DEF n

-----------------------------------------------------------------------------
(* The rules of a move.                                                    *)

\* What the rules make of the tiles from the i-th on, one tile at a time.
ByRules(from, tiles) ==
  /\ \A i \in 1..Len(tiles) + 2 : from[i] \in Seq(Nat)
  /\ from[Len(tiles) + 1] = <<>> /\ from[Len(tiles) + 2] = <<>>
  /\ \A i \in 1..Len(tiles) :
       from[i] = IF i < Len(tiles) /\ tiles[i] = tiles[i + 1]
                 THEN <<2 * tiles[i]>> \o from[i + 2] ELSE <<tiles[i]>> \o from[i + 1]

\* The rules of a move are a recursion from the last tile to the first.
LEMMA FromExists ==
  ASSUME NEW tiles \in Seq(Nat)
  PROVE  \E f : f = [i \in 1..Len(tiles) + 2 |->
                       IF i > Len(tiles) THEN <<>>
                       ELSE IF i < Len(tiles) /\ tiles[i] = tiles[i + 1]
                            THEN <<2 * tiles[i]>> \o f[i + 2] ELSE <<tiles[i]>> \o f[i + 1]]
<1> DEFINE m == Len(tiles)
           Longer(i, two, one) == IF i < m /\ tiles[i] = tiles[i + 1]
                                  THEN <<2 * tiles[i]>> \o two ELSE <<tiles[i]>> \o one
           S == Seq(Nat) \X Seq(Nat)
           step == [p \in Nat \X S |->
                      IF p[1] \in 1..m THEN <<p[2][2], Longer(m + 1 - p[1], p[2][1], p[2][2])>> ELSE p[2]]
<1>1. m \in Nat /\ \A i \in 1..m : tiles[i] \in Nat
  BY ElementOfSeq
<1>2. ASSUME NEW i \in 1..m, NEW two \in Seq(Nat), NEW one \in Seq(Nat)
      PROVE  Longer(i, two, one) \in Seq(Nat)
  <2>1. <<2 * tiles[i]>> \in Seq(Nat) /\ <<tiles[i]>> \in Seq(Nat)
    BY <1>1
  <2> QED BY <2>1, ConcatProperties
<1> HIDE DEF Longer, m
<1>3. step \in [Nat \X S -> S]
  <2>1. ASSUME NEW p \in Nat \X S PROVE step[p] \in S
    <3>1. p[2] = <<p[2][1], p[2][2]>> /\ p[2][1] \in Seq(Nat) /\ p[2][2] \in Seq(Nat)
      OBVIOUS
    <3>2. CASE p[1] \in 1..m
      <4>1. m + 1 - p[1] \in 1..m
        BY <1>1, <3>2
      <4>2. Longer(m + 1 - p[1], p[2][1], p[2][2]) \in Seq(Nat)
        BY <1>2, <3>1, <4>1
      <4> QED BY <3>1, <3>2, <4>2
    <3>3. CASE p[1] \notin 1..m
      BY <3>3
    <3> QED BY <3>2, <3>3
  <2> QED BY <2>1
<1>4. <<<<>>, <<>>>> \in S
  <2>1. <<>> \in Seq(Nat)
    OBVIOUS
  <2> QED BY <2>1
<1>5. PICK g : Runs(g, S, <<<<>>, <<>>>>, step, m)
  <2> HIDE DEF S, step
  <2> QED BY <1>1, <1>3, <1>4, Recursion
<1>6. ASSUME NEW r \in 1..m
      PROVE  g[r] = <<g[r - 1][2], Longer(m + 1 - r, g[r - 1][1], g[r - 1][2])>>
  <2>1. g[r] = step[<<r, g[r - 1]>>] /\ g[r - 1] \in S /\ r \in Nat
    <3> HIDE DEF step, S
    <3> QED BY <1>1, <1>5 DEF Runs
  <2>2. <<r, g[r - 1]>> \in Nat \X S
    BY <2>1
  <2>3. step[<<r, g[r - 1]>>] = <<g[r - 1][2], Longer(m + 1 - r, g[r - 1][1], g[r - 1][2])>>
    BY <2>2
  <2> HIDE DEF step
  <2> QED BY <2>1, <2>3
<1> DEFINE f == [i \in 1..m + 2 |-> IF i = m + 2 THEN <<>> ELSE g[m + 1 - i][2]]
<1>7. g[0] = <<<<>>, <<>>>>
  BY <1>5 DEF Runs
<1> HIDE DEF step, S
<1>8. f[m + 1] = <<>> /\ f[m + 2] = <<>>
  BY <1>1, <1>7
<1>9. ASSUME NEW i \in 1..m
      PROVE  f[i] = Longer(i, f[i + 2], f[i + 1])
  <2> DEFINE r == m + 1 - i
  <2>1. r \in 1..m /\ r - 1 \in 0..m - 1 /\ m + 1 - r = i /\ r - 1 = m + 1 - (i + 1)
    BY <1>1
  <2>2. g[r] = <<g[r - 1][2], Longer(i, g[r - 1][1], g[r - 1][2])>>
    BY <1>6, <2>1
  <2>3. f[i] = g[r][2] /\ f[i + 1] = g[r - 1][2]
    BY <1>1
  <2>4. f[i + 2] = g[r - 1][1]
    <3>1. CASE i = m
      <4>1. r - 1 = 0 /\ f[i + 2] = <<>>
        BY <1>1, <1>8, <3>1
      <4> QED BY <1>7, <4>1
    <3>2. CASE i # m
      <4>1. r - 1 \in 1..m /\ i + 2 \in 1..m + 2 /\ i + 2 # m + 2 /\ m + 1 - (i + 2) = (r - 1) - 1
        BY <1>1, <3>2
      <4>2. f[i + 2] = g[(r - 1) - 1][2]
        BY <4>1
      <4>3. g[r - 1] = <<g[(r - 1) - 1][2], Longer(m + 1 - (r - 1), g[(r - 1) - 1][1], g[(r - 1) - 1][2])>>
        BY <1>6, <4>1
      <4> HIDE DEF f, r
      <4> QED BY <4>2, <4>3
    <3> QED BY <3>1, <3>2
  <2> HIDE DEF f, r
  <2> QED BY <2>2, <2>3, <2>4
<1>10. f = [i \in 1..m + 2 |-> IF i > m THEN <<>> ELSE Longer(i, f[i + 2], f[i + 1])]
  <2>1. f = [i \in 1..m + 2 |-> f[i]]
    OBVIOUS
  <2> HIDE DEF f
  <2>2. ASSUME NEW i \in 1..m + 2
        PROVE  f[i] = IF i > m THEN <<>> ELSE Longer(i, f[i + 2], f[i + 1])
    <3>1. CASE i \in 1..m
      BY <1>1, <1>9, <3>1
    <3>2. CASE i \notin 1..m
      <4>1. i = m + 1 \/ i = m + 2
        BY <1>1, <3>2
      <4> QED BY <1>1, <1>8, <4>1
    <3> QED BY <3>1, <3>2
  <2> QED BY <2>1, <2>2
<1> HIDE DEF f
<1> QED BY <1>10 DEF Longer, m

\* The value of Rules, by that recursion.
LEMMA RulesRun ==
  ASSUME NEW n \in Nat, NEW line \in [1..n -> Nat]
  PROVE  \E f : /\ ByRules(f, Tiles(line, n))
                /\ Rules(line) = [i \in 1..n |-> IF i <= Len(f[1]) THEN f[1][i] ELSE 0]
<1> DEFINE tiles == Tiles(line, Len(line))
           m     == Len(tiles)
           Longer(i, two, one) == IF i < m /\ tiles[i] = tiles[i + 1]
                                  THEN <<2 * tiles[i]>> \o two ELSE <<tiles[i]>> \o one
<1>1. Len(line) = n /\ tiles \in Seq(Nat) /\ tiles = Tiles(line, n)
  BY LineIsSeq, TilesValues
<1>2. m \in Nat /\ \A i \in 1..m : tiles[i] \in Nat
  <2> HIDE DEF tiles
  <2> QED BY <1>1, ElementOfSeq
<1>3. PICK f : /\ f = [i \in 1..m + 2 |-> IF i > m THEN <<>> ELSE Longer(i, f[i + 2], f[i + 1])]
               /\ Rules(line) = [i \in 1..Len(line) |-> IF i <= Len(f[1]) THEN f[1][i] ELSE 0]
  <2>1. \E f : f = [i \in 1..m + 2 |-> IF i > m THEN <<>> ELSE Longer(i, f[i + 2], f[i + 1])]
    BY Zenon, <1>1, FromExists
  <2> DEFINE from == CHOOSE f : f = [i \in 1..m + 2 |-> IF i > m THEN <<>> ELSE Longer(i, f[i + 2], f[i + 1])]
  <2>2. Rules(line) = [i \in 1..Len(line) |-> IF i <= Len(from[1]) THEN from[1][i] ELSE 0]
    BY Zenon DEF Rules
  <2>3. from = [i \in 1..m + 2 |-> IF i > m THEN <<>> ELSE Longer(i, from[i + 2], from[i + 1])]
    BY Zenon, <2>1
  <2> HIDE DEF from, Longer, m
  <2> QED BY Zenon, <2>2, <2>3
<1> HIDE DEF Longer
<1>4. \A i \in 1..m + 2 : f[i] = IF i > m THEN <<>> ELSE Longer(i, f[i + 2], f[i + 1])
  BY Zenon, <1>3
<1> HIDE DEF tiles
<1>5. f[m + 1] = <<>> /\ f[m + 2] = <<>> /\ \A i \in 1..m : f[i] = Longer(i, f[i + 2], f[i + 1])
  <2> HIDE DEF m
  <2>1. m + 1 \in 1..m + 2 /\ m + 2 \in 1..m + 2 /\ m + 1 > m /\ m + 2 > m
    BY <1>2
  <2>2. \A i \in 1..m : i \in 1..m + 2 /\ ~(i > m)
    BY <1>2
  <2> QED BY <1>4, <2>1, <2>2
<1> DEFINE T == {r \in 0..m : f[m + 1 - r] \in Seq(Nat) /\ f[m + 2 - r] \in Seq(Nat)}
<1>6. \A r \in 0..m : r \in T
  <2> HIDE DEF m
  <2>1. 0 \in T
    <3>1. <<>> \in Seq(Nat) /\ m + 1 - 0 = m + 1 /\ m + 2 - 0 = m + 2 /\ 0 \in 0..m
      BY <1>2
    <3> QED BY <1>5, <3>1
  <2>2. ASSUME NEW r \in 0..m - 1, r \in T PROVE r + 1 \in T
    <3>1. m - r \in 1..m /\ m + 1 - (r + 1) = m - r /\ m + 2 - (r + 1) = m + 1 - r
          /\ (m - r) + 1 = m + 1 - r /\ (m - r) + 2 = m + 2 - r /\ r + 1 \in 0..m
      BY <1>2
    <3>2. f[m - r] = Longer(m - r, f[m + 2 - r], f[m + 1 - r])
      BY <1>5, <3>1
    <3>3. f[m + 2 - r] \in Seq(Nat) /\ f[m + 1 - r] \in Seq(Nat)
      BY <2>2
    <3>4. <<2 * tiles[m - r]>> \in Seq(Nat) /\ <<tiles[m - r]>> \in Seq(Nat)
      BY <1>2, <3>1
    <3>5. Longer(m - r, f[m + 2 - r], f[m + 1 - r]) \in Seq(Nat)
      BY <3>3, <3>4, ConcatProperties DEF Longer
    <3> QED BY <3>1, <3>2, <3>3, <3>5
  <2> HIDE DEF T
  <2> QED BY <1>2, <2>1, <2>2, InductionTo
<1>7. \A i \in 1..m + 2 : f[i] \in Seq(Nat)
  <2> HIDE DEF m
  <2> TAKE i \in 1..m + 2
  <2>1. CASE i = m + 2
    <3>1. <<>> \in Seq(Nat)
      OBVIOUS
    <3> QED BY <1>5, <2>1, <3>1
  <2>2. CASE i # m + 2
    <3>1. m + 1 - i \in 0..m /\ m + 1 - (m + 1 - i) = i
      BY <1>2, <2>2
    <3>2. m + 1 - i \in T
      BY <1>6, <3>1
    <3> QED BY <3>1, <3>2
  <2> QED BY <2>1, <2>2
<1>8. ByRules(f, tiles)
  BY <1>5, <1>7 DEF ByRules, Longer
<1> QED BY <1>1, <1>3, <1>8

\* What one cell more does to the tiles.
LEMMA TilesStep ==
  ASSUME NEW n \in Nat, NEW line \in [1..n -> Nat], NEW k \in 1..n
  PROVE  /\ k - 1 \in 0..n /\ Tiles(line, k - 1) \in Seq(Nat) /\ line[k] \in Nat
         /\ line[k] = 0 => Tiles(line, k) = Tiles(line, k - 1)
         /\ line[k] # 0 =>
              /\ Tiles(line, k) = Append(Tiles(line, k - 1), line[k])
              /\ Len(Tiles(line, k)) = Len(Tiles(line, k - 1)) + 1
              /\ Tiles(line, k)[Len(Tiles(line, k))] = line[k]
              /\ \A i \in 1..Len(Tiles(line, k - 1)) : Tiles(line, k)[i] = Tiles(line, k - 1)[i]
<1>1. k - 1 \in 0..n /\ Tiles(line, k - 1) \in Seq(Nat) /\ line[k] \in Nat
  BY TilesValues
<1>2. Tiles(line, k) = IF line[k] = 0 THEN Tiles(line, k - 1) ELSE Append(Tiles(line, k - 1), line[k])
  BY TilesValues
<1>3. CASE line[k] # 0
  BY <1>1, <1>2, <1>3, AppendProperties
<1> QED BY <1>1, <1>2, <1>3

\* Two lines with the same tiles up to a and the same cells from there to b.
LEMMA TilesAgree ==
  ASSUME NEW n \in Nat, NEW one \in [1..n -> Nat], NEW two \in [1..n -> Nat],
         NEW a \in 0..n, NEW b \in a..n,
         Tiles(one, a) = Tiles(two, a), \A i \in a + 1..b : one[i] = two[i]
  PROVE  Tiles(one, b) = Tiles(two, b)
<1> DEFINE T == {d \in 0..b - a : Tiles(one, a + d) = Tiles(two, a + d)}
<1>1. 0 \in T
  OBVIOUS
<1>2. ASSUME NEW d \in 0..(b - a) - 1, d \in T PROVE d + 1 \in T
  <2> DEFINE k == a + (d + 1)
  <2>1. k \in 1..n /\ k \in a + 1..b /\ k - 1 = a + d /\ d + 1 \in 0..b - a
    OBVIOUS
  <2>2. Tiles(one, k - 1) = Tiles(two, k - 1)
    BY <1>2, <2>1
  <2>3. /\ Tiles(one, k) = IF one[k] = 0 THEN Tiles(one, k - 1) ELSE Append(Tiles(one, k - 1), one[k])
        /\ Tiles(two, k) = IF two[k] = 0 THEN Tiles(two, k - 1) ELSE Append(Tiles(two, k - 1), two[k])
    <3> HIDE DEF k
    <3> QED BY <2>1, TilesValues
  <2>4. one[k] = two[k]
    BY <2>1
  <2>5. Tiles(one, k) = Tiles(two, k)
    <3> HIDE DEF k
    <3> QED BY <2>2, <2>3, <2>4
  <2> QED BY <2>1, <2>5
<1>3. \A d \in 0..b - a : d \in T
  <2>1. b - a \in Nat
    OBVIOUS
  <2> HIDE DEF T
  <2> QED BY <1>1, <1>2, <2>1, InductionTo
<1>4. b - a \in T /\ a + (b - a) = b
  <2>1. b - a \in 0..b - a /\ a + (b - a) = b
    OBVIOUS
  <2> HIDE DEF T
  <2> QED BY <1>3, <2>1
<1> QED BY <1>4

\* Lines that agree on their first cells have the same tiles there.
LEMMA TilesSame ==
  ASSUME NEW n \in Nat, NEW one \in [1..n -> Nat], NEW two \in [1..n -> Nat], NEW k \in 0..n,
         \A i \in 1..k : one[i] = two[i]
  PROVE  Tiles(one, k) = Tiles(two, k)
<1>1. Tiles(one, 0) = <<>> /\ Tiles(two, 0) = <<>>
  BY TilesValues
<1> DEFINE a == 0
<1>2. a \in 0..n /\ k \in a..n /\ Tiles(one, a) = Tiles(two, a)
      /\ \A i \in a + 1..k : one[i] = two[i]
  BY <1>1
<1> HIDE DEF a
<1> QED BY <1>2, TilesAgree

\* Empty cells add no tile.
LEMMA TilesOverZeros ==
  ASSUME NEW n \in Nat, NEW line \in [1..n -> Nat], NEW a \in 0..n, NEW b \in a..n,
         \A i \in a + 1..b : line[i] = 0
  PROVE  Tiles(line, b) = Tiles(line, a)
<1> DEFINE T == {d \in 0..b - a : Tiles(line, a + d) = Tiles(line, a)}
<1>1. 0 \in T
  OBVIOUS
<1>2. ASSUME NEW d \in 0..(b - a) - 1, d \in T PROVE d + 1 \in T
  <2>1. a + (d + 1) \in 1..n /\ a + (d + 1) \in a + 1..b /\ (a + (d + 1)) - 1 = a + d /\ d + 1 \in 0..b - a
    OBVIOUS
  <2>2. Tiles(line, a + (d + 1)) = Tiles(line, a + d)
    BY <2>1, TilesStep
  <2> QED BY <1>2, <2>1, <2>2
<1>3. \A d \in 0..b - a : d \in T
  <2>1. b - a \in Nat
    OBVIOUS
  <2> HIDE DEF T
  <2> QED BY <1>1, <1>2, <2>1, InductionTo
<1>4. b - a \in T /\ a + (b - a) = b
  <2>1. b - a \in 0..b - a /\ a + (b - a) = b
    OBVIOUS
  <2> HIDE DEF T
  <2> QED BY <1>3, <2>1
<1> QED BY <1>4

\* Tiles are not empty, and fewer than the cells if a cell is empty.
LEMMA TilesOf ==
  ASSUME NEW n \in Nat, NEW line \in [1..n -> Nat], NEW k \in 0..n
  PROVE  /\ Len(Tiles(line, k)) \in 0..k
         /\ \A i \in 1..Len(Tiles(line, k)) : Tiles(line, k)[i] \in Nat \ {0}
         /\ IF \A i \in 1..k : line[i] # 0
            THEN Len(Tiles(line, k)) = k /\ \A i \in 1..k : Tiles(line, k)[i] = line[i]
            ELSE Len(Tiles(line, k)) < k
<1> DEFINE Good(j) == /\ Len(Tiles(line, j)) \in 0..j
                      /\ \A i \in 1..Len(Tiles(line, j)) : Tiles(line, j)[i] \in Nat \ {0}
                      /\ IF \A i \in 1..j : line[i] # 0
                         THEN Len(Tiles(line, j)) = j /\ \A i \in 1..j : Tiles(line, j)[i] = line[i]
                         ELSE Len(Tiles(line, j)) < j
           T == {j \in 0..n : Good(j)}
<1>1. 0 \in T
  <2>1. Tiles(line, 0) = <<>>
    BY TilesValues
  <2> QED BY <2>1
<1>2. ASSUME NEW j \in 0..n - 1, j \in T PROVE j + 1 \in T
  <2> DEFINE s == Tiles(line, j)
             t == Tiles(line, j + 1)
  <2>1. j + 1 \in 1..n /\ (j + 1) - 1 = j
    OBVIOUS
  <2>2. /\ s \in Seq(Nat) /\ line[j + 1] \in Nat
        /\ line[j + 1] = 0 => t = s
        /\ line[j + 1] # 0 => /\ Len(t) = Len(s) + 1 /\ t[Len(t)] = line[j + 1]
                              /\ \A i \in 1..Len(s) : t[i] = s[i]
    <3> DEFINE p == j + 1
    <3>1. p \in 1..n /\ p - 1 = j
      BY <2>1
    <3> HIDE DEF p
    <3>2. /\ Tiles(line, p - 1) \in Seq(Nat) /\ line[p] \in Nat
          /\ line[p] = 0 => Tiles(line, p) = Tiles(line, p - 1)
          /\ line[p] # 0 =>
               /\ Len(Tiles(line, p)) = Len(Tiles(line, p - 1)) + 1
               /\ Tiles(line, p)[Len(Tiles(line, p))] = line[p]
               /\ \A i \in 1..Len(Tiles(line, p - 1)) : Tiles(line, p)[i] = Tiles(line, p - 1)[i]
      BY <3>1, TilesStep
    <3> QED BY <3>1, <3>2 DEF p
  <2>3. Good(j)
    BY <1>2
  <2> HIDE DEF s, t
  <2>4. Good(j) <=> /\ Len(s) \in 0..j
                    /\ \A i \in 1..Len(s) : s[i] \in Nat \ {0}
                    /\ IF \A i \in 1..j : line[i] # 0
                       THEN Len(s) = j /\ \A i \in 1..j : s[i] = line[i]
                       ELSE Len(s) < j
    BY DEF s
  <2>5. CASE line[j + 1] = 0
    <3>1. /\ Len(t) \in 0..j + 1
          /\ \A i \in 1..Len(t) : t[i] \in Nat \ {0}
          /\ ~(\A i \in 1..j + 1 : line[i] # 0) /\ Len(t) < j + 1
      BY <2>1, <2>2, <2>3, <2>4, <2>5
    <3> QED BY <2>1, <3>1 DEF t
  <2>6. CASE line[j + 1] # 0
    <3>1. Len(t) \in 0..j + 1
      BY <2>2, <2>3, <2>4, <2>6
    <3>2. \A i \in 1..Len(t) : t[i] \in Nat \ {0}
      <4> TAKE i \in 1..Len(t)
      <4>1. i \in 1..Len(s) \/ i = Len(t)
        BY <2>2, <2>3, <2>4, <2>6
      <4> QED BY <2>2, <2>3, <2>4, <2>6, <4>1
    <3>3. CASE \A i \in 1..j : line[i] # 0
      <4>1. Len(s) = j /\ \A i \in 1..j : s[i] = line[i]
        BY <2>3, <2>4, <3>3
      <4>2. Len(t) = j + 1 /\ t[j + 1] = line[j + 1] /\ \A i \in 1..j : t[i] = line[i]
        BY <2>2, <2>6, <4>1
      <4>3. \A i \in 1..j + 1 : t[i] = line[i] /\ line[i] # 0
        BY <2>6, <3>3, <4>2
      <4> QED BY <2>1, <3>1, <3>2, <4>2, <4>3 DEF t
    <3>4. CASE ~ \A i \in 1..j : line[i] # 0
      <4>1. Len(s) < j
        BY <2>3, <2>4, <3>4
      <4>2. Len(t) < j + 1 /\ ~ \A i \in 1..j + 1 : line[i] # 0
        BY <2>2, <2>3, <2>4, <2>6, <3>4, <4>1
      <4> QED BY <2>1, <3>1, <3>2, <4>2 DEF t
    <3> QED BY <3>3, <3>4
  <2> QED BY <2>5, <2>6
<1>3. \A j \in 0..n : j \in T
  <2> HIDE DEF T
  <2> QED BY <1>1, <1>2, InductionTo
<1>4. k \in T
  BY <1>3
<1> QED BY <1>4

-----------------------------------------------------------------------------
(* Shifting keeps the tiles and moves them to the front.                   *)

\* Up to j, nothing comes after an empty cell.
Packed(line, n, j) == \A i \in 1..j : line[i] = 0 => \A k \in i + 1..n : line[k] = 0

\* A line with all its tiles in front begins with them and goes on with empty cells.
LEMMA PackedIs ==
  ASSUME NEW n \in Nat, NEW line \in [1..n -> Nat], Packed(line, n, n)
  PROVE  \A i \in 1..n : line[i] = IF i <= Len(Tiles(line, n)) THEN Tiles(line, n)[i] ELSE 0
<1> DEFINE zeros == {i \in 1..n : line[i] = 0}
<1>1. CASE zeros = {}
  <2>1. \A i \in 1..n : line[i] # 0
    BY <1>1
  <2>2. Len(Tiles(line, n)) = n /\ \A i \in 1..n : Tiles(line, n)[i] = line[i]
    <3>1. n \in 0..n
      OBVIOUS
    <3> QED BY <2>1, <3>1, TilesOf
  <2> QED BY <2>2
<1>2. CASE zeros # {}
  <2>1. zeros \in SUBSET Nat
    OBVIOUS
  <2>2. PICK z \in zeros : \A i \in zeros : z <= i
    <3> HIDE DEF zeros
    <3> QED BY <1>2, <2>1, LeastOf
  <2>3. z \in 1..n /\ z - 1 \in 0..n /\ \A i \in 1..z - 1 : line[i] # 0
    BY <2>2
  <2>4. \A i \in z..n : line[i] = 0
    BY <2>2, <2>3 DEF Packed
  <2>5. Tiles(line, n) = Tiles(line, z - 1)
    <3>1. n \in z - 1..n /\ \A i \in (z - 1) + 1..n : line[i] = 0
      BY <2>3, <2>4
    <3> QED BY <2>3, <3>1, TilesOverZeros
  <2>6. Len(Tiles(line, n)) = z - 1 /\ \A i \in 1..z - 1 : Tiles(line, n)[i] = line[i]
    BY <2>3, <2>5, TilesOf
  <2> QED BY <2>3, <2>4, <2>6
<1> QED BY <1>1, <1>2

\* A pass of the loop that shifts keeps the tiles in their order, and packs its cell.
LEMMA PullKeepsTiles ==
  ASSUME NEW n \in Nat, NEW line \in [1..n -> Nat], NEW j \in 1..n, Packed(line, n, j - 1)
  PROVE  /\ Tiles(PullAt(line, j), n) = Tiles(line, n)
         /\ Packed(PullAt(line, j), n, j)
<1>1. CASE Stays(PullAt(line, j), line, n, j)
  BY <1>1 DEF Stays, Packed
<1>2. CASE Pulls(PullAt(line, j), line, n, j)
  <2> DEFINE new == PullAt(line, j)
  <2>1. PICK k \in j + 1..n : /\ new = [line EXCEPT ![j] = line[k], ![k] = 0]
                              /\ line[k] # 0 /\ \A i \in j..k - 1 : line[i] = 0
    BY <1>2 DEF Pulls
  <2>2. new \in [1..n -> Nat]
    BY PullAtIs
  <2>3. k \in 1..n /\ k # j /\ k - 1 \in j..n /\ j - 1 \in 0..n /\ k - 1 \in 0..n
    OBVIOUS
  <2>4. new[j] = line[k] /\ new[k] = 0 /\ \A i \in 1..n : i # j /\ i # k => new[i] = line[i]
    BY <2>1, <2>3
  <2> HIDE DEF new
  <2>5. Tiles(new, j - 1) = Tiles(line, j - 1)
    <3>1. \A i \in 1..j - 1 : new[i] = line[i]
      BY <2>3, <2>4
    <3> QED BY <2>2, <2>3, <3>1, TilesSame
  <2>6. Tiles(new, j) = Append(Tiles(line, j - 1), line[k])
    <3>1. new[j] # 0 => Tiles(new, j) = Append(Tiles(new, j - 1), new[j])
      BY <2>2, TilesStep
    <3> QED BY <2>1, <2>4, <2>5, <3>1
  <2>7. Tiles(new, k) = Tiles(new, j)
    <3>1. j \in 0..n /\ k \in j..n /\ \A i \in j + 1..k : new[i] = 0
      BY <2>1, <2>3, <2>4
    <3> QED BY <2>2, <3>1, TilesOverZeros
  <2>8. Tiles(line, k - 1) = Tiles(line, j - 1)
    <3>1. k - 1 \in j - 1..n /\ \A i \in (j - 1) + 1..k - 1 : line[i] = 0
      BY <2>1, <2>3
    <3> QED BY <2>3, <3>1, TilesOverZeros
  <2>9. Tiles(line, k) = Append(Tiles(line, k - 1), line[k])
    BY <2>1, <2>3, TilesStep
  <2>10. Tiles(new, n) = Tiles(line, n)
    <3>1. k \in 0..n /\ n \in k..n /\ \A i \in k + 1..n : new[i] = line[i]
      BY <2>3, <2>4
    <3>2. Tiles(new, k) = Tiles(line, k)
      BY <2>6, <2>7, <2>8, <2>9
    <3> QED BY <2>2, <3>1, <3>2, TilesAgree
  <2>11. Packed(new, n, j)
    <3>1. \A i \in 1..j - 1 : line[i] # 0
      BY <2>1, <2>3 DEF Packed
    <3>2. \A i \in 1..j : new[i] # 0
      BY <2>1, <2>3, <2>4, <3>1
    <3> QED BY <3>2 DEF Packed
  <2> QED BY <2>10, <2>11 DEF new
<1> QED BY <1>1, <1>2, PullAtIs

\* The loops that shift bring all tiles, in their order, to the side.
LEMMA ShiftedIs ==
  ASSUME NEW n \in Nat \ {0}, NEW line \in [1..n -> Nat]
  PROVE  /\ Shifted(line) \in [1..n -> Nat]
         /\ Tiles(Shifted(line), n) = Tiles(line, n)
         /\ \A i \in 1..n : Shifted(line)[i] =
              IF i <= Len(Tiles(line, n)) THEN Tiles(line, n)[i] ELSE 0
<1>1. PICK h : /\ h[0] = line /\ Shifted(line) = h[n - 1]
               /\ \A j \in 0..n - 1 : h[j] \in [1..n -> Nat]
               /\ \A j \in 1..n - 1 : h[j] = PullAt(h[j - 1], j)
  BY ShiftedRuns
<1> DEFINE T == {j \in 0..n - 1 : Tiles(h[j], n) = Tiles(line, n) /\ Packed(h[j], n, j)}
<1>2. 0 \in T
  BY <1>1 DEF Packed
<1>3. ASSUME NEW j \in 0..(n - 1) - 1, j \in T PROVE j + 1 \in T
  <2>1. j + 1 \in 1..n - 1 /\ j + 1 \in 1..n /\ (j + 1) - 1 = j /\ j \in 0..n - 1 /\ j + 1 \in 0..n - 1
    OBVIOUS
  <2>2. h[j + 1] = PullAt(h[j], j + 1) /\ h[j] \in [1..n -> Nat]
    BY <1>1, <2>1
  <2>3. Tiles(h[j], n) = Tiles(line, n) /\ Packed(h[j], n, (j + 1) - 1)
    BY <1>3, <2>1
  <2>4. Tiles(h[j + 1], n) = Tiles(h[j], n) /\ Packed(h[j + 1], n, j + 1)
    BY <2>1, <2>2, <2>3, PullKeepsTiles
  <2> QED BY <2>1, <2>3, <2>4
<1>4. \A j \in 0..n - 1 : j \in T
  <2>1. n - 1 \in Nat
    OBVIOUS
  <2> HIDE DEF T
  <2> QED BY <1>2, <1>3, <2>1, InductionTo
<1>5. n - 1 \in T /\ n - 1 \in 0..n - 1
  BY <1>4
<1>6. /\ Shifted(line) \in [1..n -> Nat]
      /\ Tiles(Shifted(line), n) = Tiles(line, n)
      /\ Packed(Shifted(line), n, n - 1)
  BY <1>1, <1>5
<1>7. Packed(Shifted(line), n, n)
  BY <1>6 DEF Packed
<1> QED BY <1>6, <1>7, PackedIs

\* What the rules make of a shifted line from cell i on.
FromCell(F, line, n) ==
  /\ F \in [1..n + 2 -> Seq(Nat)] /\ F[n + 1] = <<>> /\ F[n + 2] = <<>>
  /\ \A i \in 1..n :
       IF line[i] = 0 THEN F[i] = <<>> /\ F[i + 1] = <<>>
       ELSE F[i] = IF i < n /\ line[i] = line[i + 1]
                   THEN <<2 * line[i]>> \o F[i + 2] ELSE <<line[i]>> \o F[i + 1]

\* The rules, as a recursion over the cells of the shifted line.
LEMMA RulesOfShifted ==
  ASSUME NEW n \in Nat \ {0}, NEW line \in [1..n -> Nat]
  PROVE  \E F : /\ FromCell(F, Shifted(line), n)
                /\ Rules(line) = [i \in 1..n |-> IF i <= Len(F[1]) THEN F[1][i] ELSE 0]
<1> DEFINE tiles == Tiles(line, n)
           m == Len(tiles)
           s == Shifted(line)
<1>1. PICK f : /\ ByRules(f, tiles)
               /\ Rules(line) = [i \in 1..n |-> IF i <= Len(f[1]) THEN f[1][i] ELSE 0]
  BY RulesRun
<1>2. m \in 0..n /\ tiles \in Seq(Nat) /\ \A i \in 1..m : tiles[i] \in Nat \ {0}
  <2>1. n \in 0..n
    OBVIOUS
  <2> QED BY <2>1, TilesOf, TilesValues
<1>3. s \in [1..n -> Nat] /\ \A i \in 1..n : s[i] = IF i <= m THEN tiles[i] ELSE 0
  BY ShiftedIs
<1> HIDE DEF tiles, s
<1> DEFINE F == [i \in 1..n + 2 |-> IF i <= m THEN f[i] ELSE <<>>]
<1>4. /\ \A i \in 1..m + 2 : f[i] \in Seq(Nat)
      /\ f[m + 1] = <<>> /\ f[m + 2] = <<>>
      /\ \A i \in 1..m : f[i] = IF i < m /\ tiles[i] = tiles[i + 1]
                                THEN <<2 * tiles[i]>> \o f[i + 2] ELSE <<tiles[i]>> \o f[i + 1]
  BY <1>1 DEF ByRules
<1> HIDE DEF m
<1>5. F \in [1..n + 2 -> Seq(Nat)]
  <2>1. \A i \in 1..n + 2 : (IF i <= m THEN f[i] ELSE <<>>) \in Seq(Nat)
    <3> TAKE i \in 1..n + 2
    <3>1. i <= m => i \in 1..m + 2
      BY <1>2
    <3>2. <<>> \in Seq(Nat)
      OBVIOUS
    <3> QED BY <1>4, <3>1, <3>2
  <2> QED BY <2>1
<1>6. \A i \in 1..n + 2 : i <= m + 2 => F[i] = f[i]
  <2> TAKE i \in 1..n + 2
  <2>1. i <= m + 2 => i <= m \/ i = m + 1 \/ i = m + 2
    BY <1>2
  <2> QED BY <1>4, <2>1
<1>7. \A i \in 1..n + 2 : i > m => F[i] = <<>>
  BY <1>2
<1> HIDE DEF F
<1>8. ASSUME NEW i \in 1..n
      PROVE  IF s[i] = 0 THEN F[i] = <<>> /\ F[i + 1] = <<>>
             ELSE F[i] = IF i < n /\ s[i] = s[i + 1]
                         THEN <<2 * s[i]>> \o F[i + 2] ELSE <<s[i]>> \o F[i + 1]
  <2>1. CASE i > m
    <3>1. s[i] = 0 /\ i \in 1..n + 2 /\ i + 1 \in 1..n + 2 /\ i + 1 > m
      BY <1>2, <1>3, <2>1
    <3> QED BY <1>7, <2>1, <3>1
  <2>2. CASE i <= m
    <3>1. /\ i \in 1..m /\ i \in 1..n + 2 /\ i + 1 \in 1..n + 2 /\ i + 2 \in 1..n + 2
          /\ i <= m + 2 /\ i + 1 <= m + 2 /\ i + 2 <= m + 2
      BY <1>2, <2>2
    <3>2. F[i] = f[i] /\ F[i + 1] = f[i + 1] /\ F[i + 2] = f[i + 2]
      BY <1>6, <3>1
    <3>3. s[i] = tiles[i] /\ s[i] # 0
      BY <1>2, <1>3, <2>2, <3>1
    <3>4. (i < n /\ s[i] = s[i + 1]) <=> (i < m /\ tiles[i] = tiles[i + 1])
      <4>1. CASE i < m
        <5>1. i < n /\ i + 1 \in 1..n /\ i + 1 <= m
          BY <1>2, <3>1, <4>1
        <5>2. s[i + 1] = tiles[i + 1]
          BY <1>3, <5>1
        <5> QED BY <3>3, <4>1, <5>1, <5>2
      <4>2. CASE i = m
        <5>1. i < n => s[i + 1] = 0
          BY <1>2, <1>3, <4>2
        <5> QED BY <3>1, <3>3, <4>2, <5>1
      <4> QED BY <1>2, <3>1, <4>1, <4>2
    <3>5. f[i] = IF i < m /\ tiles[i] = tiles[i + 1]
                 THEN <<2 * tiles[i]>> \o f[i + 2] ELSE <<tiles[i]>> \o f[i + 1]
      BY <1>4, <3>1
    <3> QED BY <3>2, <3>3, <3>4, <3>5
  <2> QED BY <1>2, <2>1, <2>2
<1>9. F[n + 1] = <<>> /\ F[n + 2] = <<>>
  <2>1. n + 1 \in 1..n + 2 /\ n + 2 \in 1..n + 2 /\ n + 1 > m /\ n + 2 > m
    BY <1>2
  <2> QED BY <1>7, <2>1
<1>10. FromCell(F, s, n)
  BY <1>5, <1>8, <1>9 DEF FromCell
<1>11. F[1] = f[1]
  <2>1. 1 \in 1..n + 2 /\ 1 <= m + 2
    BY <1>2
  <2> QED BY <1>6, <2>1
<1> QED BY <1>1, <1>10, <1>11 DEF s

-----------------------------------------------------------------------------
(* Merging does what the rules say.                                        *)

\* The loop that merges has come to cell q: what follows is as it was, and the
\* cell itself is, unless its tile has just been merged.
Reached(m, line, n, q) ==
  /\ m \in Merging(n)
  /\ m.line[q] \in {line[q], 0}
  /\ \A i \in q + 1..n : m.line[i] = line[i]

\* The three outcomes of its pass.
Skips(new, m, line, q) == new = m /\ m.line[q] = 0
Keeps(new, m, line, q) ==
  new = m /\ m.line[q] = line[q] /\ line[q] # 0 /\ line[q + 1] # line[q]
Joins(new, m, line, q) ==
  /\ m.line[q] = line[q] /\ line[q] # 0 /\ line[q + 1] = line[q]
  /\ new.line = [m.line EXCEPT ![q] = 2 * line[q], ![q + 1] = 0]
  /\ new.gain = m.gain + line[q]

\* A pass of the loop that merges skips a cell, keeps its tile, or joins it to the next.
LEMMA MergePass ==
  ASSUME NEW n \in Nat, NEW line \in [1..n -> Nat], NEW q \in 1..n - 1, NEW m,
         Reached(m, line, n, q)
  PROVE  /\ Reached(MergeAt(m, q), line, n, q + 1)
         /\ \A i \in 1..q - 1 : MergeAt(m, q).line[i] = m.line[i]
         /\ \/ Skips(MergeAt(m, q), m, line, q) \/ Keeps(MergeAt(m, q), m, line, q)
            \/ Joins(MergeAt(m, q), m, line, q)
<1> DEFINE new == MergeAt(m, q)
<1>1. /\ m \in Merging(n) /\ m.line[q] \in {line[q], 0}
      /\ \A i \in q + 1..n : m.line[i] = line[i]
  BY DEF Reached
<1>2. q + 1 \in q + 1..n /\ q \in 1..n /\ q + 1 \in 1..n
  OBVIOUS
<1>3. new \in Merging(n) /\ m.line \in [1..n -> Nat] /\ new.line \in [1..n -> Nat]
  <2>1. new \in Merging(n)
    BY <1>1, MergeAtIs
  <2> HIDE DEF new
  <2> QED BY <1>1, <2>1 DEF Merging
<1>4. m.line[q + 1] = line[q + 1]
  BY <1>1, <1>2
<1> HIDE DEF new
<1>5. CASE Unmerged(new, m, q)
  <2>1. new = m /\ (m.line[q] # m.line[q + 1] \/ m.line[q] = 0)
    BY <1>5 DEF Unmerged
  <2>2. Reached(new, line, n, q + 1)
    BY <1>1, <1>2, <1>4, <2>1 DEF Reached
  <2>3. Skips(new, m, line, q) \/ Keeps(new, m, line, q)
    BY <1>1, <1>4, <2>1 DEF Skips, Keeps
  <2> QED BY <2>1, <2>2, <2>3 DEF new
<1>6. CASE Doubled(new, m, q)
  <2>1. /\ m.line[q] = m.line[q + 1] /\ m.line[q] # 0
        /\ new.line = [m.line EXCEPT ![q] = 2 * m.line[q], ![q + 1] = 0]
        /\ new.gain = m.gain + m.line[q]
    BY <1>6 DEF Doubled
  <2>2. m.line[q] = line[q] /\ line[q + 1] = line[q] /\ line[q] # 0
    BY <1>1, <1>4, <2>1
  <2>3. Joins(new, m, line, q)
    BY <2>1, <2>2 DEF Joins
  <2>4. new.line[q + 1] = 0 /\ \A i \in 1..n : i # q /\ i # q + 1 => new.line[i] = m.line[i]
    BY <1>2, <1>3, <2>1
  <2>5. Reached(new, line, n, q + 1)
    BY <1>1, <1>3, <2>4 DEF Reached
  <2>6. \A i \in 1..q - 1 : new.line[i] = m.line[i]
    BY <1>2, <2>4
  <2> QED BY <2>3, <2>5, <2>6 DEF new
<1>7. Unmerged(new, m, q) \/ Doubled(new, m, q)
  BY <1>1, MergeAtIs DEF new
<1> QED BY <1>5, <1>6, <1>7

\* The states of the loop that merges.
LEMMA Passes ==
  ASSUME NEW n \in Nat \ {0}, NEW line \in [1..n -> Nat]
  PROVE  \E h : /\ h[0] = [line |-> line, gain |-> 0] /\ Merged(line) = h[n - 1]
                /\ \A j \in 0..n - 1 : Reached(h[j], line, n, j + 1)
                /\ \A j \in 1..n - 1 : h[j] = MergeAt(h[j - 1], j)
<1>1. PICK h : /\ h[0] = [line |-> line, gain |-> 0] /\ Merged(line) = h[n - 1]
               /\ \A j \in 0..n - 1 : h[j] \in Merging(n)
               /\ \A j \in 1..n - 1 : h[j] = MergeAt(h[j - 1], j)
  BY MergedRuns
<1> DEFINE T == {j \in 0..n - 1 : Reached(h[j], line, n, j + 1)}
<1>2. 0 \in T
  BY <1>1 DEF Reached
<1>3. ASSUME NEW j \in 0..(n - 1) - 1, j \in T PROVE j + 1 \in T
  <2>1. j + 1 \in 1..n - 1 /\ (j + 1) - 1 = j /\ j + 1 \in 0..n - 1
    OBVIOUS
  <2> DEFINE k == j + 1
  <2>2. h[k] = MergeAt(h[j], k) /\ Reached(h[j], line, n, k) /\ k \in 1..n - 1
    BY <1>1, <1>3, <2>1
  <2> HIDE DEF k
  <2>3. Reached(MergeAt(h[j], k), line, n, k + 1)
    BY <2>2, MergePass
  <2> QED BY <2>1, <2>2, <2>3 DEF k
<1>4. \A j \in 0..n - 1 : j \in T
  <2>1. n - 1 \in Nat
    OBVIOUS
  <2> HIDE DEF T
  <2> QED BY <1>2, <1>3, <2>1, InductionTo
<1> QED BY <1>1, <1>4

\* Which cell the rules are to go on with.
NextCell(m, line, q) == IF m.line[q] = line[q] THEN q ELSE q + 1

\* The tiles before cell q and what the rules make of the rest.
SoFar(m, F, line, q) == Tiles(m.line, q - 1) \o F[NextCell(m, line, q)] = F[1]

\* Append in front of a concatenation.
LEMMA AppendThenConcat ==
  ASSUME NEW s \in Seq(Nat), NEW v \in Nat, NEW t \in Seq(Nat)
  PROVE  Append(s, v) \o t = s \o (<<v>> \o t)
<1>1. <<v>> \in Seq(Nat) /\ Append(s, v) = s \o <<v>>
  BY AppendIsConcat
<1> QED BY <1>1, ConcatAssociative

\* Each pass of the loop that merges does what the rules say of its cell.
LEMMA PassByRules ==
  ASSUME NEW n \in Nat, NEW line \in [1..n -> Nat], NEW q \in 1..n - 1, NEW m, NEW F,
         Reached(m, line, n, q), FromCell(F, line, n), SoFar(m, F, line, q)
  PROVE  SoFar(MergeAt(m, q), F, line, q + 1)
<1> DEFINE new == MergeAt(m, q)
           a   == m.line
           b   == new.line
<1>1. /\ Reached(new, line, n, q + 1)
      /\ \A i \in 1..q - 1 : b[i] = a[i]
      /\ Skips(new, m, line, q) \/ Keeps(new, m, line, q) \/ Joins(new, m, line, q)
  BY MergePass
<1> HIDE DEF new
<1>2. a \in [1..n -> Nat] /\ b \in [1..n -> Nat] /\ line[q] \in Nat
  <2>1. m \in Merging(n) /\ new \in Merging(n)
    BY <1>1 DEF Reached
  <2>2. a \in [1..n -> Nat] /\ b \in [1..n -> Nat]
    BY <2>1 DEF Merging
  <2>3. q \in 1..n
    OBVIOUS
  <2> QED BY <2>2, <2>3
<1>3. /\ q \in 1..n /\ q < n /\ q + 1 \in q + 1..n /\ q + 1 \in 1..n + 2 /\ q + 2 \in 1..n + 2
      /\ (q + 1) - 1 = q /\ (q + 1) + 1 = q + 2 /\ q - 1 \in 0..n
  OBVIOUS
<1>4. a[q + 1] = line[q + 1]
  BY <1>3 DEF Reached
<1>5. /\ SoFar(m, F, line, q) <=>
           Tiles(a, q - 1) \o F[IF a[q] = line[q] THEN q ELSE q + 1] = F[1]
      /\ SoFar(new, F, line, q + 1) <=>
           Tiles(b, q) \o F[IF b[q + 1] = line[q + 1] THEN q + 1 ELSE q + 2] = F[1]
  BY <1>3 DEF SoFar, NextCell
<1>6. /\ Skips(new, m, line, q) => b = a /\ a[q] = 0
      /\ Keeps(new, m, line, q) =>
           b = a /\ a[q] = line[q] /\ line[q] # 0 /\ line[q + 1] # line[q]
      /\ Joins(new, m, line, q) =>
           /\ a[q] = line[q] /\ line[q] # 0 /\ line[q + 1] = line[q]
           /\ b = [a EXCEPT ![q] = 2 * line[q], ![q + 1] = 0]
  BY DEF Skips, Keeps, Joins
<1> HIDE DEF a, b
<1>7. Tiles(a, q - 1) \in Seq(Nat)
  BY <1>2, <1>3, TilesValues
<1>8. IF line[q] = 0 THEN F[q] = <<>> /\ F[q + 1] = <<>>
      ELSE F[q] = IF line[q] = line[q + 1] THEN <<2 * line[q]>> \o F[q + 2] ELSE <<line[q]>> \o F[q + 1]
  BY <1>3 DEF FromCell
<1>9. F[q + 1] \in Seq(Nat) /\ F[q + 2] \in Seq(Nat)
  BY <1>3 DEF FromCell
<1>10. Tiles(a, q - 1) \o F[IF a[q] = line[q] THEN q ELSE q + 1] = F[1]
  BY <1>5
<1>11. CASE Skips(new, m, line, q)
  <2>1. b = a /\ a[q] = 0
    BY <1>6, <1>11
  <2>2. Tiles(b, q) = Tiles(a, q - 1)
    BY <1>2, <1>3, <2>1, TilesStep
  <2>3. F[IF a[q] = line[q] THEN q ELSE q + 1] = F[q + 1]
    BY <1>8, <2>1
  <2> QED BY <1>4, <1>5, <1>10, <2>1, <2>2, <2>3 DEF new
<1>12. CASE Keeps(new, m, line, q)
  <2>1. b = a /\ a[q] = line[q] /\ line[q] # 0 /\ line[q + 1] # line[q]
    BY <1>6, <1>12
  <2>2. Tiles(b, q) = Append(Tiles(a, q - 1), line[q])
    <3>1. Tiles(a, q) = Append(Tiles(a, q - 1), a[q])
      BY <1>2, <1>3, <2>1, TilesStep
    <3> QED BY <2>1, <3>1
  <2>3. F[q] = <<line[q]>> \o F[q + 1]
    BY <1>8, <2>1
  <2>4. Append(Tiles(a, q - 1), line[q]) \o F[q + 1] = Tiles(a, q - 1) \o F[q]
    <3>1. Append(Tiles(a, q - 1), line[q]) \o F[q + 1] = Tiles(a, q - 1) \o (<<line[q]>> \o F[q + 1])
      BY <1>2, <1>7, <1>9, AppendThenConcat
    <3> QED BY <2>3, <3>1
  <2> QED BY <1>4, <1>5, <1>10, <2>1, <2>2, <2>4 DEF new
<1>13. CASE Joins(new, m, line, q)
  <2>1. /\ a[q] = line[q] /\ line[q] # 0 /\ line[q + 1] = line[q]
        /\ b = [a EXCEPT ![q] = 2 * line[q], ![q + 1] = 0]
    BY <1>6, <1>13
  <2>2. b[q] = 2 * line[q] /\ 2 * line[q] # 0 /\ 2 * line[q] \in Nat /\ b[q + 1] = 0
    BY <1>2, <1>3, <2>1
  <2>3. Tiles(b, q - 1) = Tiles(a, q - 1)
    <3>1. \A i \in 1..q - 1 : b[i] = a[i]
      BY <1>1 DEF a, b
    <3> QED BY <1>2, <1>3, <3>1, TilesSame
  <2>4. Tiles(b, q) = Append(Tiles(a, q - 1), 2 * line[q])
    <3>1. Tiles(b, q) = Append(Tiles(b, q - 1), b[q])
      BY <1>2, <1>3, <2>2, TilesStep
    <3> QED BY <2>2, <2>3, <3>1
  <2>5. F[q] = <<2 * line[q]>> \o F[q + 2]
    BY <1>8, <2>1
  <2>6. Append(Tiles(a, q - 1), 2 * line[q]) \o F[q + 2] = Tiles(a, q - 1) \o F[q]
    <3> DEFINE v == 2 * line[q]
    <3>1. v \in Nat
      BY <2>2
    <3> HIDE DEF v
    <3>2. Append(Tiles(a, q - 1), v) \o F[q + 2] = Tiles(a, q - 1) \o (<<v>> \o F[q + 2])
      BY <1>7, <1>9, <3>1, AppendThenConcat
    <3> QED BY <2>5, <3>2 DEF v
  <2> QED BY <1>5, <1>10, <2>1, <2>2, <2>4, <2>6 DEF new
<1> QED BY <1>1, <1>11, <1>12, <1>13

\* The tiles after the loop that merges are those that the rules name.
LEMMA MergedByRules ==
  ASSUME NEW n \in Nat \ {0}, NEW line \in [1..n -> Nat], NEW F, FromCell(F, line, n)
  PROVE  Merged(line) \in Merging(n) /\ Tiles(Merged(line).line, n) = F[1]
<1>1. PICK h : /\ h[0] = [line |-> line, gain |-> 0] /\ Merged(line) = h[n - 1]
               /\ \A j \in 0..n - 1 : Reached(h[j], line, n, j + 1)
               /\ \A j \in 1..n - 1 : h[j] = MergeAt(h[j - 1], j)
  BY Passes
<1> DEFINE T == {j \in 0..n - 1 : SoFar(h[j], F, line, j + 1)}
<1>2. 0 \in T
  <2>1. Tiles(line, 0) = <<>>
    BY TilesValues
  <2>2. F[1] \in Seq(Nat)
    BY DEF FromCell
  <2>3. Tiles(line, 0) \o F[1] = F[1]
    BY <2>1, <2>2, ConcatEmptySeq
  <2>4. h[0].line = line /\ 0 + 1 = 1 /\ 1 - 1 = 0
    BY <1>1
  <2>5. SoFar(h[0], F, line, 1)
    BY <2>3, <2>4 DEF SoFar, NextCell
  <2> QED BY <2>4, <2>5
<1>3. ASSUME NEW j \in 0..(n - 1) - 1, j \in T PROVE j + 1 \in T
  <2>1. j + 1 \in 1..n - 1 /\ (j + 1) - 1 = j /\ j \in 0..n - 1 /\ j + 1 \in 0..n - 1
    OBVIOUS
  <2> DEFINE k == j + 1
  <2>2. /\ h[k] = MergeAt(h[j], k) /\ Reached(h[j], line, n, k) /\ SoFar(h[j], F, line, k)
        /\ k \in 1..n - 1
    BY <1>1, <1>3, <2>1
  <2> HIDE DEF k
  <2>3. SoFar(h[k], F, line, k + 1)
    BY <2>2, PassByRules
  <2> QED BY <2>1, <2>3 DEF k
<1>4. \A j \in 0..n - 1 : j \in T
  <2>1. n - 1 \in Nat
    OBVIOUS
  <2> HIDE DEF T
  <2> QED BY <1>2, <1>3, <2>1, InductionTo
<1> DEFINE m == Merged(line)
<1>5. Reached(m, line, n, n) /\ SoFar(m, F, line, n)
  <2>1. n - 1 \in 0..n - 1 /\ (n - 1) + 1 = n
    OBVIOUS
  <2> QED BY <1>1, <1>4, <2>1
<1> HIDE DEF m, T
<1> DEFINE a == m.line
<1>6. m \in Merging(n) /\ a \in [1..n -> Nat] /\ a[n] \in {line[n], 0}
  BY <1>5 DEF Reached, Merging
<1>7. Tiles(a, n - 1) \o F[IF a[n] = line[n] THEN n ELSE n + 1] = F[1]
  BY <1>5 DEF SoFar, NextCell
<1> HIDE DEF a
<1>8. n \in 1..n /\ n - 1 \in 0..n /\ line[n] \in Nat /\ ~(n < n)
  OBVIOUS
<1>9. F[n + 1] = <<>> /\ IF line[n] = 0 THEN F[n] = <<>> ELSE F[n] = <<line[n]>> \o F[n + 1]
  BY <1>8 DEF FromCell
<1>10. Tiles(a, n - 1) \in Seq(Nat)
  BY <1>6, <1>8, TilesValues
<1>11. CASE a[n] = 0
  <2>1. F[IF a[n] = line[n] THEN n ELSE n + 1] = <<>>
    BY <1>9, <1>11
  <2>2. Tiles(a, n) = Tiles(a, n - 1)
    BY <1>6, <1>8, <1>11, TilesStep
  <2> QED BY <1>6, <1>7, <1>10, <2>1, <2>2, ConcatEmptySeq DEF m, a
<1>12. CASE a[n] # 0
  <2>1. a[n] = line[n] /\ line[n] # 0
    BY <1>6, <1>12
  <2>2. <<line[n]>> \in Seq(Nat) /\ F[n] = <<line[n]>>
    BY <1>8, <1>9, <2>1, ConcatEmptySeq
  <2>3. Tiles(a, n) = Append(Tiles(a, n - 1), line[n])
    <3>1. Tiles(a, n) = Append(Tiles(a, n - 1), a[n])
      BY <1>6, <1>8, <2>1, TilesStep
    <3> QED BY <2>1, <3>1
  <2>4. Append(Tiles(a, n - 1), line[n]) = Tiles(a, n - 1) \o <<line[n]>>
    BY <1>8, <1>10, AppendIsConcat
  <2> QED BY <1>6, <1>7, <2>1, <2>2, <2>3, <2>4 DEF m, a
<1> QED BY <1>11, <1>12

\* The three loops of a move do what the rules say.
THEOREM PushedByRules ==
  ASSUME NEW n \in Nat \ {0}, NEW line \in [1..n -> Nat]
  PROVE  /\ Pushed(line).line = Rules(line)
         /\ Pushed(line).line \in [1..n -> Nat] /\ Pushed(line).gain \in Nat
<1>1. PICK F : /\ FromCell(F, Shifted(line), n)
               /\ Rules(line) = [i \in 1..n |-> IF i <= Len(F[1]) THEN F[1][i] ELSE 0]
  BY RulesOfShifted
<1> DEFINE m == Merged(Shifted(line))
<1>2. m \in Merging(n) /\ Tiles(m.line, n) = F[1]
  BY <1>1, ShiftedIs, MergedByRules
<1>3. Pushed(line) = [line |-> Shifted(m.line), gain |-> m.gain]
  BY DEF Pushed
<1> HIDE DEF m
<1>4. m.line \in [1..n -> Nat] /\ m.gain \in Nat
  BY <1>2 DEF Merging
<1>5. /\ Shifted(m.line) \in [1..n -> Nat]
      /\ \A i \in 1..n : Shifted(m.line)[i] = IF i <= Len(F[1]) THEN F[1][i] ELSE 0
  BY <1>2, <1>4, ShiftedIs
<1>6. Shifted(m.line) = Rules(line)
  BY <1>1, <1>5
<1> QED BY <1>3, <1>4, <1>5, <1>6

\* A full line stays as it is just if no two neighbours are equal.
LEMMA FullLine ==
  ASSUME NEW n \in Nat \ {0}, NEW line \in [1..n -> Nat], \A i \in 1..n : line[i] # 0
  PROVE  Pushed(line).line = line <=> \A i \in 1..n - 1 : line[i] # line[i + 1]
<1>1. Shifted(line) = line
  <2>1. n \in 0..n
    OBVIOUS
  <2>2. Len(Tiles(line, n)) = n /\ \A i \in 1..n : Tiles(line, n)[i] = line[i]
    BY <2>1, TilesOf
  <2> QED BY <2>2, ShiftedIs
<1>2. PICK h : /\ h[0] = [line |-> line, gain |-> 0] /\ Merged(line) = h[n - 1]
               /\ \A j \in 0..n - 1 : Reached(h[j], line, n, j + 1)
               /\ \A j \in 1..n - 1 : h[j] = MergeAt(h[j - 1], j)
  BY Passes
<1>3. Pushed(line).line = Shifted(Merged(line).line)
  BY <1>1 DEF Pushed
<1>4. n - 1 \in Nat /\ n - 1 \in 0..n - 1 /\ (n - 1) + 1 = n
  OBVIOUS
<1>5. Merged(line).line \in [1..n -> Nat]
  BY <1>2, <1>4 DEF Reached, Merging
\* What a pass does to the line.
<1>6. ASSUME NEW q \in 1..n - 1
      PROVE  /\ \A i \in 1..q - 1 : h[q].line[i] = h[q - 1].line[i]
             /\ \/ h[q].line = h[q - 1].line /\ h[q - 1].line[q] = 0
                \/ h[q].line = h[q - 1].line /\ line[q + 1] # line[q] /\ h[q - 1].line[q] # 0
                \/ line[q + 1] = line[q] /\ h[q].line[q + 1] = 0 /\ h[q - 1].line[q] # 0
  <2>1. q - 1 \in 0..n - 1 /\ (q - 1) + 1 = q /\ q + 1 \in 1..n
    OBVIOUS
  <2>2. Reached(h[q - 1], line, n, q) /\ h[q] = MergeAt(h[q - 1], q)
    BY <1>2, <2>1
  <2> DEFINE m == h[q - 1]
  <2> HIDE DEF m
  <2>3. Reached(m, line, n, q) /\ h[q] = MergeAt(m, q)
    BY <2>2 DEF m
  <2>4. /\ \A i \in 1..q - 1 : h[q].line[i] = m.line[i]
        /\ Skips(h[q], m, line, q) \/ Keeps(h[q], m, line, q) \/ Joins(h[q], m, line, q)
    BY <2>3, MergePass
  <2>5. m.line \in [1..n -> Nat]
    BY <2>3 DEF Reached, Merging
  <2>6. Joins(h[q], m, line, q) => line[q + 1] = line[q] /\ h[q].line[q + 1] = 0 /\ m.line[q] # 0
    BY <2>1, <2>5 DEF Joins
  <2>7. /\ Skips(h[q], m, line, q) => h[q].line = m.line /\ m.line[q] = 0
        /\ Keeps(h[q], m, line, q) => h[q].line = m.line /\ line[q + 1] # line[q] /\ m.line[q] # 0
    BY DEF Skips, Keeps
  <2> QED BY <2>4, <2>6, <2>7 DEF m
<1>7. ASSUME \A i \in 1..n - 1 : line[i] # line[i + 1]
      PROVE  Pushed(line).line = line
  <2> DEFINE T == {j \in 0..n - 1 : h[j].line = line}
  <2>1. 0 \in T
    BY <1>2
  <2>2. ASSUME NEW j \in 0..(n - 1) - 1, j \in T PROVE j + 1 \in T
    <3>1. j + 1 \in 1..n - 1 /\ (j + 1) - 1 = j /\ j + 1 \in 0..n - 1 /\ j + 1 \in 1..n
      OBVIOUS
    <3>2. h[j].line = line
      BY <2>2
    <3> DEFINE k == j + 1
    <3>3. k \in 1..n - 1 /\ k - 1 = j /\ line[k] # 0 /\ line[k] # line[k + 1]
      BY <1>7, <3>1
    <3> HIDE DEF k
    <3>4. h[k].line = h[k - 1].line
      BY <1>6, <3>2, <3>3
    <3> QED BY <3>1, <3>2, <3>3, <3>4 DEF k
  <2>3. \A j \in 0..n - 1 : j \in T
    <3> HIDE DEF T
    <3> QED BY <1>4, <2>1, <2>2, InductionTo
  <2>4. n - 1 \in T
    BY <1>4, <2>3
  <2> QED BY <1>1, <1>2, <1>3, <2>4
<1>8. ASSUME NEW q \in 1..n - 1, line[q] = line[q + 1]
      PROVE  Pushed(line).line # line
  <2> DEFINE Lost(j) == \E p \in 1..j + 1 : h[j].line[p] = 0
             T == {j \in 0..n - 1 : j >= q => Lost(j)}
  <2>1. 0 \in T
    OBVIOUS
  <2>2. ASSUME NEW j \in 0..(n - 1) - 1, j \in T PROVE j + 1 \in T
    <3> DEFINE k == j + 1
    <3>1. k \in 1..n - 1 /\ k - 1 = j /\ k \in 0..n - 1 /\ k \in 1..k + 1 /\ k + 1 \in 1..k + 1
      OBVIOUS
    <3>2. j >= q => \E p \in 1..k : h[k - 1].line[p] = 0
      BY <2>2, <3>1
    <3>3. k >= q => j >= q \/ k = q
      OBVIOUS
    <3> HIDE DEF k
    <3>4. CASE k = q
      <4>1. h[k].line[k] = 0 \/ h[k].line[k + 1] = 0
        BY <1>6, <1>8, <3>1, <3>4
      <4> QED BY <3>1, <4>1 DEF k
    <3>5. CASE j >= q
      <4>1. PICK p \in 1..k : h[k - 1].line[p] = 0
        BY <3>2, <3>5
      <4>2. CASE p = k
        <5>1. h[k].line[k] = 0
          BY <1>6, <3>1, <4>1, <4>2
        <5> QED BY <3>1, <5>1 DEF k
      <4>3. CASE p # k
        <5>1. p \in 1..k - 1 /\ p \in 1..k + 1
          BY <3>1, <4>3
        <5>2. h[k].line[p] = 0
          BY <1>6, <3>1, <4>1, <5>1
        <5> QED BY <3>1, <5>1, <5>2 DEF k
      <4> QED BY <4>2, <4>3
    <3>6. CASE ~(k >= q)
      BY <3>1, <3>6 DEF k
    <3> QED BY <3>3, <3>4, <3>5, <3>6
  <2>3. \A j \in 0..n - 1 : j \in T
    <3> HIDE DEF T
    <3> QED BY <1>4, <2>1, <2>2, InductionTo
  <2>4. Lost(n - 1)
    <3>1. n - 1 >= q
      OBVIOUS
    <3> QED BY <1>4, <2>3, <3>1
  <2> DEFINE a == Merged(line).line
  <2>5. \E p \in 1..n : a[p] = 0
    BY <1>2, <1>4, <2>4
  <2> HIDE DEF a
  <2>6. a \in [1..n -> Nat]
    BY <1>5 DEF a
  <2>7. Len(Tiles(a, n)) < n
    <3>1. n \in 0..n
      OBVIOUS
    <3> QED BY <2>5, <2>6, <3>1, TilesOf
  <2>8. Shifted(a)[n] = 0
    <3>1. n \in 1..n /\ Tiles(a, n) \in Seq(Nat) /\ Len(Tiles(a, n)) \in Nat
      BY <2>6, TilesValues
    <3>2. Shifted(a)[n] = IF n <= Len(Tiles(a, n)) THEN Tiles(a, n)[n] ELSE 0
      BY <2>6, <3>1, ShiftedIs
    <3> QED BY <2>7, <3>1, <3>2
  <2> QED BY <1>3, <2>8 DEF a
<1> QED BY <1>7, <1>8

-----------------------------------------------------------------------------
(* Sums.                                                                   *)

\* One number more.
LEMMA SumStep ==
  ASSUME NEW f, NEW n \in Nat, \A i \in 1..n : f[i] \in Int, NEW k \in 0..n - 1
  PROVE  /\ SumTo(f, k) \in Int /\ f[k + 1] \in Int
         /\ SumTo(f, k + 1) = SumTo(f, k) + f[k + 1]
<1> DEFINE j == k + 1
<1>1. j \in 1..n /\ j - 1 = k /\ k \in 0..n
  OBVIOUS
<1> HIDE DEF j
<1>2. SumTo(f, j) = SumTo(f, j - 1) + f[j] /\ SumTo(f, k) \in Int /\ f[j] \in Int
  BY <1>1, SumToValues
<1> QED BY <1>1, <1>2 DEF j

\* Each term below the sum of two others, one of them with a factor.
LEMMA SumLeq ==
  ASSUME NEW f, NEW g, NEW h, NEW c \in Int, NEW n \in Nat,
         \A i \in 1..n : f[i] \in Int /\ g[i] \in Int /\ h[i] \in Int /\ f[i] <= g[i] + c * h[i]
  PROVE  /\ SumTo(f, n) \in Int /\ SumTo(g, n) \in Int /\ SumTo(h, n) \in Int
         /\ SumTo(f, n) <= SumTo(g, n) + c * SumTo(h, n)
<1> DEFINE T == {k \in 0..n : SumTo(f, k) <= SumTo(g, k) + c * SumTo(h, k)}
<1>1. SumTo(f, 0) = 0 /\ SumTo(g, 0) = 0 /\ SumTo(h, 0) = 0
  BY SumToValues
<1>2. 0 \in T
  <2>1. c * 0 = 0
    OBVIOUS
  <2> QED BY <1>1, <2>1
<1>3. ASSUME NEW k \in 0..n - 1, k \in T PROVE k + 1 \in T
  <2>1. /\ SumTo(f, k) \in Int /\ f[k + 1] \in Int /\ SumTo(f, k + 1) = SumTo(f, k) + f[k + 1]
        /\ SumTo(g, k) \in Int /\ g[k + 1] \in Int /\ SumTo(g, k + 1) = SumTo(g, k) + g[k + 1]
        /\ SumTo(h, k) \in Int /\ h[k + 1] \in Int /\ SumTo(h, k + 1) = SumTo(h, k) + h[k + 1]
    BY SumStep
  <2>2. k + 1 \in 1..n /\ f[k + 1] <= g[k + 1] + c * h[k + 1]
    OBVIOUS
  <2>3. SumTo(f, k) <= SumTo(g, k) + c * SumTo(h, k)
    BY <1>3
  <2>4. c * (SumTo(h, k) + h[k + 1]) = c * SumTo(h, k) + c * h[k + 1]
    BY <2>1
  <2>5. c * SumTo(h, k) \in Int /\ c * h[k + 1] \in Int
    BY <2>1
  <2>6. SumTo(f, k + 1) <= SumTo(g, k + 1) + c * SumTo(h, k + 1)
    BY <2>1, <2>2, <2>3, <2>4, <2>5
  <2> QED BY <2>2, <2>6
<1>4. \A k \in 0..n : k \in T
  <2> HIDE DEF T
  <2> QED BY <1>2, <1>3, InductionTo
<1>5. n \in T /\ n \in 0..n
  BY <1>4
<1> QED BY <1>5, SumToValues

\* Equal numbers have equal sums.
LEMMA SumSame ==
  ASSUME NEW f, NEW g, NEW n \in Nat, \A i \in 1..n : f[i] \in Int /\ g[i] = f[i]
  PROVE  SumTo(f, n) \in Int /\ SumTo(g, n) = SumTo(f, n)
<1>1. 0 \in Int /\ \A i \in 1..n : /\ f[i] \in Int /\ g[i] \in Int
                                 /\ f[i] <= g[i] + 0 * f[i] /\ g[i] <= f[i] + 0 * f[i]
  OBVIOUS
<1> DEFINE c == 0
<1>2. c \in Int /\ \A i \in 1..n : /\ f[i] \in Int /\ g[i] \in Int
                                 /\ f[i] <= g[i] + c * f[i] /\ g[i] <= f[i] + c * f[i]
  BY <1>1
<1> HIDE DEF c
<1>3. /\ SumTo(f, n) \in Int /\ SumTo(g, n) \in Int
      /\ SumTo(f, n) <= SumTo(g, n) + c * SumTo(f, n)
      /\ SumTo(g, n) <= SumTo(f, n) + c * SumTo(f, n)
  BY <1>2, SumLeq
<1> QED BY <1>3 DEF c

\* The sum of sums.
LEMMA SumPlus ==
  ASSUME NEW f, NEW g, NEW h, NEW n \in Nat,
         \A i \in 1..n : f[i] \in Int /\ g[i] \in Int /\ h[i] = f[i] + g[i]
  PROVE  /\ SumTo(f, n) \in Int /\ SumTo(g, n) \in Int
         /\ SumTo(h, n) = SumTo(f, n) + SumTo(g, n)
<1> DEFINE one == 1
           minus == -1
<1>1. one \in Int /\ minus \in Int
      /\ \A i \in 1..n : /\ f[i] \in Int /\ g[i] \in Int /\ h[i] \in Int
                         /\ h[i] <= f[i] + one * g[i] /\ f[i] <= h[i] + minus * g[i]
  OBVIOUS
<1> HIDE DEF one, minus
<1>2. /\ SumTo(f, n) \in Int /\ SumTo(g, n) \in Int /\ SumTo(h, n) \in Int
      /\ SumTo(h, n) <= SumTo(f, n) + one * SumTo(g, n)
      /\ SumTo(f, n) <= SumTo(h, n) + minus * SumTo(g, n)
  BY <1>1, SumLeq
<1> QED BY <1>2 DEF one, minus

\* One term is replaced.
LEMMA SumExcept ==
  ASSUME NEW f, NEW g, NEW n \in Nat, NEW j \in 1..n,
         \A i \in 1..n : f[i] \in Int /\ g[i] \in Int /\ (i # j => g[i] = f[i])
  PROVE  /\ SumTo(f, n) \in Int
         /\ SumTo(g, n) = SumTo(f, n) + g[j] - f[j]
<1> DEFINE T == {k \in 0..n : SumTo(g, k) = IF k < j THEN SumTo(f, k) ELSE SumTo(f, k) + g[j] - f[j]}
<1>1. 0 \in T
  <2>1. SumTo(f, 0) = 0 /\ SumTo(g, 0) = 0
    BY SumToValues
  <2> QED BY <2>1
<1>2. ASSUME NEW k \in 0..n - 1, k \in T PROVE k + 1 \in T
  <2>1. /\ SumTo(f, k) \in Int /\ f[k + 1] \in Int /\ SumTo(f, k + 1) = SumTo(f, k) + f[k + 1]
        /\ SumTo(g, k) \in Int /\ g[k + 1] \in Int /\ SumTo(g, k + 1) = SumTo(g, k) + g[k + 1]
    BY SumStep
  <2>2. SumTo(g, k) = IF k < j THEN SumTo(f, k) ELSE SumTo(f, k) + g[j] - f[j]
    BY <1>2
  <2>3. k + 1 \in 1..n /\ k + 1 \in 0..n /\ g[j] \in Int /\ f[j] \in Int
    OBVIOUS
  <2>4. k + 1 # j => g[k + 1] = f[k + 1]
    BY <2>3
  <2>5. SumTo(g, k + 1) = IF k + 1 < j THEN SumTo(f, k + 1) ELSE SumTo(f, k + 1) + g[j] - f[j]
    <3>1. CASE k + 1 = j
      BY <2>1, <2>2, <2>3, <3>1
    <3>2. CASE k + 1 # j
      <4>1. k < j <=> k + 1 < j
        BY <3>2
      <4> QED BY <2>1, <2>2, <2>3, <2>4, <3>2, <4>1
    <3> QED BY <3>1, <3>2
  <2> QED BY <2>3, <2>5
<1>3. \A k \in 0..n : k \in T
  <2> HIDE DEF T
  <2> QED BY <1>1, <1>2, InductionTo
<1>4. n \in 0..n /\ n \in T /\ ~(n < j)
  BY <1>3
<1> QED BY <1>4, SumToValues

\* Nothing but zeros.
LEMMA SumZero ==
  ASSUME NEW f, NEW n \in Nat, \A i \in 1..n : f[i] = 0
  PROVE  SumTo(f, n) = 0
<1> DEFINE T == {k \in 0..n : SumTo(f, k) = 0}
<1>1. \A i \in 1..n : f[i] \in Int
  OBVIOUS
<1>2. SumTo(f, 0) = 0
  BY Zenon, <1>1, SumToValues
<1>3. ASSUME NEW k \in 0..n - 1, k \in T PROVE k + 1 \in T
  <2>1. SumTo(f, k + 1) = SumTo(f, k) + f[k + 1]
    BY Zenon, <1>1, SumStep
  <2>2. k + 1 \in 1..n /\ k + 1 \in 0..n /\ SumTo(f, k) = 0 /\ 0 + 0 = 0
    BY <1>3
  <2>3. f[k + 1] = 0
    BY Zenon, <2>2
  <2>4. SumTo(f, k + 1) = 0
    BY Zenon, <2>1, <2>2, <2>3
  <2> QED BY <2>2, <2>4
<1>4. 0 \in T
  BY <1>2
<1>5. \A k \in 0..n : k \in T
  <2> HIDE DEF T
  <2> QED BY <1>3, <1>4, InductionTo
<1>6. n \in T
  <2> HIDE DEF T
  <2> QED BY <1>5
<1> QED BY <1>6

\* A sum of numbers from 0 to b.
LEMMA SumBounds ==
  ASSUME NEW f, NEW n \in Nat, NEW b \in Nat, \A i \in 1..n : f[i] \in 0..b
  PROVE  /\ SumTo(f, n) \in 0..n * b
         /\ \A i \in 1..n : f[i] <= SumTo(f, n)
<1> DEFINE T == {k \in 0..n : SumTo(f, k) \in 0..k * b /\ \A i \in 1..k : f[i] <= SumTo(f, k)}
<1>1. \A i \in 1..n : f[i] \in Int
  OBVIOUS
<1>2. 0 \in T
  <2>1. SumTo(f, 0) = 0
    BY Zenon, <1>1, SumToValues
  <2> QED BY <2>1
<1>3. ASSUME NEW k \in 0..n - 1, k \in T PROVE k + 1 \in T
  <2>1. SumTo(f, k) \in Int /\ f[k + 1] \in Int /\ SumTo(f, k + 1) = SumTo(f, k) + f[k + 1]
    BY SumStep
  <2>2. k + 1 \in 1..n /\ f[k + 1] \in 0..b /\ k + 1 \in 0..n
    OBVIOUS
  <2>3. SumTo(f, k) \in 0..k * b /\ \A i \in 1..k : f[i] <= SumTo(f, k)
    BY <1>3
  <2>4. (k + 1) * b = k * b + b /\ k * b \in Int
    OBVIOUS
  <2>5. SumTo(f, k + 1) \in 0..(k + 1) * b
    BY <2>1, <2>2, <2>3, <2>4
  <2>6. ASSUME NEW i \in 1..k + 1 PROVE f[i] <= SumTo(f, k + 1)
    <3>1. CASE i = k + 1
      BY <2>1, <2>2, <2>3, <2>4, <3>1
    <3>2. CASE i # k + 1
      <4>1. i \in 1..k /\ i \in 1..n
        BY <3>2
      <4>2. f[i] <= SumTo(f, k) /\ f[i] \in Int
        BY <2>3, <4>1
      <4> QED BY <2>1, <2>2, <4>2
    <3> QED BY <3>1, <3>2
  <2> QED BY <2>2, <2>5, <2>6
<1>4. \A k \in 0..n : k \in T
  <2> HIDE DEF T
  <2> QED BY <1>2, <1>3, InductionTo
<1>5. n \in T
  BY <1>4
<1> QED BY <1>5

\* The same terms from the other end.
LEMMA SumReversed ==
  ASSUME NEW f, NEW g, NEW n \in Nat,
         \A i \in 1..n : f[i] \in Int /\ g[i] = f[n + 1 - i]
  PROVE  SumTo(g, n) = SumTo(f, n)
<1>1. \A i \in 1..n : g[i] \in Int
  <2>1. \A i \in 1..n : n + 1 - i \in 1..n
    OBVIOUS
  <2> QED BY <2>1
<1> DEFINE T == {k \in 0..n : SumTo(g, k) + SumTo(f, n - k) = SumTo(f, n)}
<1>2. 0 \in T
  <2>1. SumTo(g, 0) = 0 /\ SumTo(f, n) \in Int /\ n - 0 = n
    BY <1>1, SumToValues
  <2> QED BY <2>1
<1>3. ASSUME NEW k \in 0..n - 1, k \in T PROVE k + 1 \in T
  <2>1. SumTo(g, k) \in Int /\ g[k + 1] \in Int /\ SumTo(g, k + 1) = SumTo(g, k) + g[k + 1]
    BY <1>1, SumStep
  <2> DEFINE j == n - (k + 1)
  <2>2. j \in 0..n - 1 /\ j + 1 = n - k /\ k + 1 \in 1..n /\ n + 1 - (k + 1) = n - k /\ k + 1 \in 0..n
    OBVIOUS
  <2> HIDE DEF j
  <2>3. SumTo(f, j) \in Int /\ f[j + 1] \in Int /\ SumTo(f, j + 1) = SumTo(f, j) + f[j + 1]
    BY <2>2, SumStep
  <2>4. g[k + 1] = f[j + 1]
    BY <2>2
  <2>5. SumTo(g, k) + SumTo(f, j + 1) = SumTo(f, n)
    BY <1>3, <2>2
  <2>6. SumTo(g, k + 1) + SumTo(f, j) = SumTo(f, n)
    BY <2>1, <2>3, <2>4, <2>5
  <2> QED BY <2>2, <2>6 DEF j
<1>4. \A k \in 0..n : k \in T
  <2> HIDE DEF T
  <2> QED BY <1>2, <1>3, InductionTo
<1>5. n \in T /\ n - n = 0 /\ n \in 0..n
  BY <1>4
<1>6. SumTo(f, 0) = 0 /\ SumTo(g, n) \in Int
  BY <1>1, <1>5, SumToValues
<1> QED BY <1>5, <1>6

\* A table row by row and column by column.
RowSums(f, n)    == [r \in 1..n |-> SumTo([c \in 1..n |-> f[<<r, c>>]], n)]
ColumnSums(f, n) == [c \in 1..n |-> SumTo([r \in 1..n |-> f[<<r, c>>]], n)]

\* Row by row or column by column the sum is the same.
LEMMA SumSwapped ==
  ASSUME NEW f, NEW n \in Nat, \A r \in 1..n, c \in 1..n : f[<<r, c>>] \in Int
  PROVE  SumTo(RowSums(f, n), n) = SumTo(ColumnSums(f, n), n)
<1> DEFINE row(r)    == [c \in 1..n |-> f[<<r, c>>]]
           column(c) == [r \in 1..n |-> f[<<r, c>>]]
           rows      == [r \in 1..n |-> SumTo(row(r), n)]
           upper(k)  == [c \in 1..n |-> SumTo(column(c), k)]
           T == {k \in 0..n : SumTo(rows, k) = SumTo(upper(k), n)}
<1>1. \A r \in 1..n : SumTo(row(r), n) \in Int
  <2> TAKE r \in 1..n
  <2>1. \A c \in 1..n : row(r)[c] \in Int
    OBVIOUS
  <2>2. n \in 0..n
    OBVIOUS
  <2> HIDE DEF row
  <2> QED BY <2>1, <2>2, SumToValues
<1>2. \A r \in 1..n : rows[r] = SumTo(row(r), n) /\ rows[r] \in Int
  <2> HIDE DEF row
  <2> QED BY <1>1
<1>3. ASSUME NEW c \in 1..n
      PROVE  /\ SumTo(column(c), 0) = 0
             /\ \A k \in 0..n - 1 :
                  /\ SumTo(column(c), k) \in Int
                  /\ SumTo(column(c), k + 1) = SumTo(column(c), k) + f[<<k + 1, c>>]
  <2>1. \A r \in 1..n : column(c)[r] \in Int /\ column(c)[r] = f[<<r, c>>]
    OBVIOUS
  <2> HIDE DEF column
  <2>2. \A k \in 0..n - 1 :
          /\ SumTo(column(c), k) \in Int
          /\ SumTo(column(c), k + 1) = SumTo(column(c), k) + column(c)[k + 1]
    BY <2>1, SumStep
  <2>3. \A k \in 0..n - 1 : k + 1 \in 1..n
    OBVIOUS
  <2>4. SumTo(column(c), 0) = 0
    BY <2>1, SumToValues
  <2> QED BY <2>1, <2>2, <2>3, <2>4
<1> HIDE DEF rows
<1>4. 0 \in T
  <2>1. SumTo(rows, 0) = 0
    BY <1>2, SumToValues
  <2>2. \A c \in 1..n : upper(0)[c] = 0
    <3> HIDE DEF column
    <3> QED BY <1>3
  <2> HIDE DEF upper
  <2>3. SumTo(upper(0), n) = 0
    BY <2>2, SumZero
  <2> QED BY <2>1, <2>3
<1>5. ASSUME NEW k \in 0..n - 1, k \in T PROVE k + 1 \in T
  <2> DEFINE j == k + 1
  <2>1. j \in 1..n /\ j \in 0..n
    OBVIOUS
  <2>2. SumTo(rows, k + 1) = SumTo(rows, k) + rows[k + 1] /\ SumTo(rows, k) \in Int
    BY <1>2, SumStep
  <2>3. rows[j] = SumTo(row(j), n)
    BY <1>2, <2>1
  <2>4. \A c \in 1..n : /\ upper(k)[c] \in Int /\ row(j)[c] \in Int
                        /\ upper(j)[c] = upper(k)[c] + row(j)[c]
    <3> TAKE c \in 1..n
    <3>1. upper(k)[c] = SumTo(column(c), k) /\ upper(j)[c] = SumTo(column(c), j) /\ row(j)[c] = f[<<j, c>>]
      <4> HIDE DEF column, j
      <4> QED OBVIOUS
    <3>2. f[<<j, c>>] \in Int
      BY <2>1
    <3> HIDE DEF column, upper, row
    <3> QED BY <1>3, <3>1, <3>2
  <2>5. SumTo(upper(k), n) \in Int /\ SumTo(row(j), n) \in Int
        /\ SumTo(upper(j), n) = SumTo(upper(k), n) + SumTo(row(j), n)
    <3> HIDE DEF upper, row, j
    <3> QED BY <2>4, SumPlus
  <2>6. SumTo(rows, k) = SumTo(upper(k), n)
    BY <1>5
  <2> HIDE DEF upper, row
  <2> QED BY <2>1, <2>2, <2>3, <2>5, <2>6
<1>6. \A k \in 0..n : k \in T
  <2> HIDE DEF T
  <2> QED BY <1>4, <1>5, InductionTo
<1>7. n \in T
  BY <1>6
<1> QED BY <1>7 DEF rows, RowSums, ColumnSums

-----------------------------------------------------------------------------
(* What the cells of a line weigh.                                         *)

\* Two terms are replaced.
LEMMA SumExceptTwo ==
  ASSUME NEW f, NEW g, NEW n \in Nat, NEW j \in 1..n, NEW k \in 1..n, j # k,
         \A i \in 1..n : f[i] \in Int /\ g[i] \in Int /\ (i # j /\ i # k => g[i] = f[i])
  PROVE  /\ SumTo(f, n) \in Int
         /\ SumTo(g, n) = SumTo(f, n) + (g[j] - f[j]) + (g[k] - f[k])
<1> DEFINE h == [i \in 1..n |-> IF i = j THEN g[i] ELSE f[i]]
<1>1. \A i \in 1..n : f[i] \in Int /\ h[i] \in Int /\ g[i] \in Int
                      /\ (i # j => h[i] = f[i]) /\ (i # k => g[i] = h[i])
  OBVIOUS
<1>2. h[j] = g[j] /\ h[k] = f[k]
  OBVIOUS
<1> HIDE DEF h
<1>3. SumTo(f, n) \in Int /\ SumTo(h, n) = SumTo(f, n) + h[j] - f[j]
  BY <1>1, SumExcept
<1>4. SumTo(h, n) \in Int /\ SumTo(g, n) = SumTo(h, n) + g[k] - h[k]
  BY <1>1, SumExcept
<1>5. f[j] \in Int /\ g[j] \in Int /\ f[k] \in Int /\ g[k] \in Int
  BY <1>1
<1> QED BY <1>2, <1>3, <1>4, <1>5

LineWeight(U, line, n) == SumTo([i \in 1..n |-> U[line[i]]], n)

\* The weight of a line is an integer.
LEMMA LineWeightInt ==
  ASSUME NEW n \in Nat, NEW line \in [1..n -> Nat], NEW U \in [Nat -> Int]
  PROVE  LineWeight(U, line, n) \in Int
<1> DEFINE f == [i \in 1..n |-> U[line[i]]]
<1>1. \A i \in 1..n : f[i] \in Int
  OBVIOUS
<1>2. n \in 0..n
  OBVIOUS
<1> HIDE DEF f
<1>3. SumTo(f, n) \in Int
  BY <1>1, <1>2, SumToValues
<1> QED BY <1>3 DEF LineWeight, f

\* A pass of the loop that shifts leaves the weight as it is.
LEMMA PullWeight ==
  ASSUME NEW n \in Nat, NEW line \in [1..n -> Nat], NEW U \in [Nat -> Int], NEW j \in 1..n
  PROVE  LineWeight(U, PullAt(line, j), n) = LineWeight(U, line, n)
<1> DEFINE new == PullAt(line, j)
           f == [i \in 1..n |-> U[line[i]]]
           g == [i \in 1..n |-> U[new[i]]]
<1>1. new \in [1..n -> Nat] /\ (Stays(new, line, n, j) \/ Pulls(new, line, n, j))
  BY PullAtIs
<1> HIDE DEF new
<1>2. CASE Stays(new, line, n, j)
  BY <1>2 DEF Stays, new
<1>3. CASE Pulls(new, line, n, j)
  <2>1. PICK k \in j + 1..n : /\ new = [line EXCEPT ![j] = line[k], ![k] = 0]
                              /\ line[k] # 0 /\ \A i \in j..k - 1 : line[i] = 0
    BY <1>3 DEF Pulls
  <2>2. new = [line EXCEPT ![j] = line[k], ![k] = 0] /\ line[j] = 0
    <3>1. j \in j..k - 1
      OBVIOUS
    <3> QED BY <2>1, <3>1
  <2>3. k \in 1..n /\ k # j
    OBVIOUS
  <2>4. \A i \in 1..n : f[i] \in Int /\ g[i] \in Int /\ (i # j /\ i # k => g[i] = f[i])
    BY <1>1, <2>2
  <2>5. g[j] = f[k] /\ g[k] = f[j] /\ f[j] \in Int /\ f[k] \in Int
    BY <1>1, <2>2, <2>3
  <2> HIDE DEF f, g
  <2>6. SumTo(f, n) \in Int /\ SumTo(g, n) = SumTo(f, n) + (g[j] - f[j]) + (g[k] - f[k])
    BY <2>3, <2>4, SumExceptTwo
  <2>7. SumTo(g, n) = SumTo(f, n)
    BY <2>5, <2>6
  <2> QED BY <2>7 DEF LineWeight, f, g, new
<1> QED BY <1>1, <1>2, <1>3

\* A shift moves what the cells weigh.
LEMMA ShiftedWeight ==
  ASSUME NEW n \in Nat \ {0}, NEW line \in [1..n -> Nat], NEW U \in [Nat -> Int]
  PROVE  LineWeight(U, Shifted(line), n) = LineWeight(U, line, n)
<1>1. PICK h : /\ h[0] = line /\ Shifted(line) = h[n - 1]
               /\ \A j \in 0..n - 1 : h[j] \in [1..n -> Nat]
               /\ \A j \in 1..n - 1 : h[j] = PullAt(h[j - 1], j)
  BY ShiftedRuns
<1> DEFINE T == {j \in 0..n - 1 : LineWeight(U, h[j], n) = LineWeight(U, line, n)}
<1>2. 0 \in T
  BY <1>1
<1>3. ASSUME NEW j \in 0..(n - 1) - 1, j \in T PROVE j + 1 \in T
  <2> DEFINE k == j + 1
  <2>1. k \in 1..n - 1 /\ k - 1 = j /\ k \in 0..n - 1 /\ k \in 1..n /\ j \in 0..n - 1
    OBVIOUS
  <2> HIDE DEF k
  <2>2. h[k] = PullAt(h[j], k) /\ h[j] \in [1..n -> Nat]
    BY <1>1, <2>1
  <2>3. LineWeight(U, h[k], n) = LineWeight(U, h[j], n)
    BY <2>1, <2>2, PullWeight
  <2> QED BY <1>3, <2>1, <2>3 DEF k
<1>4. \A j \in 0..n - 1 : j \in T
  <2>1. n - 1 \in Nat
    OBVIOUS
  <2> HIDE DEF T
  <2> QED BY <1>2, <1>3, <2>1, InductionTo
<1>5. n - 1 \in 0..n - 1
  OBVIOUS
<1>6. n - 1 \in T
  BY <1>4, <1>5
<1> QED BY <1>1, <1>6

\* U weighs the numbers in V before a merge and W after it; c is what a point
\* of the score weighs.
Weighs(U, W, c, V) ==
  /\ U \in [Nat -> Int] /\ W \in [Nat -> Int] /\ U[0] = 0 /\ c \in Int
  /\ 0 \in V /\ V \in SUBSET Nat
  /\ \A v \in V : /\ 2 * v \in V /\ W[v] <= U[v]
                  /\ v # 0 => W[2 * v] <= 2 * U[v] + c * v

\* A shift moves numbers, a merge doubles them.
LEMMA ShiftedIn ==
  ASSUME NEW n \in Nat \ {0}, NEW V \in SUBSET Nat, 0 \in V, NEW line \in [1..n -> V]
  PROVE  Shifted(line) \in [1..n -> V]
<1>1. line \in [1..n -> Nat]
  OBVIOUS
<1>2. PICK h : /\ h[0] = line /\ Shifted(line) = h[n - 1]
               /\ \A j \in 0..n - 1 : h[j] \in [1..n -> Nat]
               /\ \A j \in 1..n - 1 : h[j] = PullAt(h[j - 1], j)
  BY <1>1, ShiftedRuns
<1> DEFINE T == {j \in 0..n - 1 : h[j] \in [1..n -> V]}
<1>3. 0 \in T
  BY <1>2
<1>4. ASSUME NEW j \in 0..(n - 1) - 1, j \in T PROVE j + 1 \in T
  <2> DEFINE k == j + 1
  <2>1. k \in 1..n - 1 /\ k - 1 = j /\ k \in 0..n - 1 /\ k \in 1..n /\ j \in 0..n - 1
    OBVIOUS
  <2> HIDE DEF k
  <2>2. h[k] = PullAt(h[j], k) /\ h[j] \in [1..n -> Nat] /\ h[j] \in [1..n -> V]
    BY <1>2, <1>4, <2>1
  <2>3. Stays(h[k], h[j], n, k) \/ Pulls(h[k], h[j], n, k)
    BY <2>1, <2>2, PullAtIs
  <2>4. CASE Stays(h[k], h[j], n, k)
    BY <2>1, <2>2, <2>4 DEF Stays, k
  <2>5. CASE Pulls(h[k], h[j], n, k)
    <3> DEFINE a == h[j]
    <3>1. PICK i \in k + 1..n : h[k] = [a EXCEPT ![k] = a[i], ![i] = 0]
      BY <2>5 DEF Pulls
    <3>2. a \in [1..n -> V] /\ i \in 1..n
      BY <2>1, <2>2
    <3> HIDE DEF a
    <3>3. a[i] \in V
      BY <3>2
    <3>4. h[k] \in [1..n -> V]
      BY <2>1, <3>1, <3>2, <3>3
    <3> QED BY <2>1, <3>4 DEF k
  <2> QED BY <2>3, <2>4, <2>5
<1>5. \A j \in 0..n - 1 : j \in T
  <2>1. n - 1 \in Nat
    OBVIOUS
  <2> HIDE DEF T
  <2> QED BY <1>3, <1>4, <2>1, InductionTo
<1>6. n - 1 \in 0..n - 1
  OBVIOUS
<1>7. n - 1 \in T
  BY <1>5, <1>6
<1> QED BY <1>2, <1>7

\* Merging yields numbers of the same set.
LEMMA MergedIn ==
  ASSUME NEW n \in Nat \ {0}, NEW V \in SUBSET Nat, 0 \in V, \A v \in V : 2 * v \in V,
         NEW line \in [1..n -> V]
  PROVE  Merged(line) \in Merging(n) /\ Merged(line).line \in [1..n -> V]
<1>1. line \in [1..n -> Nat]
  OBVIOUS
<1>2. PICK h : /\ h[0] = [line |-> line, gain |-> 0] /\ Merged(line) = h[n - 1]
               /\ \A j \in 0..n - 1 : h[j] \in Merging(n)
               /\ \A j \in 1..n - 1 : h[j] = MergeAt(h[j - 1], j)
  BY <1>1, MergedRuns
<1> DEFINE T == {j \in 0..n - 1 : h[j].line \in [1..n -> V]}
<1>3. 0 \in T
  BY <1>2
<1>4. ASSUME NEW j \in 0..(n - 1) - 1, j \in T PROVE j + 1 \in T
  <2> DEFINE k == j + 1
  <2>1. k \in 1..n - 1 /\ k - 1 = j /\ k \in 0..n - 1 /\ k \in 1..n /\ k + 1 \in 1..n /\ j \in 0..n - 1
    OBVIOUS
  <2> HIDE DEF k
  <2>2. h[k] = MergeAt(h[j], k) /\ h[j] \in Merging(n) /\ h[j].line \in [1..n -> V]
    BY <1>2, <1>4, <2>1
  <2>3. Unmerged(h[k], h[j], k) \/ Doubled(h[k], h[j], k)
    BY <2>1, <2>2, MergeAtIs
  <2>4. CASE Unmerged(h[k], h[j], k)
    BY <2>1, <2>2, <2>4 DEF Unmerged, k
  <2>5. CASE Doubled(h[k], h[j], k)
    <3> DEFINE a == h[j].line
    <3>1. h[k].line = [a EXCEPT ![k] = 2 * a[k], ![k + 1] = 0] /\ a \in [1..n -> V]
      BY <2>2, <2>5 DEF Doubled
    <3> HIDE DEF a
    <3>2. 2 * a[k] \in V
      BY <2>1, <3>1
    <3>3. h[k].line \in [1..n -> V]
      BY <2>1, <3>1, <3>2
    <3> QED BY <2>1, <3>3 DEF k
  <2> QED BY <2>3, <2>4, <2>5
<1>5. \A j \in 0..n - 1 : j \in T
  <2>1. n - 1 \in Nat
    OBVIOUS
  <2> HIDE DEF T
  <2> QED BY <1>3, <1>4, <2>1, InductionTo
<1>6. n - 1 \in 0..n - 1
  OBVIOUS
<1>7. n - 1 \in T
  BY <1>5, <1>6
<1> QED BY <1>2, <1>6, <1>7

\* Before cell q the merge is done.
Mixed(U, W, line, n, q) == [i \in 1..n |-> IF i < q THEN W[line[i]] ELSE U[line[i]]]

\* The weight between two passes is an integer.
LEMMA MixedInt ==
  ASSUME NEW n \in Nat, NEW line \in [1..n -> Nat], NEW q \in 1..n + 1, NEW U, NEW W, NEW c, NEW V,
         Weighs(U, W, c, V)
  PROVE  SumTo(Mixed(U, W, line, n, q), n) \in Int
<1> DEFINE f == Mixed(U, W, line, n, q)
<1>1. U \in [Nat -> Int] /\ W \in [Nat -> Int]
  BY DEF Weighs
<1>2. \A i \in 1..n : f[i] \in Int
  BY <1>1 DEF Mixed
<1>3. n \in 0..n
  OBVIOUS
<1> HIDE DEF f
<1> QED BY <1>2, <1>3, SumToValues DEF f

\* One pass of the loop that merges costs at most what it scores.
LEMMA MergeWeight ==
  ASSUME NEW n \in Nat, NEW line, NEW q \in 1..n - 1, NEW m, NEW U, NEW W, NEW c, NEW V,
         Weighs(U, W, c, V), line \in [1..n -> V], Reached(m, line, n, q)
  PROVE  LET new == MergeAt(m, q) IN
         SumTo(Mixed(U, W, new.line, n, q + 1), n) + c * m.gain
           <= SumTo(Mixed(U, W, m.line, n, q), n) + c * new.gain
<1> DEFINE new == MergeAt(m, q)
           k == q + 1
           a == m.line
           b == new.line
           x == m.gain
           y == new.gain
           f == Mixed(U, W, a, n, q)
           g == Mixed(U, W, b, n, k)
<1>1. /\ U \in [Nat -> Int] /\ W \in [Nat -> Int] /\ U[0] = 0 /\ c \in Int /\ V \in SUBSET Nat
      /\ 0 \in V /\ W[0] <= U[0]
  BY DEF Weighs
<1>2. line \in [1..n -> Nat] /\ n \in Nat
  BY <1>1
<1>3. /\ Reached(new, line, n, k)
      /\ \A i \in 1..q - 1 : b[i] = a[i]
      /\ Skips(new, m, line, q) \/ Keeps(new, m, line, q) \/ Joins(new, m, line, q)
  BY <1>2, MergePass
<1>4. a[k] = line[k]
  <2>1. k \in q + 1..n
    OBVIOUS
  <2> QED BY <2>1 DEF Reached
<1> HIDE DEF new
<1>5. x \in Nat /\ y \in Nat /\ a \in [1..n -> Nat] /\ b \in [1..n -> Nat]
  BY <1>3 DEF Reached, Merging
<1>6. /\ q \in 1..n /\ k \in 1..n /\ q # k /\ q < k /\ q \in Int /\ k \in Int
      /\ \A i \in 1..n : i # q /\ i # k => (i \in 1..q - 1 \/ i \in k + 1..n) /\ (i < q <=> i < k)
  OBVIOUS
<1>7. \A i \in 1..n : i # q /\ i # k => b[i] = a[i]
  <2> TAKE i \in 1..n
  <2>1. CASE i \in 1..q - 1
    BY <1>3, <2>1
  <2>2. CASE i \in k + 1..n
    <3>1. b[i] = line[i]
      BY <1>3, <2>2 DEF Reached
    <3>2. i \in q + 1..n
      BY <2>2
    <3>3. a[i] = line[i]
      BY <3>2 DEF Reached
    <3> QED BY <3>1, <3>3
  <2> QED BY <1>6, <2>1, <2>2
<1>8. \/ a[q] = 0 /\ b = a /\ y = x
      \/ a[q] = line[q] /\ b = a /\ y = x
      \/ /\ a[q] = line[q] /\ line[q] # 0 /\ line[k] = line[q]
         /\ b = [a EXCEPT ![q] = 2 * line[q], ![k] = 0] /\ y = x + line[q]
  BY <1>3 DEF Skips, Keeps, Joins
<1>9. SumTo(g, n) + c * x <= SumTo(f, n) + c * y
  <2> HIDE DEF a, b, x, y, k
  <2> DEFINE v == line[q]
  <2>1. v \in V /\ v \in Nat
    BY <1>1, <1>2, <1>6
  <2>2. \A i \in 1..n : a[i] \in Nat /\ b[i] \in Nat
    BY <1>5
  <2>3. \A i \in 1..n : /\ U[a[i]] \in Int /\ W[a[i]] \in Int /\ U[b[i]] \in Int /\ W[b[i]] \in Int
    BY <1>1, <2>2
  <2>4. \A i \in 1..n : /\ f[i] = IF i < q THEN W[a[i]] ELSE U[a[i]]
                        /\ g[i] = IF i < k THEN W[b[i]] ELSE U[b[i]]
    BY DEF Mixed
  <2> HIDE DEF f, g
  <2>5. \A i \in 1..n : f[i] \in Int /\ g[i] \in Int /\ (i # q /\ i # k => g[i] = f[i])
    <3> TAKE i \in 1..n
    <3>1. f[i] \in Int /\ g[i] \in Int
      BY <2>3, <2>4
    <3>2. CASE i # q /\ i # k
      <4>1. (i < q <=> i < k) /\ b[i] = a[i]
        BY <1>6, <1>7, <3>2
      <4>2. f[i] = IF i < q THEN W[a[i]] ELSE U[a[i]]
        BY <2>4
      <4>3. g[i] = IF i < k THEN W[b[i]] ELSE U[b[i]]
        BY <2>4
      <4>4. CASE i < q
        <5>1. f[i] = W[a[i]] /\ g[i] = W[b[i]]
          BY <4>1, <4>2, <4>3, <4>4
        <5> QED BY <3>1, <4>1, <5>1
      <4>5. CASE ~(i < q)
        <5>1. f[i] = U[a[i]] /\ g[i] = U[b[i]]
          BY <4>1, <4>2, <4>3, <4>5
        <5> QED BY <3>1, <4>1, <5>1
      <4> QED BY <4>4, <4>5
    <3> QED BY <3>1, <3>2
  <2>6. SumTo(f, n) \in Int /\ SumTo(g, n) = SumTo(f, n) + (g[q] - f[q]) + (g[k] - f[k])
    BY <1>6, <2>5, SumExceptTwo
  <2>7. f[q] = U[a[q]] /\ f[k] = U[a[k]] /\ g[q] = W[b[q]] /\ g[k] = U[b[k]]
    BY <1>6, <2>4
  <2>8. f[q] \in Int /\ f[k] \in Int /\ g[q] \in Int /\ g[k] \in Int
    BY <1>6, <2>5
  <2> DEFINE A == SumTo(f, n)
             B == SumTo(g, n)
             p == f[q]
             r == f[k]
             s == g[q]
             t == g[k]
  <2>9. CASE b = a /\ y = x /\ (a[q] = 0 \/ a[q] = v)
    <3>1. s <= p
      BY <1>1, <2>1, <2>7, <2>9 DEF Weighs
    <3>2. t = r
      BY <2>7, <2>9
    <3>3. A \in Int /\ B = A + (s - p) + (t - r) /\ p \in Int /\ r \in Int /\ s \in Int /\ t \in Int
      BY <2>6, <2>8
    <3> HIDE DEF A, B, p, r, s, t
    <3>4. B <= A /\ B \in Int
      BY <3>1, <3>2, <3>3
    <3>5. c * x \in Int /\ c * y = c * x
      BY <1>1, <1>5, <2>9
    <3>6. B + c * x <= A + c * y
      BY <3>3, <3>4, <3>5
    <3> QED BY <3>6 DEF A, B
  <2>10. CASE /\ a[q] = v /\ v # 0 /\ line[k] = v
              /\ b = [a EXCEPT ![q] = 2 * v, ![k] = 0] /\ y = x + v
    <3>1. b[q] = 2 * v /\ b[k] = 0 /\ a[k] = v
      BY <1>4, <1>5, <1>6, <2>10
    <3>2. p = U[v] /\ r = U[v] /\ t = 0 /\ s = W[2 * v]
      BY <1>1, <2>7, <2>10, <3>1
    <3>3. s <= 2 * p + c * v
      BY <2>1, <2>10, <3>2 DEF Weighs
    <3>4. A \in Int /\ B = A + (s - p) + (t - r) /\ p \in Int /\ r \in Int /\ s \in Int /\ t \in Int
      BY <2>6, <2>8
    <3>5. r = p /\ t = 0
      BY <3>2
    <3>6. y = x + v
      BY <2>10
    <3> HIDE DEF A, B, p, r, s, t, v
    <3>7. c * x \in Int /\ c * v \in Int /\ c * (x + v) = c * x + c * v
      BY <1>1, <1>5, <2>1
    <3>8. B = A + s - 2 * p
      BY <3>4, <3>5
    <3>9. B + c * x <= A + (c * x + c * v)
      BY <3>3, <3>4, <3>7, <3>8
    <3> QED BY <3>6, <3>7, <3>9 DEF A, B
  <2> QED BY <1>8, <2>9, <2>10
<1> QED BY <1>9 DEF new, k, a, b, x, y, f, g

\* A merge.
LEMMA MergedWeight ==
  ASSUME NEW n \in Nat \ {0}, NEW line, NEW U, NEW W, NEW c, NEW V,
         Weighs(U, W, c, V), line \in [1..n -> V]
  PROVE  LineWeight(W, Merged(line).line, n) <= LineWeight(U, line, n) + c * Merged(line).gain
<1>1. /\ U \in [Nat -> Int] /\ W \in [Nat -> Int] /\ c \in Int /\ V \in SUBSET Nat /\ 0 \in V
      /\ \A v \in V : 2 * v \in V /\ W[v] <= U[v]
  BY DEF Weighs
<1>2. line \in [1..n -> Nat] /\ n \in Nat
  BY <1>1
<1>3. PICK h : /\ h[0] = [line |-> line, gain |-> 0] /\ Merged(line) = h[n - 1]
               /\ \A j \in 0..n - 1 : Reached(h[j], line, n, j + 1)
               /\ \A j \in 1..n - 1 : h[j] = MergeAt(h[j - 1], j)
  BY <1>2, Passes
<1> DEFINE S(j) == SumTo(Mixed(U, W, h[j].line, n, j + 1), n)
           first == LineWeight(U, line, n)
           T == {j \in 0..n - 1 : S(j) <= first + c * h[j].gain}
<1>4. S(0) = first /\ first \in Int
  <2>1. h[0].line = line
    BY <1>3
  <2>2. Mixed(U, W, line, n, 1) = [i \in 1..n |-> U[line[i]]]
    BY DEF Mixed
  <2>3. S(0) = first
    BY <2>1, <2>2 DEF LineWeight
  <2>4. first \in Int
    BY <1>1, <1>2, LineWeightInt
  <2> QED BY <2>3, <2>4
<1>5. \A j \in 0..n - 1 : S(j) \in Int /\ h[j].gain \in Nat /\ h[j].line \in [1..n -> Nat]
  <2> TAKE j \in 0..n - 1
  <2> DEFINE q == j + 1
             a == h[j].line
  <2>1. Reached(h[j], line, n, q)
    BY <1>3
  <2>2. a \in [1..n -> Nat] /\ h[j].gain \in Nat
    BY <2>1 DEF Reached, Merging
  <2>3. q \in 1..n + 1
    OBVIOUS
  <2> HIDE DEF q, a
  <2>4. SumTo(Mixed(U, W, a, n, q), n) \in Int
    BY <1>2, <2>2, <2>3, MixedInt
  <2> QED BY <2>2, <2>4 DEF q, a
<1>6. 0 \in T
  <2>1. h[0].gain = 0 /\ c * 0 = 0
    BY <1>1, <1>3
  <2> HIDE DEF S, first
  <2> QED BY <1>4, <2>1
<1>7. ASSUME NEW j \in 0..(n - 1) - 1, j \in T PROVE j + 1 \in T
  <2> DEFINE k == j + 1
             x == h[j].gain
             y == h[k].gain
  <2>1. k \in 1..n - 1 /\ k \in 0..n - 1 /\ j \in 0..n - 1 /\ k - 1 = j
    OBVIOUS
  <2>2. h[k] = MergeAt(h[j], k) /\ Reached(h[j], line, n, k)
    <3> HIDE DEF k
    <3>1. h[k] = MergeAt(h[k - 1], k)
      BY <1>3, <2>1
    <3>2. Reached(h[j], line, n, j + 1)
      BY <1>3, <2>1
    <3> QED BY <2>1, <3>1, <3>2 DEF k
  <2>3. S(k) + c * x <= S(j) + c * y
    <3>1. S(j) = SumTo(Mixed(U, W, h[j].line, n, k), n)
      OBVIOUS
    <3>2. S(k) = SumTo(Mixed(U, W, MergeAt(h[j], k).line, n, k + 1), n)
      <4> HIDE DEF k
      <4> QED BY <2>2
    <3>3. y = MergeAt(h[j], k).gain
      <4> HIDE DEF k
      <4> QED BY <2>2
    <3>4. SumTo(Mixed(U, W, MergeAt(h[j], k).line, n, k + 1), n) + c * x
            <= SumTo(Mixed(U, W, h[j].line, n, k), n) + c * MergeAt(h[j], k).gain
      <4> HIDE DEF k
      <4> QED BY <1>2, <2>1, <2>2, MergeWeight
    <3> HIDE DEF S, y, k
    <3> QED BY <3>1, <3>2, <3>3, <3>4
  <2>4. S(j) <= first + c * x
    BY <1>7
  <2>5. S(j) \in Int /\ S(k) \in Int /\ x \in Nat /\ y \in Nat
    <3> HIDE DEF S
    <3> QED BY <1>5, <2>1
  <2>6. S(k) <= first + c * y
    <3> DEFINE s == S(j)
               t == S(k)
    <3> HIDE DEF S, x, y, k, first
    <3>1. c * x \in Int /\ c * y \in Int
      BY <1>1, <2>5
    <3>2. s \in Int /\ t \in Int /\ s <= first + c * x /\ t + c * x <= s + c * y
      BY <2>3, <2>4, <2>5
    <3> HIDE DEF s, t
    <3>3. t <= first + c * y
      BY <1>4, <3>1, <3>2
    <3> QED BY <3>3 DEF t
  <2> HIDE DEF S, first
  <2> QED BY <2>1, <2>6
<1>8. \A j \in 0..n - 1 : j \in T
  <2>1. n - 1 \in Nat
    OBVIOUS
  <2> HIDE DEF T
  <2> QED BY <1>6, <1>7, <2>1, InductionTo
<1> DEFINE z == n - 1
<1>9. S(z) <= first + c * h[z].gain /\ z \in 0..n - 1 /\ z + 1 = n
  <2>1. z \in 0..n - 1 /\ z + 1 = n
    OBVIOUS
  <2> HIDE DEF z, S, first
  <2> QED BY <1>8, <2>1
\* All but the last cell weigh what they should after the merge; so does it.
<1>10. LineWeight(W, h[z].line, n) <= S(z) /\ LineWeight(W, h[z].line, n) \in Int
  <2> DEFINE a == h[z].line
             f == [i \in 1..n |-> W[a[i]]]
             g == Mixed(U, W, a, n, n)
             one == 0
  <2>1. a \in [1..n -> Nat] /\ a[n] \in V
    <3>1. Reached(h[z], line, n, n) /\ n \in 1..n
      <4> HIDE DEF z
      <4> QED BY <1>3, <1>9
    <3>2. a[n] \in {line[n], 0} /\ a \in [1..n -> Nat]
      BY <3>1 DEF Reached, Merging
    <3> QED BY <1>1, <3>1, <3>2
  <2> HIDE DEF a
  <2>2. \A i \in 1..n : f[i] \in Int /\ g[i] \in Int /\ f[i] <= g[i]
    <3> TAKE i \in 1..n
    <3>1. f[i] = W[a[i]] /\ g[i] = IF i < n THEN W[a[i]] ELSE U[a[i]]
      BY DEF Mixed
    <3>2. W[a[i]] \in Int /\ U[a[i]] \in Int
      BY <1>1, <2>1
    <3>3. CASE i < n
      BY <3>1, <3>2, <3>3
    <3>4. CASE ~(i < n)
      <4>1. i = n
        BY <3>4
      <4>2. W[a[n]] <= U[a[n]]
        BY <1>1, <2>1
      <4> QED BY <3>1, <3>2, <4>1, <4>2
    <3> QED BY <3>3, <3>4
  <2> HIDE DEF f, g
  <2>3. one \in Int /\ \A i \in 1..n : f[i] \in Int /\ g[i] \in Int /\ g[i] \in Int /\ f[i] <= g[i] + one * g[i]
    BY <2>2
  <2> HIDE DEF one
  <2>4. SumTo(f, n) \in Int /\ SumTo(g, n) \in Int /\ SumTo(f, n) <= SumTo(g, n) + one * SumTo(g, n)
    BY <1>2, <2>3, SumLeq
  <2>5. SumTo(f, n) \in Int /\ SumTo(f, n) <= SumTo(g, n)
    BY <2>4 DEF one
  <2>6. S(z) = SumTo(g, n) /\ LineWeight(W, h[z].line, n) = SumTo(f, n)
    <3>1. z + 1 = n
      BY <1>9
    <3> HIDE DEF z
    <3> QED BY <3>1 DEF g, f, a, LineWeight
  <2> HIDE DEF S, z
  <2> QED BY <2>5, <2>6
<1>11. S(z) \in Int /\ h[z].gain \in Nat
  <2> HIDE DEF S, z
  <2> QED BY <1>5, <1>9
<1> DEFINE x == h[z].gain
           w == LineWeight(W, h[z].line, n)
           s == S(z)
<1>12. c * x \in Int /\ w \in Int /\ w <= s /\ s <= first + c * x /\ s \in Int /\ first \in Int
  <2>1. x \in Nat
    BY <1>11
  <2> HIDE DEF x
  <2>2. c * x \in Int
    BY <1>1, <2>1
  <2> HIDE DEF S, z, first
  <2> QED BY <1>4, <1>9, <1>10, <1>11, <2>2 DEF x
<1>13. w <= first + c * x
  <2> HIDE DEF x, w, s, first
  <2> QED BY <1>12
<1> QED BY <1>3, <1>13

\* A whole move of a line.
LEMMA PushedWeight ==
  ASSUME NEW n \in Nat \ {0}, NEW line, NEW U, NEW W, NEW c, NEW V,
         Weighs(U, W, c, V), line \in [1..n -> V]
  PROVE  /\ Pushed(line).line \in [1..n -> V] /\ Pushed(line).gain \in Nat
         /\ LineWeight(U, line, n) \in Int /\ LineWeight(W, Pushed(line).line, n) \in Int
         /\ LineWeight(W, Pushed(line).line, n) <= LineWeight(U, line, n) + c * Pushed(line).gain
<1>1. /\ U \in [Nat -> Int] /\ W \in [Nat -> Int] /\ c \in Int /\ V \in SUBSET Nat /\ 0 \in V
      /\ \A v \in V : 2 * v \in V
  BY DEF Weighs
<1>2. line \in [1..n -> Nat] /\ n \in Nat
  BY <1>1
<1> DEFINE a == Shifted(line)
<1>3. a \in [1..n -> V] /\ LineWeight(U, a, n) = LineWeight(U, line, n)
  BY <1>1, <1>2, ShiftedIn, ShiftedWeight
<1> HIDE DEF a
<1> DEFINE m == Merged(a)
           b == m.line
<1>4. m \in Merging(n) /\ b \in [1..n -> V]
  BY <1>1, <1>3, MergedIn
<1>5. LineWeight(W, b, n) <= LineWeight(U, a, n) + c * m.gain
  BY <1>3, MergedWeight
<1>6. Pushed(line).line = Shifted(b) /\ Pushed(line).gain = m.gain
  BY DEF Pushed, a
<1>7. m.gain \in Nat
  BY <1>4 DEF Merging
<1> HIDE DEF b, m
<1>8. b \in [1..n -> Nat]
  BY <1>1, <1>4
<1>9. Shifted(b) \in [1..n -> V] /\ LineWeight(W, Shifted(b), n) = LineWeight(W, b, n)
  BY <1>1, <1>4, <1>8, ShiftedIn, ShiftedWeight
<1>10. LineWeight(W, b, n) \in Int /\ LineWeight(U, line, n) \in Int
  BY <1>1, <1>2, <1>8, LineWeightInt
<1> QED BY <1>3, <1>5, <1>6, <1>7, <1>9, <1>10

-----------------------------------------------------------------------------
(* The board.                                                              *)

\* Every cell is on one line, at one place.
LEMMA CellPlaces ==
  ASSUME NEW key \in Moves
  PROVE  /\ \A n \in 1..SIZE, i \in 1..SIZE : Cell(key, n, i) \in Cells
         /\ \A n \in 1..SIZE, i \in 1..SIZE, p \in 1..SIZE, j \in 1..SIZE :
              Cell(key, n, i) = Cell(key, p, j) => n = p /\ i = j
         /\ \A c \in Cells : \E n \in 1..SIZE : \E i \in 1..SIZE : Cell(key, n, i) = c
<1>1. SIZE \in Nat \ {0, 1}
  BY SizeAssumption
<1>2. \A i \in 1..SIZE : SIZE + 1 - i \in 1..SIZE /\ SIZE + 1 - (SIZE + 1 - i) = i
  BY <1>1
<1>3. ASSUME NEW c \in Cells PROVE \E x \in 1..SIZE, y \in 1..SIZE : c = <<x, y>>
  BY DEF Cells
<1>4. CASE key = "a"
  <2>1. \A n \in 1..SIZE, i \in 1..SIZE : Cell(key, n, i) = <<n, i>>
    BY <1>4 DEF Cell
  <2>2. \A n \in 1..SIZE, i \in 1..SIZE : Cell(key, n, i) \in Cells
    BY <2>1 DEF Cells
  <2> QED BY <1>3, <2>1, <2>2
<1>5. CASE key = "d"
  <2>1. \A n \in 1..SIZE, i \in 1..SIZE : Cell(key, n, i) = <<n, SIZE + 1 - i>>
    BY <1>5 DEF Cell
  <2>2. \A n \in 1..SIZE, i \in 1..SIZE : Cell(key, n, i) \in Cells
    BY <1>2, <2>1 DEF Cells
  <2>3. ASSUME NEW c \in Cells PROVE \E n \in 1..SIZE : \E i \in 1..SIZE : Cell(key, n, i) = c
    <3>1. PICK x \in 1..SIZE, y \in 1..SIZE : c = <<x, y>>
      BY <1>3
    <3>2. Cell(key, x, SIZE + 1 - y) = c /\ SIZE + 1 - y \in 1..SIZE
      BY <1>2, <2>1, <3>1
    <3> QED BY <3>2
  <2>4. \A n \in 1..SIZE, i \in 1..SIZE, p \in 1..SIZE, j \in 1..SIZE :
          Cell(key, n, i) = Cell(key, p, j) => n = p /\ i = j
    BY <1>1, <2>1
  <2> QED BY <2>2, <2>3, <2>4
<1>6. CASE key = "w"
  <2>1. \A n \in 1..SIZE, i \in 1..SIZE : Cell(key, n, i) = <<i, n>>
    BY <1>6 DEF Cell
  <2>2. \A n \in 1..SIZE, i \in 1..SIZE : Cell(key, n, i) \in Cells
    BY <2>1 DEF Cells
  <2> QED BY <1>3, <2>1, <2>2
<1>7. CASE key = "s"
  <2>1. \A n \in 1..SIZE, i \in 1..SIZE : Cell(key, n, i) = <<SIZE + 1 - i, n>>
    BY <1>7 DEF Cell
  <2>2. \A n \in 1..SIZE, i \in 1..SIZE : Cell(key, n, i) \in Cells
    BY <1>2, <2>1 DEF Cells
  <2>3. ASSUME NEW c \in Cells PROVE \E n \in 1..SIZE : \E i \in 1..SIZE : Cell(key, n, i) = c
    <3>1. PICK x \in 1..SIZE, y \in 1..SIZE : c = <<x, y>>
      BY <1>3
    <3>2. Cell(key, y, SIZE + 1 - x) = c /\ SIZE + 1 - x \in 1..SIZE
      BY <1>2, <2>1, <3>1
    <3> QED BY <3>2
  <2>4. \A n \in 1..SIZE, i \in 1..SIZE, p \in 1..SIZE, j \in 1..SIZE :
          Cell(key, n, i) = Cell(key, p, j) => n = p /\ i = j
    BY <1>1, <2>1
  <2> QED BY <2>2, <2>3, <2>4
<1> QED BY <1>4, <1>5, <1>6, <1>7 DEF Moves

Gains(b, key) == [n \in 1..SIZE |-> Pushed(Line(b, key, n)).gain]

\* Numbers that merge to numbers of the same set.
Closed(V) == V \in SUBSET Nat /\ 0 \in V /\ \A v \in V : 2 * v \in V

Boards(V) == [Cells -> V]

\* The lines of the board on which the key acts.
LinesPushed(new, b, key, V) ==
  \A n \in 1..SIZE :
    /\ Line(b, key, n) \in [1..SIZE -> V]
    /\ Pushed(Line(b, key, n)).line \in [1..SIZE -> V]
    /\ Pushed(Line(b, key, n)).gain \in Nat
    /\ Line(new, key, n) = Pushed(Line(b, key, n)).line

\* A move takes every line as Pushed says.
LEMMA MovedLines ==
  ASSUME NEW V, Closed(V), NEW b, b \in Boards(V), NEW key \in Moves
  PROVE  /\ Moved(b, key).board \in Boards(V)
         /\ LinesPushed(Moved(b, key).board, b, key, V)
         /\ Moved(b, key).gain = SumTo(Gains(b, key), SIZE)
<1>1. /\ V \in SUBSET Nat /\ 0 \in V /\ \A v \in V : 2 * v \in V
      /\ b \in [Cells -> V]
  BY DEF Closed, Boards
<1>2. SIZE \in Nat \ {0}
  BY SizeAssumption
<1>3. ASSUME NEW n \in 1..SIZE
      PROVE  /\ Line(b, key, n) \in [1..SIZE -> V]
             /\ Pushed(Line(b, key, n)).line \in [1..SIZE -> V]
             /\ Pushed(Line(b, key, n)).gain \in Nat
  <2> DEFINE a == Line(b, key, n)
  <2>1. a \in [1..SIZE -> V]
    BY <1>1, CellPlaces DEF Line
  <2> HIDE DEF a
  <2>2. a \in [1..SIZE -> Nat]
    BY <1>1, <2>1
  <2> DEFINE s == Shifted(a)
  <2>3. s \in [1..SIZE -> V]
    BY <1>1, <1>2, <2>1, ShiftedIn
  <2> HIDE DEF s
  <2> DEFINE m == Merged(s)
             t == m.line
  <2>4. m \in Merging(SIZE) /\ t \in [1..SIZE -> V]
    BY <1>1, <1>2, <2>3, MergedIn
  <2>5. Pushed(a).line = Shifted(t) /\ Pushed(a).gain = m.gain
    BY DEF Pushed, s
  <2>6. m.gain \in Nat
    BY <2>4 DEF Merging
  <2> HIDE DEF t, m
  <2>7. Shifted(t) \in [1..SIZE -> V]
    BY <1>1, <1>2, <2>4, ShiftedIn
  <2> QED BY <2>1, <2>5, <2>6, <2>7 DEF a
<1> DEFINE pushed == [n \in 1..SIZE |-> Pushed(Line(b, key, n))]
           place(c) == CHOOSE n \in 1..SIZE : \E i \in 1..SIZE : Cell(key, n, i) = c
           spot(c)  == CHOOSE i \in 1..SIZE : Cell(key, place(c), i) = c
<1>4. /\ Moved(b, key).board = [c \in Cells |-> pushed[place(c)].line[spot(c)]]
      /\ Moved(b, key).gain = SumTo([n \in 1..SIZE |-> pushed[n].gain], SIZE)
  BY DEF Moved
<1>5. \A n \in 1..SIZE : pushed[n] = Pushed(Line(b, key, n))
  OBVIOUS
<1>6. [n \in 1..SIZE |-> pushed[n].gain] = Gains(b, key)
  BY <1>5 DEF Gains
<1> HIDE DEF pushed
<1>7. ASSUME NEW c \in Cells
      PROVE  place(c) \in 1..SIZE /\ spot(c) \in 1..SIZE /\ Cell(key, place(c), spot(c)) = c
  <2>1. \E n \in 1..SIZE : \E i \in 1..SIZE : Cell(key, n, i) = c
    BY CellPlaces
  <2>2. place(c) \in 1..SIZE /\ \E i \in 1..SIZE : Cell(key, place(c), i) = c
    BY <2>1
  <2> HIDE DEF place
  <2>3. spot(c) \in 1..SIZE /\ Cell(key, place(c), spot(c)) = c
    BY <2>2
  <2> QED BY <2>2, <2>3
<1> HIDE DEF place, spot
<1>8. ASSUME NEW n \in 1..SIZE, NEW i \in 1..SIZE
      PROVE  place(Cell(key, n, i)) = n /\ spot(Cell(key, n, i)) = i
  <2> DEFINE c == Cell(key, n, i)
  <2>1. c \in Cells
    BY CellPlaces
  <2>2. place(c) \in 1..SIZE /\ spot(c) \in 1..SIZE /\ Cell(key, place(c), spot(c)) = Cell(key, n, i)
    BY <1>7, <2>1
  <2> HIDE DEF c
  <2>3. place(c) = n /\ spot(c) = i
    BY <2>2, CellPlaces
  <2> QED BY <2>3 DEF c
<1> DEFINE new == Moved(b, key).board
<1>9. new \in [Cells -> V]
  <2>1. \A c \in Cells : pushed[place(c)].line[spot(c)] \in V
    BY <1>3, <1>5, <1>7
  <2> QED BY <1>4, <2>1
<1>10. ASSUME NEW n \in 1..SIZE
      PROVE  Line(new, key, n) = Pushed(Line(b, key, n)).line
  <2> DEFINE p == Pushed(Line(b, key, n)).line
  <2>1. p \in [1..SIZE -> V]
    BY <1>3
  <2>2. \A i \in 1..SIZE : Line(new, key, n)[i] = p[i]
    <3> TAKE i \in 1..SIZE
    <3> DEFINE c == Cell(key, n, i)
    <3>1. c \in Cells /\ place(c) = n /\ spot(c) = i
      BY <1>8, CellPlaces
    <3>2. Line(new, key, n)[i] = new[c]
      BY DEF Line
    <3>3. new[c] = pushed[n].line[i]
      <4> HIDE DEF c
      <4> QED BY <1>4, <3>1
    <3> QED BY <1>5, <3>2, <3>3
  <2>3. Line(new, key, n) = [i \in 1..SIZE |-> Line(new, key, n)[i]]
    BY DEF Line
  <2> HIDE DEF p, new
  <2> QED BY <2>1, <2>2, <2>3 DEF p
<1>11. Moved(b, key).board \in Boards(V) /\ Moved(b, key).gain = SumTo(Gains(b, key), SIZE)
  BY <1>4, <1>6, <1>9 DEF Boards
<1> HIDE DEF new
<1>12. LinesPushed(new, b, key, V)
  BY <1>3, <1>10 DEF LinesPushed
<1> QED BY <1>11, <1>12 DEF new

\* Line by line, as the lines run for a key.
LineSums(g, key) == [n \in 1..SIZE |-> SumTo([i \in 1..SIZE |-> g[Cell(key, n, i)]], SIZE)]

\* The cells may be added up along the lines of any key.
LEMMA SumOverLines ==
  ASSUME NEW g, \A c \in Cells : g[c] \in Int, NEW key \in Moves
  PROVE  SumTo(LineSums(g, key), SIZE) = BoardSum(g)
<1>1. SIZE \in Nat /\ \A i \in 1..SIZE : SIZE + 1 - i \in 1..SIZE
  BY SizeAssumption
<1>2. \A r \in 1..SIZE, c \in 1..SIZE : g[<<r, c>>] \in Int
  BY DEF Cells
<1> DEFINE row(r)    == [c \in 1..SIZE |-> g[<<r, c>>]]
           column(c) == [r \in 1..SIZE |-> g[<<r, c>>]]
           flat(n)   == [i \in 1..SIZE |-> g[Cell(key, n, i)]]
           rows      == [n \in 1..SIZE |-> SumTo(row(n), SIZE)]
           columns   == [n \in 1..SIZE |-> SumTo(column(n), SIZE)]
           flats     == [n \in 1..SIZE |-> SumTo(flat(n), SIZE)]
<1>3. BoardSum(g) = SumTo(rows, SIZE)
  BY DEF BoardSum
<1>4. SumTo(columns, SIZE) = SumTo(rows, SIZE)
  <2>1. SumTo(RowSums(g, SIZE), SIZE) = SumTo(ColumnSums(g, SIZE), SIZE)
    BY <1>1, <1>2, SumSwapped
  <2> QED BY <2>1 DEF RowSums, ColumnSums
<1>5. ASSUME NEW n \in 1..SIZE
      PROVE  /\ \A i \in 1..SIZE : row(n)[i] \in Int /\ column(n)[i] \in Int
             /\ \A i \in 1..SIZE : row(n)[i] = g[<<n, i>>] /\ column(n)[i] = g[<<i, n>>]
             /\ \A i \in 1..SIZE : flat(n)[i] = g[Cell(key, n, i)]
             /\ SIZE + 1 - n \in 1..SIZE
  BY <1>1, <1>2
<1> SUFFICES SumTo(flats, SIZE) = BoardSum(g)
  BY Zenon DEF LineSums
<1>6. CASE key = "a"
  <2>1. ASSUME NEW n \in 1..SIZE PROVE flat(n) = row(n)
    <3>1. \A i \in 1..SIZE : Cell(key, n, i) = <<n, i>>
      BY <1>6 DEF Cell
    <3> QED BY <3>1
  <2>2. flats = rows
    <3> HIDE DEF flat, row
    <3> QED BY <2>1
  <2> HIDE DEF rows, flats
  <2> QED BY <1>3, <2>2
<1>7. CASE key = "w"
  <2>1. ASSUME NEW n \in 1..SIZE PROVE flat(n) = column(n)
    <3>1. \A i \in 1..SIZE : Cell(key, n, i) = <<i, n>>
      BY <1>7 DEF Cell
    <3> QED BY <3>1
  <2>2. flats = columns
    <3> HIDE DEF flat, column
    <3> QED BY <2>1
  <2> HIDE DEF rows, columns, flats
  <2> QED BY <1>3, <1>4, <2>2
<1>8. CASE key = "d"
  <2>1. ASSUME NEW n \in 1..SIZE PROVE SumTo(flat(n), SIZE) = SumTo(row(n), SIZE)
    <3>1. \A i \in 1..SIZE : row(n)[i] \in Int /\ flat(n)[i] = row(n)[SIZE + 1 - i]
      <4> TAKE i \in 1..SIZE
      <4>1. SIZE + 1 - i \in 1..SIZE
        BY <1>1
      <4>2. Cell(key, n, i) = <<n, SIZE + 1 - i>>
        BY <1>8 DEF Cell
      <4>3. flat(n)[i] = g[<<n, SIZE + 1 - i>>]
        BY <4>2
      <4> QED BY <1>5, <4>1, <4>3
    <3> HIDE DEF flat, row
    <3> QED BY <1>1, <3>1, SumReversed
  <2>2. flats = rows
    <3> HIDE DEF flat, row
    <3> QED BY <2>1
  <2> HIDE DEF rows, flats
  <2> QED BY <1>3, <2>2
<1>9. CASE key = "s"
  <2>1. ASSUME NEW n \in 1..SIZE PROVE SumTo(flat(n), SIZE) = SumTo(column(n), SIZE)
    <3>1. \A i \in 1..SIZE : column(n)[i] \in Int /\ flat(n)[i] = column(n)[SIZE + 1 - i]
      <4> TAKE i \in 1..SIZE
      <4>1. SIZE + 1 - i \in 1..SIZE
        BY <1>1
      <4>2. Cell(key, n, i) = <<SIZE + 1 - i, n>>
        BY <1>9 DEF Cell
      <4>3. flat(n)[i] = g[<<SIZE + 1 - i, n>>]
        BY <4>2
      <4> QED BY <1>5, <4>1, <4>3
    <3> HIDE DEF flat, column
    <3> QED BY <1>1, <3>1, SumReversed
  <2>2. flats = columns
    <3> HIDE DEF flat, column
    <3> QED BY <2>1
  <2> HIDE DEF rows, columns, flats
  <2> QED BY <1>3, <1>4, <2>2
<1> QED BY <1>6, <1>7, <1>8, <1>9 DEF Moves

BoardWeight(U, b) == BoardSum([c \in Cells |-> U[b[c]]])

LineWeights(U, b, key) == [n \in 1..SIZE |-> LineWeight(U, Line(b, key, n), SIZE)]

\* The weight of a board is that of its lines, whatever the key.
LEMMA WeightOverLines ==
  ASSUME NEW b \in [Cells -> Nat], NEW U \in [Nat -> Int], NEW key \in Moves
  PROVE  BoardWeight(U, b) = SumTo(LineWeights(U, b, key), SIZE)
<1> DEFINE g == [c \in Cells |-> U[b[c]]]
           flat(n) == [i \in 1..SIZE |-> g[Cell(key, n, i)]]
<1>1. \A c \in Cells : g[c] \in Int /\ g[c] = U[b[c]]
  OBVIOUS
<1>2. ASSUME NEW n \in 1..SIZE
      PROVE  SumTo(flat(n), SIZE) = LineWeight(U, Line(b, key, n), SIZE)
  <2>1. flat(n) = [i \in 1..SIZE |-> U[Line(b, key, n)[i]]]
    <3>1. \A i \in 1..SIZE : flat(n)[i] = U[Line(b, key, n)[i]]
      <4> TAKE i \in 1..SIZE
      <4>1. Cell(key, n, i) \in Cells
        BY CellPlaces
      <4>2. flat(n)[i] = g[Cell(key, n, i)] /\ Line(b, key, n)[i] = b[Cell(key, n, i)]
        BY DEF Line
      <4> HIDE DEF g
      <4> QED BY <1>1, <4>1, <4>2
    <3> HIDE DEF g
    <3> QED BY <3>1
  <2> HIDE DEF flat
  <2> QED BY <2>1 DEF LineWeight
<1> HIDE DEF g
<1>3. SumTo([n \in 1..SIZE |-> SumTo(flat(n), SIZE)], SIZE) = BoardSum(g)
  <2>1. SumTo(LineSums(g, key), SIZE) = BoardSum(g)
    BY <1>1, SumOverLines
  <2> QED BY <2>1 DEF LineSums
<1>4. [n \in 1..SIZE |-> SumTo(flat(n), SIZE)] = LineWeights(U, b, key)
  <2> HIDE DEF flat
  <2> QED BY <1>2 DEF LineWeights
<1> HIDE DEF flat
<1> QED BY <1>3, <1>4 DEF BoardWeight, g

\* What a move does to the weight of the board.
LEMMA MovedWeight ==
  ASSUME NEW U, NEW W, NEW c, NEW V, Weighs(U, W, c, V), NEW b, b \in Boards(V), NEW key \in Moves
  PROVE  /\ Moved(b, key).board \in Boards(V) /\ Moved(b, key).gain \in Nat
         /\ BoardWeight(U, b) \in Int /\ BoardWeight(W, Moved(b, key).board) \in Int
         /\ BoardWeight(W, Moved(b, key).board) <= BoardWeight(U, b) + c * Moved(b, key).gain
<1>1. /\ U \in [Nat -> Int] /\ W \in [Nat -> Int] /\ c \in Int /\ V \in SUBSET Nat /\ 0 \in V
      /\ \A v \in V : 2 * v \in V
  BY DEF Weighs
<1>2. SIZE \in Nat /\ SIZE \in Nat \ {0} /\ SIZE \in 0..SIZE
  BY SizeAssumption
<1>3. Closed(V)
  BY <1>1 DEF Closed
<1>4. /\ Moved(b, key).board \in Boards(V)
      /\ LinesPushed(Moved(b, key).board, b, key, V)
      /\ Moved(b, key).gain = SumTo(Gains(b, key), SIZE)
  BY <1>3, MovedLines
<1> DEFINE new == Moved(b, key).board
           g == LineWeights(U, b, key)
           f == LineWeights(W, new, key)
           h == Gains(b, key)
<1> HIDE DEF new
<1>5. BoardWeight(U, b) = SumTo(g, SIZE) /\ BoardWeight(W, new) = SumTo(f, SIZE)
  <2>1. b \in [Cells -> Nat] /\ new \in [Cells -> Nat]
    BY <1>1, <1>4 DEF Boards, new
  <2>2. BoardWeight(U, b) = SumTo(LineWeights(U, b, key), SIZE)
    BY <1>1, <2>1, WeightOverLines
  <2>3. BoardWeight(W, new) = SumTo(LineWeights(W, new, key), SIZE)
    BY <1>1, <2>1, WeightOverLines
  <2> QED BY <2>2, <2>3
<1>6. \A n \in 1..SIZE : f[n] \in Int /\ g[n] \in Int /\ h[n] \in Nat /\ f[n] <= g[n] + c * h[n]
  <2> TAKE n \in 1..SIZE
  <2> DEFINE old == Line(b, key, n)
             moved == Pushed(old)
  <2>1. old \in [1..SIZE -> V] /\ Line(new, key, n) = moved.line
    BY <1>4 DEF LinesPushed, new
  <2>2. f[n] = LineWeight(W, moved.line, SIZE) /\ g[n] = LineWeight(U, old, SIZE) /\ h[n] = moved.gain
    BY <2>1 DEF LineWeights, Gains
  <2> HIDE DEF old
  <2>3. /\ moved.gain \in Nat
        /\ LineWeight(U, old, SIZE) \in Int /\ LineWeight(W, moved.line, SIZE) \in Int
        /\ LineWeight(W, moved.line, SIZE) <= LineWeight(U, old, SIZE) + c * moved.gain
    BY <1>2, <2>1, PushedWeight
  <2> HIDE DEF f, g, h, moved
  <2> QED BY <2>2, <2>3
<1>7. Moved(b, key).gain = SumTo(h, SIZE)
  BY <1>4
<1> HIDE DEF f, g, h
<1>8. /\ SumTo(f, SIZE) \in Int /\ SumTo(g, SIZE) \in Int /\ SumTo(h, SIZE) \in Int
      /\ SumTo(f, SIZE) <= SumTo(g, SIZE) + c * SumTo(h, SIZE)
  <2>1. \A n \in 1..SIZE : f[n] \in Int /\ g[n] \in Int /\ h[n] \in Int /\ f[n] <= g[n] + c * h[n]
    BY <1>6
  <2> QED BY <1>1, <1>2, <2>1, SumLeq
\* A move takes no points off.
<1>9. SumTo(h, SIZE) \in Nat
  <2> DEFINE zero == 0
             z == [n \in 1..SIZE |-> 0]
  <2>1. zero \in Int /\ \A n \in 1..SIZE : z[n] \in Int /\ h[n] \in Int /\ z[n] <= h[n] + zero * h[n]
    BY <1>6
  <2>2. \A n \in 1..SIZE : z[n] = 0
    OBVIOUS
  <2> HIDE DEF z, zero
  <2>3. SumTo(z, SIZE) = 0
    BY <1>2, <2>2, SumZero
  <2>4. SumTo(z, SIZE) <= SumTo(h, SIZE) + zero * SumTo(h, SIZE)
    BY <1>2, <2>1, SumLeq
  <2> QED BY <1>8, <2>3, <2>4 DEF zero
<1> QED BY <1>4, <1>5, <1>8, <1>9, <1>7 DEF new

RowOf(g, r) == [c \in 1..SIZE |-> g[<<r, c>>]]

ByRows(g) ==
  \E rows : /\ BoardSum(g) = SumTo(rows, SIZE)
            /\ \A r \in 1..SIZE : rows[r] = SumTo(RowOf(g, r), SIZE)

\* BoardSum adds up the rows.
LEMMA BoardSumByRows ==
  ASSUME NEW g
  PROVE  ByRows(g)
<1>1. BoardSum(g) = SumTo(RowSums(g, SIZE), SIZE)
  BY DEF BoardSum, RowSums
<1>2. RowSums(g, SIZE) = [r \in 1..SIZE |-> SumTo(RowOf(g, r), SIZE)]
  BY DEF RowSums, RowOf
<1> QED BY <1>1, <1>2 DEF ByRows

\* Only cell d differs.
SameBut(f, g, d) == \A c \in Cells : f[c] \in Int /\ g[c] \in Int /\ (c # d => g[c] = f[c])

\* One cell changes the sum by what changes there.
LEMMA BoardSumExcept ==
  ASSUME NEW f, NEW g, NEW d \in Cells, SameBut(f, g, d)
  PROVE  /\ BoardSum(f) \in Int
         /\ BoardSum(g) = BoardSum(f) + g[d] - f[d]
<1>1. SIZE \in Nat /\ SIZE \in 0..SIZE
  BY SizeAssumption
<1>2. PICK x \in 1..SIZE, y \in 1..SIZE : d = <<x, y>>
  BY DEF Cells
<1>3. ByRows(f) /\ ByRows(g)
  BY BoardSumByRows
<1>4. PICK fs : /\ BoardSum(f) = SumTo(fs, SIZE)
                /\ \A r \in 1..SIZE : fs[r] = SumTo(RowOf(f, r), SIZE)
  BY <1>3 DEF ByRows
<1>5. PICK gs : /\ BoardSum(g) = SumTo(gs, SIZE)
                /\ \A r \in 1..SIZE : gs[r] = SumTo(RowOf(g, r), SIZE)
  BY <1>3 DEF ByRows
<1>6. ASSUME NEW r \in 1..SIZE
      PROVE  \A c \in 1..SIZE : /\ RowOf(f, r)[c] \in Int /\ RowOf(g, r)[c] \in Int
                                /\ RowOf(f, r)[c] = f[<<r, c>>] /\ RowOf(g, r)[c] = g[<<r, c>>]
                                /\ r # x \/ c # y => RowOf(g, r)[c] = RowOf(f, r)[c]
  <2> TAKE c \in 1..SIZE
  <2>1. <<r, c>> \in Cells /\ (r # x \/ c # y => <<r, c>> # d)
    BY <1>2 DEF Cells
  <2> QED BY <2>1 DEF RowOf, SameBut
<1>7. \A r \in 1..SIZE : /\ SumTo(RowOf(f, r), SIZE) \in Int /\ SumTo(RowOf(g, r), SIZE) \in Int
                         /\ r # x => SumTo(RowOf(g, r), SIZE) = SumTo(RowOf(f, r), SIZE)
  <2> TAKE r \in 1..SIZE
  <2> DEFINE a == RowOf(f, r)
             b == RowOf(g, r)
  <2>1. \A c \in 1..SIZE : a[c] \in Int /\ b[c] \in Int
    BY <1>6
  <2>2. r # x => \A c \in 1..SIZE : a[c] \in Int /\ b[c] = a[c]
    BY <1>6
  <2> HIDE DEF a, b
  <2>3. SumTo(a, SIZE) \in Int /\ SumTo(b, SIZE) \in Int
    BY <1>1, <2>1, SumToValues
  <2>4. CASE r # x
    <3>1. SumTo(b, SIZE) = SumTo(a, SIZE)
      BY <1>1, <2>2, <2>4, SumSame
    <3> QED BY <2>3, <3>1 DEF a, b
  <2> QED BY <2>3, <2>4 DEF a, b
<1>8. SumTo(RowOf(g, x), SIZE) = SumTo(RowOf(f, x), SIZE) + g[d] - f[d]
  <2> DEFINE a == RowOf(f, x)
             b == RowOf(g, x)
  <2>1. \A c \in 1..SIZE : a[c] \in Int /\ b[c] \in Int /\ (c # y => b[c] = a[c])
    BY <1>6
  <2>2. a[y] = f[d] /\ b[y] = g[d]
    BY <1>2, <1>6
  <2> HIDE DEF a, b
  <2>3. SumTo(b, SIZE) = SumTo(a, SIZE) + b[y] - a[y]
    BY <1>1, <2>1, SumExcept
  <2> QED BY <2>2, <2>3 DEF a, b
<1>9. /\ \A r \in 1..SIZE : fs[r] \in Int /\ gs[r] \in Int /\ (r # x => gs[r] = fs[r])
      /\ gs[x] = fs[x] + g[d] - f[d]
  BY <1>4, <1>5, <1>7, <1>8
<1>10. f[d] \in Int /\ g[d] \in Int /\ fs[x] \in Int
  BY <1>9 DEF SameBut
<1>11. SumTo(fs, SIZE) \in Int /\ SumTo(gs, SIZE) = SumTo(fs, SIZE) + gs[x] - fs[x]
  BY <1>1, <1>9, SumExcept
<1>12. SumTo(gs, SIZE) = SumTo(fs, SIZE) + g[d] - f[d]
  BY <1>9, <1>10, <1>11
<1> QED BY <1>4, <1>5, <1>11, <1>12

Added(h, f, g) == \A c \in Cells : f[c] \in Int /\ g[c] \in Int /\ h[c] = f[c] + g[c]

\* The cells of a row.
LEMMA RowOfIs ==
  ASSUME NEW f, NEW r \in 1..SIZE, NEW c \in 1..SIZE
  PROVE  <<r, c>> \in Cells /\ RowOf(f, r)[c] = f[<<r, c>>]
BY DEF RowOf, Cells

\* The sum of two boards, cell by cell.
LEMMA BoardSumPlus ==
  ASSUME NEW f, NEW g, NEW h, Added(h, f, g)
  PROVE  /\ BoardSum(f) \in Int /\ BoardSum(g) \in Int
         /\ BoardSum(h) = BoardSum(f) + BoardSum(g)
<1>1. SIZE \in Nat
  BY SizeAssumption
<1>2. ByRows(f) /\ ByRows(g) /\ ByRows(h)
  BY BoardSumByRows
<1>3. PICK fs : /\ BoardSum(f) = SumTo(fs, SIZE)
                /\ \A r \in 1..SIZE : fs[r] = SumTo(RowOf(f, r), SIZE)
  BY <1>2 DEF ByRows
<1>4. PICK gs : /\ BoardSum(g) = SumTo(gs, SIZE)
                /\ \A r \in 1..SIZE : gs[r] = SumTo(RowOf(g, r), SIZE)
  BY <1>2 DEF ByRows
<1>5. PICK hs : /\ BoardSum(h) = SumTo(hs, SIZE)
                /\ \A r \in 1..SIZE : hs[r] = SumTo(RowOf(h, r), SIZE)
  BY <1>2 DEF ByRows
<1>6. \A r \in 1..SIZE : /\ SumTo(RowOf(f, r), SIZE) \in Int /\ SumTo(RowOf(g, r), SIZE) \in Int
                         /\ SumTo(RowOf(h, r), SIZE) = SumTo(RowOf(f, r), SIZE) + SumTo(RowOf(g, r), SIZE)
  <2> TAKE r \in 1..SIZE
  <2> DEFINE a == RowOf(f, r)
             b == RowOf(g, r)
             d == RowOf(h, r)
  <2>1. \A c \in 1..SIZE : a[c] \in Int /\ b[c] \in Int /\ d[c] = a[c] + b[c]
    <3> TAKE c \in 1..SIZE
    <3>1. <<r, c>> \in Cells /\ a[c] = f[<<r, c>>] /\ b[c] = g[<<r, c>>] /\ d[c] = h[<<r, c>>]
      BY RowOfIs
    <3> HIDE DEF a, b, d
    <3> QED BY <3>1 DEF Added
  <2> HIDE DEF a, b, d
  <2>2. SumTo(a, SIZE) \in Int /\ SumTo(b, SIZE) \in Int /\ SumTo(d, SIZE) = SumTo(a, SIZE) + SumTo(b, SIZE)
    BY <1>1, <2>1, SumPlus
  <2> QED BY <2>2 DEF a, b, d
<1>7. \A r \in 1..SIZE : fs[r] \in Int /\ gs[r] \in Int /\ hs[r] = fs[r] + gs[r]
  BY <1>3, <1>4, <1>5, <1>6
<1>8. /\ SumTo(fs, SIZE) \in Int /\ SumTo(gs, SIZE) \in Int
      /\ SumTo(hs, SIZE) = SumTo(fs, SIZE) + SumTo(gs, SIZE)
  BY <1>1, <1>7, SumPlus
<1> QED BY <1>3, <1>4, <1>5, <1>8

\* An empty board sums to 0.
LEMMA BoardSumZero ==
  ASSUME NEW f, \A c \in Cells : f[c] \in {0}
  PROVE  BoardSum(f) = 0
<1>1. Added(f, f, f)
  BY DEF Added
<1>2. BoardSum(f) \in Int /\ BoardSum(f) = BoardSum(f) + BoardSum(f)
  BY <1>1, BoardSumPlus
<1> DEFINE s == BoardSum(f)
<1>3. s \in Int /\ s = s + s
  BY <1>2
<1> HIDE DEF s
<1>4. s = 0
  BY <1>3
<1> QED BY <1>4 DEF s

\* The sum of a board of integers is one.
LEMMA BoardSumInt ==
  ASSUME NEW f, \A c \in Cells : f[c] \in Int
  PROVE  BoardSum(f) \in Int
<1> DEFINE h == [c \in Cells |-> f[c] + f[c]]
<1>1. Added(h, f, f)
  BY DEF Added
<1> HIDE DEF h
<1> QED BY <1>1, BoardSumPlus

\* Zeros and ones.
LEMMA BoardSumBounds ==
  ASSUME NEW f, \A c \in Cells : f[c] \in 0..1
  PROVE  /\ BoardSum(f) \in 0..SIZE * SIZE
         /\ \A c \in Cells : f[c] <= BoardSum(f)
<1>1. SIZE \in Nat /\ 1 \in Nat /\ SIZE * 1 = SIZE
  BY SizeAssumption
<1>2. ByRows(f)
  BY BoardSumByRows
<1>3. PICK fs : /\ BoardSum(f) = SumTo(fs, SIZE)
                /\ \A r \in 1..SIZE : fs[r] = SumTo(RowOf(f, r), SIZE)
  BY <1>2 DEF ByRows
<1>4. ASSUME NEW r \in 1..SIZE
      PROVE  /\ SumTo(RowOf(f, r), SIZE) \in 0..SIZE
             /\ \A c \in 1..SIZE : f[<<r, c>>] <= SumTo(RowOf(f, r), SIZE)
  <2> DEFINE a == RowOf(f, r)
  <2>1. \A c \in 1..SIZE : a[c] = f[<<r, c>>] /\ <<r, c>> \in Cells
    BY RowOfIs
  <2> HIDE DEF a
  <2>2. \A c \in 1..SIZE : a[c] \in 0..1
    BY <2>1
  <2>3. SumTo(a, SIZE) \in 0..SIZE * 1 /\ \A c \in 1..SIZE : a[c] <= SumTo(a, SIZE)
    BY <1>1, <2>2, SumBounds
  <2> QED BY <1>1, <2>1, <2>3 DEF a
<1>5. \A r \in 1..SIZE : fs[r] \in 0..SIZE
  BY <1>3, <1>4
<1>6. SumTo(fs, SIZE) \in 0..SIZE * SIZE /\ \A r \in 1..SIZE : fs[r] <= SumTo(fs, SIZE)
  BY <1>1, <1>5, SumBounds
<1>7. ASSUME NEW c \in Cells PROVE f[c] <= SumTo(fs, SIZE)
  <2>1. PICK x \in 1..SIZE, y \in 1..SIZE : c = <<x, y>>
    BY DEF Cells
  <2>2. f[<<x, y>>] <= fs[x] /\ fs[x] <= SumTo(fs, SIZE) /\ fs[x] \in Int
    BY <1>1, <1>3, <1>4, <1>5, <1>6
  <2>3. f[<<x, y>>] \in Int /\ SumTo(fs, SIZE) \in Int
    <3>1. f[c] \in Int
      OBVIOUS
    <3>2. SIZE * SIZE \in Int
      BY <1>1
    <3> QED BY <1>6, <2>1, <3>1, <3>2
  <2> QED BY <2>1, <2>2, <2>3
<1> QED BY <1>3, <1>6, <1>7

-----------------------------------------------------------------------------

\* The weight of a board is an integer.
LEMMA BoardWeightInt ==
  ASSUME NEW U \in [Nat -> Int], NEW b \in [Cells -> Nat]
  PROVE  BoardWeight(U, b) \in Int
<1> DEFINE f == [c \in Cells |-> U[b[c]]]
<1>1. \A c \in Cells : f[c] \in Int
  OBVIOUS
<1> HIDE DEF f
<1>2. BoardSum(f) \in Int
  BY <1>1, BoardSumInt
<1> QED BY <1>2 DEF BoardWeight, f

\* A weight that is the sum of two.
LEMMA BoardWeightPlus ==
  ASSUME NEW U \in [Nat -> Int], NEW W \in [Nat -> Int], NEW X \in [Nat -> Int],
         \A v \in Nat : X[v] = U[v] + W[v], NEW b \in [Cells -> Nat]
  PROVE  BoardWeight(X, b) = BoardWeight(U, b) + BoardWeight(W, b)
<1> DEFINE f == [c \in Cells |-> U[b[c]]]
           g == [c \in Cells |-> W[b[c]]]
           h == [c \in Cells |-> X[b[c]]]
<1>1. \A c \in Cells : f[c] \in Int /\ g[c] \in Int /\ h[c] = f[c] + g[c]
  OBVIOUS
<1> HIDE DEF f, g, h
<1>2. Added(h, f, g)
  BY <1>1 DEF Added
<1>3. BoardSum(h) = BoardSum(f) + BoardSum(g)
  BY <1>2, BoardSumPlus
<1> QED BY <1>3 DEF BoardWeight, f, g, h

\* What spawnNumber adds.
LEMMA SpawnWeight ==
  ASSUME NEW U \in [Nat -> Int], NEW b \in [Cells -> Nat], NEW new \in Spawns(b)
  PROVE  /\ new \in [Cells -> Nat] /\ BoardWeight(U, b) \in Int
         /\ \A c \in Cells : new[c] = b[c] \/ new[c] = 2
         /\ \/ isBoardFull(b) /\ new = b
            \/ BoardWeight(U, new) = BoardWeight(U, b) + (U[2] - U[0])
<1>1. BoardWeight(U, b) \in Int
  BY BoardWeightInt
<1>2. CASE isBoardFull(b)
  <2>1. new = b
    BY <1>2 DEF Spawns
  <2> QED BY <1>1, <1>2, <2>1
<1>3. CASE ~isBoardFull(b)
  <2>1. PICK d \in Cells : b[d] = 0 /\ new = [b EXCEPT ![d] = 2]
    BY <1>3 DEF Spawns
  <2> DEFINE f == [c \in Cells |-> U[b[c]]]
             g == [c \in Cells |-> U[new[c]]]
  <2>2. new \in [Cells -> Nat] /\ new[d] = 2 /\ \A c \in Cells : c # d => new[c] = b[c]
    BY <2>1
  <2>3. \A c \in Cells : f[c] \in Int /\ g[c] \in Int /\ (c # d => g[c] = f[c])
    BY <2>2
  <2>4. f[d] = U[0] /\ g[d] = U[2] /\ U[0] \in Int /\ U[2] \in Int
    BY <2>1, <2>2
  <2> HIDE DEF f, g
  <2>5. SameBut(f, g, d)
    BY <2>3 DEF SameBut
  <2>6. BoardSum(f) \in Int /\ BoardSum(g) = BoardSum(f) + g[d] - f[d]
    BY <2>5, BoardSumExcept
  <2>7. BoardSum(g) = BoardSum(f) + (U[2] - U[0])
    BY <2>4, <2>6
  <2>8. BoardWeight(U, new) = BoardWeight(U, b) + (U[2] - U[0])
    BY <2>7 DEF BoardWeight, f, g
  <2> QED BY <1>1, <2>2, <2>8
<1> QED BY <1>2, <1>3

\* The board on which a game starts: the tile in the corner is the only 4.
LEMMA InitialWeight ==
  ASSUME NEW U \in [Nat -> Int], U[0] = 0, U[2] = 0, NEW b \in InitialBoards
  PROVE  /\ b \in [Cells -> {0, 2, 4}]
         /\ BoardWeight(U, b) = U[4]
<1> DEFINE d == <<1, 1>>
<1>1. d \in Cells
  BY SizeAssumption DEF Cells
<1>2. b \in [Cells -> {0, 2, 4}] /\ b[d] = 4 /\ \A c \in Cells : c # d => b[c] \in {0, 2}
  <2>1. PICK x \in Cells, y \in Cells :
          b = [[c \in Cells |-> IF c \in {x, y} THEN 2 ELSE 0] EXCEPT ![<<1, 1>>] = 4]
    BY DEF InitialBoards
  <2> DEFINE a == [c \in Cells |-> IF c \in {x, y} THEN 2 ELSE 0]
  <2>2. a \in [Cells -> {0, 2}] /\ b = [a EXCEPT ![d] = 4]
    BY <2>1
  <2> HIDE DEF a, d
  <2> QED BY <1>1, <2>2
<1> HIDE DEF d
<1> DEFINE f == [c \in Cells |-> 0]
           g == [c \in Cells |-> U[b[c]]]
<1>3. \A c \in Cells : f[c] \in {0} /\ f[c] \in Int /\ g[c] \in Int /\ (c # d => g[c] = f[c])
  BY <1>2
<1>4. f[d] = 0 /\ g[d] = U[4] /\ U[4] \in Int
  BY <1>1, <1>2
<1> HIDE DEF f, g
<1>5. SameBut(f, g, d)
  BY <1>3 DEF SameBut
<1>6. BoardSum(f) = 0
  BY <1>3, BoardSumZero
<1>7. BoardSum(g) = BoardSum(f) + g[d] - f[d]
  BY <1>1, <1>5, BoardSumExcept
<1>8. BoardSum(g) = U[4]
  BY <1>4, <1>6, <1>7
<1> QED BY <1>2, <1>8 DEF BoardWeight, g

\* A weight that doubles with a number, but for a multiple of the number, is
\* kept by a move up to that multiple of what is scored.
THEOREM MovedExactly ==
  ASSUME NEW U \in [Nat -> Int], U[0] = 0, NEW c \in Int, NEW V, Closed(V),
         \A v \in V : v # 0 => U[2 * v] = 2 * U[v] + c * v,
         NEW b, b \in Boards(V), NEW key \in Moves
  PROVE  /\ Moved(b, key).board \in Boards(V) /\ Moved(b, key).gain \in Nat
         /\ BoardWeight(U, b) \in Int
         /\ BoardWeight(U, Moved(b, key).board) = BoardWeight(U, b) + c * Moved(b, key).gain
<1> DEFINE N == [v \in Nat |-> -U[v]]
           Z == [v \in Nat |-> 0]
           d == -c
           new == Moved(b, key).board
           x == Moved(b, key).gain
<1>1. V \in SUBSET Nat /\ 0 \in V /\ \A v \in V : 2 * v \in V
  BY DEF Closed
<1>2. /\ N \in [Nat -> Int] /\ Z \in [Nat -> Int] /\ d \in Int
      /\ \A v \in Nat : N[v] = -U[v] /\ Z[v] = 0
      /\ \A v \in Nat : U[v] \in Int /\ Z[v] = U[v] + N[v]
  OBVIOUS
<1>3. \A v \in V : v # 0 => N[2 * v] = 2 * N[v] + d * v
  <2> TAKE v \in V
  <2>1. v \in Nat /\ 2 * v \in Nat
    BY <1>1
  <2>2. v # 0 => U[2 * v] = 2 * U[v] + c * v
    OBVIOUS
  <2>3. d * v = -(c * v) /\ c * v \in Int
    BY <2>1
  <2> HIDE DEF N, d
  <2>4. N[2 * v] = -U[2 * v] /\ N[v] = -U[v] /\ U[v] \in Int /\ U[2 * v] \in Int
    BY <1>2, <2>1
  <2> DEFINE p == U[v]
             q == U[2 * v]
             t == c * v
  <2>5. /\ N[2 * v] = -q /\ N[v] = -p /\ p \in Int /\ q \in Int /\ t \in Int /\ d * v = -t
        /\ v # 0 => q = 2 * p + t
    BY <2>2, <2>3, <2>4
  <2> HIDE DEF p, q, t
  <2> QED BY <2>5
<1> HIDE DEF N, Z
<1>4. Weighs(U, U, c, V)
  <2>1. \A v \in V : /\ 2 * v \in V /\ U[v] <= U[v]
                     /\ v # 0 => U[2 * v] <= 2 * U[v] + c * v
    <3> TAKE v \in V
    <3>1. v \in Nat /\ 2 * v \in Nat /\ 2 * v \in V /\ U[v] \in Int /\ U[2 * v] \in Int
      BY <1>1
    <3> QED BY <3>1
  <2> QED BY <1>1, <2>1 DEF Weighs
<1>5. Weighs(N, N, d, V)
  <2> HIDE DEF d
  <2>1. \A v \in V : /\ 2 * v \in V /\ N[v] <= N[v]
                     /\ v # 0 => N[2 * v] <= 2 * N[v] + d * v
    <3> TAKE v \in V
    <3>1. v \in Nat /\ 2 * v \in Nat /\ 2 * v \in V /\ N[v] \in Int /\ N[2 * v] \in Int
      BY <1>1, <1>2
    <3>2. v # 0 => N[2 * v] = 2 * N[v] + d * v
      BY <1>3
    <3> QED BY <3>1, <3>2
  <2>2. N[0] = 0
    BY <1>2
  <2> QED BY <1>1, <1>2, <2>1, <2>2 DEF Weighs
<1>6. /\ new \in Boards(V) /\ x \in Nat
      /\ BoardWeight(U, b) \in Int /\ BoardWeight(U, new) \in Int
      /\ BoardWeight(U, new) <= BoardWeight(U, b) + c * x
  BY <1>4, MovedWeight
<1>7. /\ BoardWeight(N, b) \in Int /\ BoardWeight(N, new) \in Int
      /\ BoardWeight(N, new) <= BoardWeight(N, b) + d * x
  <2> HIDE DEF d
  <2> QED BY <1>5, MovedWeight
<1> HIDE DEF new, x
<1>8. b \in [Cells -> Nat] /\ new \in [Cells -> Nat]
  BY <1>1, <1>6 DEF Boards
<1>9. ASSUME NEW a \in [Cells -> Nat] PROVE BoardWeight(U, a) + BoardWeight(N, a) = 0
  <2>1. BoardWeight(Z, a) = BoardWeight(U, a) + BoardWeight(N, a)
    BY <1>2, BoardWeightPlus
  <2> DEFINE f == [i \in Cells |-> Z[a[i]]]
  <2>2. \A i \in Cells : f[i] \in {0}
    BY <1>2
  <2> HIDE DEF f
  <2>3. BoardSum(f) = 0
    BY <2>2, BoardSumZero
  <2> QED BY <2>1, <2>3 DEF BoardWeight, f
<1>10. d * x = -(c * x) /\ c * x \in Int
  BY <1>6
<1>11. BoardWeight(U, b) + BoardWeight(N, b) = 0 /\ BoardWeight(U, new) + BoardWeight(N, new) = 0
  BY <1>8, <1>9
<1>12. BoardWeight(U, new) = BoardWeight(U, b) + c * x
  <2> DEFINE p == BoardWeight(U, b)
             q == BoardWeight(U, new)
             r == BoardWeight(N, b)
             s == BoardWeight(N, new)
             t == c * x
  <2>1. /\ p \in Int /\ q \in Int /\ r \in Int /\ s \in Int /\ t \in Int
        /\ q <= p + t /\ s <= r + (-t) /\ p + r = 0 /\ q + s = 0
    <3>1. s <= r + d * x
      BY <1>7
    <3> HIDE DEF d, p, q, r, s
    <3>2. s <= r + (-t)
      BY <1>10, <3>1
    <3> QED BY <1>6, <1>7, <1>10, <1>11, <3>2 DEF p, q, r, s
  <2> HIDE DEF p, q, r, s, t
  <2>2. q = p + t
    BY <2>1
  <2> QED BY <2>2 DEF p, q, t
<1> QED BY <1>6, <1>12 DEF new, x

-----------------------------------------------------------------------------
(* Powers of two.                                                          *)

\* Powers of two increase,
LEMMA PowerIncreases ==
  ASSUME NEW j \in Nat, NEW k \in Nat, j < k
  PROVE  Power[j] < Power[k]
<1> DEFINE T == {n \in Nat : Power[j] < Power[j + n + 1]}
<1>1. \A n \in Nat : Power[n] \in Nat /\ Power[n] > 0 /\ Power[n + 1] = 2 * Power[n]
  BY PowerValues
<1>2. 0 \in T
  <2>1. j + 0 + 1 = j + 1
    OBVIOUS
  <2>2. Power[j] < Power[j + 1]
    BY <1>1
  <2> QED BY <2>1, <2>2
<1>3. ASSUME NEW n \in T PROVE n + 1 \in T
  <2> DEFINE i == j + n + 1
  <2>1. n \in Nat /\ i \in Nat /\ j + (n + 1) + 1 = i + 1 /\ n + 1 \in Nat /\ Power[j] < Power[i]
    OBVIOUS
  <2> HIDE DEF i
  <2>2. Power[j] < Power[i + 1]
    BY <1>1, <2>1
  <2> QED BY <2>1, <2>2
<1>4. T = Nat
  <2>1. T \in SUBSET Nat
    OBVIOUS
  <2> HIDE DEF T
  <2> QED BY <1>2, <1>3, <2>1, Induction
<1> DEFINE z == k - j - 1
<1>5. z \in Nat /\ j + z + 1 = k
  OBVIOUS
<1>6. z \in T
  BY <1>4, <1>5
<1> HIDE DEF z
<1> QED BY <1>5, <1>6

\* and so they differ.
LEMMA PowersDiffer ==
  ASSUME NEW j \in Nat, NEW k \in Nat, Power[j] = Power[k]
  PROVE  j = k
<1>1. Power[j] \in Nat /\ Power[k] \in Nat
  BY PowerValues
<1>2. ~(j < k)
  <2>1. j < k => Power[j] < Power[k]
    BY PowerIncreases
  <2> QED BY <1>1, <2>1
<1>3. ~(k < j)
  <2>1. k < j => Power[k] < Power[j]
    BY PowerIncreases
  <2> QED BY <1>1, <2>1
<1> QED BY <1>2, <1>3

\* The numbers that may be on a board.
Numbers == {0} \cup {Power[k] : k \in Nat \ {0}}

Exponent(v) == CHOOSE k \in Nat \ {0} : v = Power[k]

\* A power of two has one exponent.
LEMMA ExponentIs ==
  ASSUME NEW k \in Nat \ {0}
  PROVE  Power[k] \in Numbers /\ Power[k] # 0 /\ Exponent(Power[k]) = k
<1>1. Power[k] \in Numbers /\ Power[k] # 0
  BY PowerValues DEF Numbers
<1> DEFINE v == Power[k]
<1>2. \E j \in Nat \ {0} : v = Power[j]
  OBVIOUS
<1> HIDE DEF v
<1>3. Exponent(v) \in Nat \ {0} /\ v = Power[Exponent(v)]
  BY <1>2 DEF Exponent
<1>4. Exponent(v) = k
  BY <1>3, PowersDiffer DEF v
<1> QED BY <1>1, <1>4 DEF v

\* Merging two tiles yields one of the numbers that may be on a board.
LEMMA NumbersClosed == Closed(Numbers) /\ 2 \in Numbers /\ 4 \in Numbers /\ Power[1] = 2 /\ Power[2] = 4
<1>1. Numbers \in SUBSET Nat /\ 0 \in Numbers
  BY PowerValues DEF Numbers
<1>2. Power[1] = 2 /\ Power[2] = 4
  <2>1. Power[0 + 1] = 2 * Power[0] /\ Power[1 + 1] = 2 * Power[1] /\ Power[0] = 1
    BY PowerValues
  <2>2. 0 + 1 = 1 /\ 1 + 1 = 2
    OBVIOUS
  <2> QED BY <2>1, <2>2
<1>3. 2 \in Numbers /\ 4 \in Numbers
  <2>1. 1 \in Nat \ {0} /\ 2 \in Nat \ {0}
    OBVIOUS
  <2> QED BY <1>2, <2>1 DEF Numbers
<1>4. ASSUME NEW v \in Numbers PROVE 2 * v \in Numbers
  <2>1. CASE v = 0
    BY <1>1, <2>1
  <2>2. CASE v # 0
    <3>1. PICK k \in Nat \ {0} : v = Power[k]
      BY <2>2 DEF Numbers
    <3>2. k + 1 \in Nat \ {0} /\ Power[k + 1] = 2 * Power[k]
      BY PowerValues
    <3> QED BY <3>1, <3>2 DEF Numbers
  <2> QED BY <2>1, <2>2
<1> QED BY <1>1, <1>2, <1>3, <1>4 DEF Closed

-----------------------------------------------------------------------------
(* What a tile has scored.                                                 *)

Merit == [v \in Nat |-> IF v \in Numbers \ {0} THEN (Exponent(v) - 1) * Power[Exponent(v) - 1] ELSE 0]

\* The merit of 2^k.
LEMMA MeritOf ==
  ASSUME NEW k \in Nat \ {0}
  PROVE  Merit[Power[k]] = (k - 1) * Power[k - 1] /\ k - 1 \in Nat /\ Power[k - 1] \in Nat
<1>1. k - 1 \in Nat /\ Power[k - 1] \in Nat /\ Power[k] \in Nat
  BY PowerValues
<1>2. Power[k] \in Numbers \ {0} /\ Exponent(Power[k]) = k
  BY ExponentIs
<1> DEFINE v == Power[k]
<1>3. v \in Numbers \ {0} /\ Exponent(v) = k /\ v \in Nat
  BY <1>1, <1>2
<1> HIDE DEF v
<1>4. Merit[v] = (k - 1) * Power[k - 1]
  BY <1>3 DEF Merit
<1> QED BY <1>1, <1>4 DEF v

\* A merge adds the tile to the merit of the two; only the first 4 was not merged.
LEMMA MeritValues ==
  /\ Merit \in [Nat -> Int] /\ Merit[0] = 0 /\ Merit[2] = 0 /\ Merit[4] = 2
  /\ \A v \in Numbers : v # 0 => Merit[2 * v] = 2 * Merit[v] + 1 * v
<1>1. ASSUME NEW v \in Nat PROVE Merit[v] \in Int
  <2>1. CASE v \in Numbers \ {0}
    <3>1. PICK k \in Nat \ {0} : v = Power[k]
      BY <2>1 DEF Numbers
    <3>2. Merit[v] = (k - 1) * Power[k - 1] /\ k - 1 \in Nat /\ Power[k - 1] \in Nat
      BY <3>1, MeritOf
    <3> DEFINE p == Power[k - 1]
    <3>3. Merit[v] = (k - 1) * p /\ p \in Int
      BY <3>2
    <3> HIDE DEF p
    <3> QED BY <3>3
  <2>2. CASE ~(v \in Numbers \ {0})
    BY <2>2 DEF Merit
  <2> QED BY <2>1, <2>2
<1>2. Merit = [v \in Nat |-> Merit[v]]
  BY DEF Merit
<1>3. Merit \in [Nat -> Int]
  <2> DEFINE M == Merit
  <2>1. M = [v \in Nat |-> M[v]] /\ \A v \in Nat : M[v] \in Int
    BY <1>1, <1>2
  <2> HIDE DEF M
  <2>2. M \in [Nat -> Int]
    BY <2>1
  <2> QED BY <2>2 DEF M
<1>4. Merit[0] = 0
  BY DEF Merit
<1>5. Merit[2] = 0 /\ Merit[4] = 2
  <2>1. 1 \in Nat \ {0} /\ 2 \in Nat \ {0} /\ 1 - 1 = 0 /\ 2 - 1 = 1
    OBVIOUS
  <2>2. Merit[Power[1]] = 0 * Power[0] /\ Merit[Power[2]] = 1 * Power[1]
    BY <2>1, MeritOf
  <2> QED BY <2>2, NumbersClosed, PowerValues
<1>6. ASSUME NEW v \in Numbers, v # 0 PROVE Merit[2 * v] = 2 * Merit[v] + 1 * v
  <2>1. PICK k \in Nat \ {0} : v = Power[k]
    BY <1>6 DEF Numbers
  <2> DEFINE j == k + 1
             i == k - 1
  <2>2. j \in Nat \ {0} /\ j - 1 = k /\ i \in Nat /\ i + 1 = k
    OBVIOUS
  <2> HIDE DEF j, i
  <2>3. Merit[Power[j]] = k * Power[k]
    BY <2>2, MeritOf
  <2>4. Power[j] = 2 * Power[k] /\ Power[k] = 2 * Power[i] /\ Power[i] \in Nat
    <3>1. Power[k + 1] = 2 * Power[k] /\ Power[i + 1] = 2 * Power[i] /\ Power[i] \in Nat
      BY <2>2, PowerValues
    <3> QED BY <2>2, <3>1 DEF j
  <2>5. Merit[v] = i * Power[i]
    <3>1. Merit[Power[k]] = (k - 1) * Power[k - 1]
      BY MeritOf
    <3> QED BY <2>1, <3>1 DEF i
  <2> DEFINE p == Power[i]
  <2>6. 2 * v = Power[j] /\ v = 2 * p /\ p \in Nat /\ Power[k] = 2 * p
    BY <2>1, <2>4
  <2>7. Merit[2 * v] = k * (2 * p) /\ Merit[v] = i * p
    BY <2>3, <2>5, <2>6
  <2> HIDE DEF p
  <2>8. k * (2 * p) = 2 * (k * p) /\ k * p = i * p + p /\ k * p \in Int /\ i * p \in Int
    BY <2>2, <2>6
  <2> QED BY <2>6, <2>7, <2>8
<1> QED BY <1>3, <1>4, <1>5, <1>6

-----------------------------------------------------------------------------
(* How many tiles are at least 2^k.                                        *)

AtLeast(k) == [v \in Nat |-> IF v >= Power[k] THEN 1 ELSE 0]
Count(k, b) == BoardWeight(AtLeast(k), b)

\* Twice the tiles of a kind after a move were tiles of that kind or the one below.
LEMMA CountMoved ==
  ASSUME NEW k \in Nat \ {0}, NEW b, b \in Boards(Numbers), NEW key \in Moves
  PROVE  /\ Count(k, b) \in Int /\ Count(k - 1, b) \in Int
         /\ Count(k, Moved(b, key).board) \in Int
         /\ 2 * Count(k, Moved(b, key).board) <= Count(k, b) + Count(k - 1, b)
<1> DEFINE i == k - 1
           w == AtLeast(k)
           x == AtLeast(i)
           U == [v \in Nat |-> w[v] + x[v]]
           W == [v \in Nat |-> w[v] + w[v]]
           c == 0
           new == Moved(b, key).board
<1>1. i \in Nat /\ i + 1 = k
  OBVIOUS
<1> HIDE DEF i
<1>2. Power[k] = 2 * Power[i] /\ Power[i] \in Nat /\ Power[i] > 0
  <2>1. Power[i + 1] = 2 * Power[i] /\ Power[i] \in Nat /\ Power[i] > 0
    BY <1>1, PowerValues
  <2> QED BY <1>1, <2>1
<1>3. \A v \in Nat : /\ w[v] = (IF v >= Power[k] THEN 1 ELSE 0)
                     /\ x[v] = (IF v >= Power[i] THEN 1 ELSE 0)
  BY DEF AtLeast
<1>4. w \in [Nat -> Int] /\ x \in [Nat -> Int]
  BY DEF AtLeast
<1> HIDE DEF w, x
<1>5. \A v \in Nat : w[v] \in 0..1 /\ x[v] \in 0..1 /\ w[v] <= x[v] /\ w[2 * v] = x[v]
  <2> DEFINE p == Power[i]
  <2>1. \A v \in Nat : /\ w[v] = (IF v >= 2 * p THEN 1 ELSE 0)
                       /\ x[v] = (IF v >= p THEN 1 ELSE 0)
    BY <1>2, <1>3
  <2>2. p \in Nat
    BY <1>2
  <2> HIDE DEF p
  <2> TAKE v \in Nat
  <2>3. 2 * v \in Nat
    OBVIOUS
  <2>4. w[2 * v] = (IF 2 * v >= 2 * p THEN 1 ELSE 0)
    BY <2>1, <2>3
  <2>5. w[v] = (IF v >= 2 * p THEN 1 ELSE 0) /\ x[v] = (IF v >= p THEN 1 ELSE 0)
    BY <2>1
  <2> QED BY <2>2, <2>4, <2>5
<1>6. w[0] = 0 /\ x[0] = 0
  BY <1>2, <1>3
<1>7. /\ U \in [Nat -> Int] /\ W \in [Nat -> Int] /\ U[0] = 0 /\ c \in Int
      /\ \A v \in Nat : U[v] = w[v] + x[v] /\ W[v] = w[v] + w[v]
  BY <1>4, <1>6
<1> HIDE DEF U, W
<1>8. Weighs(U, W, c, Numbers)
  <2>1. Numbers \in SUBSET Nat /\ 0 \in Numbers /\ \A v \in Numbers : 2 * v \in Numbers
    BY NumbersClosed DEF Closed
  <2>2. \A v \in Numbers : /\ 2 * v \in Numbers /\ W[v] <= U[v]
                           /\ v # 0 => W[2 * v] <= 2 * U[v] + c * v
    <3> TAKE v \in Numbers
    <3>1. v \in Nat /\ 2 * v \in Nat
      BY <2>1
    <3>2. U[v] = w[v] + x[v] /\ W[v] = w[v] + w[v] /\ W[2 * v] = w[2 * v] + w[2 * v]
      BY <1>7, <3>1
    <3>3. w[v] \in 0..1 /\ x[v] \in 0..1 /\ w[v] <= x[v] /\ w[2 * v] = x[v] /\ c * v = 0
      BY <1>5, <3>1
    <3> QED BY <2>1, <3>2, <3>3
  <2> HIDE DEF c
  <2> QED BY <1>7, <2>1, <2>2 DEF Weighs
<1>9. /\ new \in Boards(Numbers) /\ Moved(b, key).gain \in Nat
      /\ BoardWeight(W, new) <= BoardWeight(U, b) + c * Moved(b, key).gain
      /\ BoardWeight(U, b) \in Int
  <2> HIDE DEF c
  <2> QED BY <1>8, MovedWeight
<1>10. BoardWeight(W, new) <= BoardWeight(U, b)
  <2> DEFINE g == Moved(b, key).gain
  <2>1. g \in Nat /\ BoardWeight(W, new) <= BoardWeight(U, b) + c * g
    BY <1>9
  <2> HIDE DEF g
  <2>2. c * g = 0
    BY <2>1
  <2> HIDE DEF c, new
  <2> QED BY <1>9, <2>1, <2>2
<1> HIDE DEF new
<1>11. b \in [Cells -> Nat] /\ new \in [Cells -> Nat]
  BY <1>9, NumbersClosed DEF Boards, Closed
<1>12. BoardWeight(U, b) = BoardWeight(w, b) + BoardWeight(x, b)
  BY <1>4, <1>7, <1>11, BoardWeightPlus
<1>13. BoardWeight(W, new) = BoardWeight(w, new) + BoardWeight(w, new)
  BY <1>4, <1>7, <1>11, BoardWeightPlus
<1>14. BoardWeight(w, b) \in Int /\ BoardWeight(x, b) \in Int /\ BoardWeight(w, new) \in Int
  BY <1>4, <1>11, BoardWeightInt
<1> QED BY <1>10, <1>12, <1>13, <1>14 DEF Count, w, x, i, new

\* Few enough of every kind for the next to be a tile.
Bounded(b) == \A k \in Nat \ {0} : Count(k, b) > 0 => Count(k, b) + k <= SIZE * SIZE + 2

\* There are no more tiles than cells.
LEMMA CountBounds ==
  ASSUME NEW k \in Nat \ {0}, NEW b, b \in Boards(Numbers)
  PROVE  /\ Count(k, b) \in 0..SIZE * SIZE
         /\ \A c \in Cells : b[c] >= Power[k] => Count(k, b) >= 1
<1> DEFINE w == AtLeast(k)
           f == [c \in Cells |-> w[b[c]]]
<1>1. b \in [Cells -> Nat]
  BY NumbersClosed DEF Boards, Closed
<1>2. \A v \in Nat : w[v] \in 0..1 /\ (v >= Power[k] => w[v] = 1)
  BY DEF AtLeast
<1> HIDE DEF w
<1>3. \A c \in Cells : f[c] \in 0..1 /\ (b[c] >= Power[k] => f[c] = 1)
  BY <1>1, <1>2
<1> HIDE DEF f
<1>4. BoardSum(f) \in 0..SIZE * SIZE /\ \A c \in Cells : f[c] <= BoardSum(f)
  BY <1>3, BoardSumBounds
<1>5. \A c \in Cells : b[c] >= Power[k] => BoardSum(f) >= 1
  <2> TAKE c \in Cells
  <2>1. SIZE * SIZE \in Int
    BY SizeAssumption
  <2> QED BY <1>3, <1>4, <2>1
<1> QED BY <1>4, <1>5 DEF Count, BoardWeight, w, f

\* A move leaves few enough tiles of each kind,
LEMMA BoundedMoved ==
  ASSUME NEW b, b \in Boards(Numbers), Bounded(b), NEW key \in Moves
  PROVE  Moved(b, key).board \in Boards(Numbers) /\ Bounded(Moved(b, key).board)
<1> DEFINE new == Moved(b, key).board
           N == SIZE * SIZE
<1>1. new \in Boards(Numbers)
  BY NumbersClosed, MovedLines
<1>2. N \in Nat
  BY SizeAssumption
<1>3. ASSUME NEW k \in Nat \ {0}, Count(k, new) > 0
      PROVE  Count(k, new) + k <= N + 2
  <2> DEFINE p == Count(k, new)
             q == Count(k, b)
             r == Count(k - 1, b)
  <2>1. q \in Int /\ r \in Int /\ p \in Int /\ 2 * p <= q + r
    BY CountMoved
  <2>2. q > 0 => q + k <= N + 2
    BY DEF Bounded
  <2>3. CASE k = 1
    <3>1. p \in 0..N
      <4> HIDE DEF new
      <4> QED BY <1>1, CountBounds
    <3> HIDE DEF p, new, N
    <3>2. p + k <= N + 2
      BY <1>2, <2>3, <3>1
    <3> QED BY <3>2 DEF p, new, N
  <2>4. CASE k # 1
    <3>1. k - 1 \in Nat \ {0}
      BY <2>4
    <3>2. r > 0 => r + (k - 1) <= N + 2
      BY <3>1 DEF Bounded
    <3>3. p > 0
      BY <1>3
    <3> HIDE DEF p, q, r, N, new
    <3>4. p + k <= N + 2
      BY <1>2, <2>1, <2>2, <3>1, <3>2, <3>3
    <3> QED BY <3>4 DEF p, N, new
  <2> QED BY <2>3, <2>4
<1> QED BY <1>1, <1>3 DEF Bounded

\* a spawned tile too,
LEMMA BoundedSpawned ==
  ASSUME NEW b, b \in Boards(Numbers), Bounded(b), NEW new \in Spawns(b)
  PROVE  new \in Boards(Numbers) /\ Bounded(new)
<1>1. b \in [Cells -> Nat]
  BY NumbersClosed DEF Boards, Closed
<1>2. new \in Boards(Numbers)
  <2>1. new \in [Cells -> Nat] /\ \A c \in Cells : new[c] = b[c] \/ new[c] = 2
    <3> DEFINE Z == [v \in Nat |-> 0]
    <3>1. Z \in [Nat -> Int]
      OBVIOUS
    <3> HIDE DEF Z
    <3> QED BY <1>1, <3>1, SpawnWeight
  <2>2. \A c \in Cells : b[c] \in Numbers
    BY DEF Boards
  <2> QED BY <2>1, <2>2, NumbersClosed DEF Boards
<1>3. ASSUME NEW k \in Nat \ {0}, Count(k, new) > 0
      PROVE  Count(k, new) + k <= SIZE * SIZE + 2
  <2> DEFINE N == SIZE * SIZE
  <2>1. N \in Nat
    BY SizeAssumption
  <2>2. CASE k = 1
    <3>1. Count(k, new) \in 0..N
      BY <1>2, CountBounds
    <3> HIDE DEF N
    <3>2. Count(k, new) + k <= N + 2
      BY <2>1, <2>2, <3>1
    <3> QED BY <3>2 DEF N
  <2>3. CASE k # 1
    <3> DEFINE w == AtLeast(k)
    <3>1. Power[k] > 2 /\ Power[k] \in Int
      <4>1. 1 \in Nat /\ 1 < k
        BY <2>3
      <4>2. Power[1] < Power[k]
        BY <4>1, PowerIncreases
      <4> QED BY <4>2, NumbersClosed, PowerValues
    <3>2. w \in [Nat -> Int] /\ w[2] = 0 /\ w[0] = 0
      BY <3>1 DEF AtLeast
    <3> HIDE DEF w
    <3>3. /\ BoardWeight(w, b) \in Int
          /\ \/ new = b
             \/ BoardWeight(w, new) = BoardWeight(w, b) + (w[2] - w[0])
      BY <1>1, <3>2, SpawnWeight
    <3>4. BoardWeight(w, new) = BoardWeight(w, b)
      BY <3>2, <3>3
    <3>5. Count(k, new) = Count(k, b)
      BY <3>4 DEF Count, w
    <3> QED BY <1>3, <3>5 DEF Bounded
  <2> QED BY <2>2, <2>3
<1> QED BY <1>2, <1>3 DEF Bounded

\* and initializeBoard to begin with; its 4 is worth 2.
LEMMA BoundedInitially ==
  ASSUME NEW b \in InitialBoards
  PROVE  b \in Boards(Numbers) /\ Bounded(b) /\ BoardWeight(Merit, b) = 2
<1>1. b \in [Cells -> {0, 2, 4}] /\ BoardWeight(Merit, b) = Merit[4]
  BY MeritValues, InitialWeight
<1>2. b \in Boards(Numbers)
  BY <1>1, NumbersClosed DEF Boards, Closed
<1>3. ASSUME NEW k \in Nat \ {0}, Count(k, b) > 0
      PROVE  Count(k, b) + k <= SIZE * SIZE + 2
  <2> DEFINE N == SIZE * SIZE
  <2>1. N \in Nat /\ N >= 1
    BY SizeAssumption
  <2>2. CASE k = 1
    <3>1. Count(k, b) \in 0..N
      BY <1>2, CountBounds
    <3> HIDE DEF N
    <3>2. Count(k, b) + k <= N + 2
      BY <2>1, <2>2, <3>1
    <3> QED BY <3>2 DEF N
  <2>3. CASE k # 1
    <3> DEFINE w == AtLeast(k)
    <3>1. Power[k] > 2 /\ Power[k] \in Int
      <4>1. 1 \in Nat /\ 1 < k
        BY <2>3
      <4>2. Power[1] < Power[k]
        BY <4>1, PowerIncreases
      <4> QED BY <4>2, NumbersClosed, PowerValues
    <3>2. w \in [Nat -> Int] /\ w[2] = 0 /\ w[0] = 0 /\ w[4] = IF 4 >= Power[k] THEN 1 ELSE 0
      BY <3>1 DEF AtLeast
    <3> HIDE DEF w
    <3>3. BoardWeight(w, b) = w[4]
      BY <3>2, InitialWeight
    <3>4. Count(k, b) = w[4]
      BY <3>3 DEF Count, w
    <3>5. Count(k, b) = 1 /\ ~(2 < k)
      <4>1. 4 >= Power[k]
        BY <1>3, <3>2, <3>4
      <4>2. 2 < k => Power[2] < Power[k]
        BY PowerIncreases
      <4> QED BY <3>1, <3>2, <3>4, <4>1, <4>2, NumbersClosed
    <3> HIDE DEF N
    <3>6. Count(k, b) + k <= N + 2
      BY <2>1, <3>5
    <3> QED BY <3>6 DEF N
  <2> QED BY <2>2, <2>3
<1> QED BY <1>1, <1>2, <1>3, MeritValues DEF Bounded

\* The numbers on a bounded board are tiles, and worth what they have scored.
LEMMA BoundedTiles ==
  ASSUME NEW b, b \in Boards(Numbers), Bounded(b)
  PROVE  \A c \in Cells : IsTile(b[c]) /\ Worth(b[c]) = Merit[b[c]]
<1> TAKE c \in Cells
<1>1. b[c] \in Numbers
  BY DEF Boards
<1>2. CASE b[c] = 0
  BY <1>2, MeritValues DEF IsTile, Worth
<1>3. CASE b[c] # 0
  <2>1. PICK k \in Nat \ {0} : b[c] = Power[k]
    BY <1>1, <1>3 DEF Numbers
  <2> DEFINE M == SIZE * SIZE + 1
  <2>2. k \in 1..M
    <3> DEFINE N == SIZE * SIZE
               p == Count(k, b)
    <3>1. N \in Nat
      BY SizeAssumption
    <3>2. p \in 0..N /\ (b[c] >= Power[k] => p >= 1)
      BY CountBounds
    <3>3. b[c] >= Power[k]
      BY <2>1, PowerValues
    <3>4. p > 0 => p + k <= N + 2
      BY DEF Bounded
    <3> HIDE DEF p, N
    <3>5. k \in 1..N + 1
      BY <3>1, <3>2, <3>3, <3>4
    <3> QED BY <3>5 DEF N
  <2>3. M \in Nat
    BY SizeAssumption
  <2> DEFINE v == b[c]
             e == CHOOSE n \in 1..M : v = Power[n]
  <2>4. Worth(v) = (e - 1) * Power[e - 1]
    BY <1>3 DEF Worth
  <2>5. IsTile(v)
    BY <2>1, <2>2 DEF IsTile
  <2> HIDE DEF M, v
  <2>6. e \in 1..M /\ v = Power[e]
    <3>1. \E n \in 1..M : v = Power[n]
      BY <2>1, <2>2 DEF v
    <3> QED BY <3>1
  <2> HIDE DEF e
  <2>7. e = k
    <3>1. Power[e] = Power[k] /\ e \in Nat
      BY <2>1, <2>3, <2>6 DEF v
    <3> QED BY <3>1, PowersDiffer
  <2>8. Merit[Power[k]] = (k - 1) * Power[k - 1]
    BY MeritOf
  <2> QED BY <2>1, <2>4, <2>5, <2>7, <2>8 DEF v
<1> QED BY <1>2, <1>3

-----------------------------------------------------------------------------
(* The rules and the end of a game.                                        *)

\* The cells of a line.
LEMMA LineOf ==
  ASSUME NEW b \in [Cells -> Nat], NEW key \in Moves, NEW n \in 1..SIZE
  PROVE  /\ Line(b, key, n) \in [1..SIZE -> Nat]
         /\ \A i \in 1..SIZE : Line(b, key, n)[i] = b[Cell(key, n, i)] /\ Cell(key, n, i) \in Cells
<1>1. \A i \in 1..SIZE : Cell(key, n, i) \in Cells
  BY CellPlaces
<1> QED BY <1>1 DEF Line

\* The natural numbers are closed under merging.
LEMMA NaturalBoards ==
  /\ Closed(Nat) /\ SIZE \in Nat \ {0}
  /\ \A b : b \in [Cells -> Nat] <=> b \in Boards(Nat)
BY SizeAssumption DEF Closed, Boards

\* A move follows the rules on every line.
LEMMA MovedByRules ==
  ASSUME NEW b \in [Cells -> Nat], NEW key \in Moves
  PROVE  \A n \in 1..SIZE : Line(Moved(b, key).board, key, n) = Rules(Line(b, key, n))
<1>1. LinesPushed(Moved(b, key).board, b, key, Nat)
  BY NaturalBoards, MovedLines
<1> TAKE n \in 1..SIZE
<1>2. Line(Moved(b, key).board, key, n) = Pushed(Line(b, key, n)).line
  BY <1>1 DEF LinesPushed
<1>3. Line(b, key, n) \in [1..SIZE -> Nat]
  BY LineOf
<1> DEFINE a == Line(b, key, n)
<1> HIDE DEF a
<1>4. Pushed(a).line = Rules(a)
  BY <1>3, NaturalBoards, PushedByRules DEF a
<1> QED BY <1>2, <1>4 DEF a

\* A key has no effect on a full board when no two neighbours along its lines are equal.
NoPairs(b, key) ==
  \A n \in 1..SIZE, i \in 1..SIZE - 1 : b[Cell(key, n, i)] # b[Cell(key, n, i + 1)]

\* On a full board a key has no effect unless two equal tiles are neighbours.
LEMMA NoEffect ==
  ASSUME NEW b \in [Cells -> Nat], isBoardFull(b), NEW key \in Moves
  PROVE  Moved(b, key).board = b <=> NoPairs(b, key)
<1> DEFINE new == Moved(b, key).board
<1>1. new \in Boards(Nat) /\ LinesPushed(new, b, key, Nat)
  BY NaturalBoards, MovedLines
<1> HIDE DEF new
<1>2. new \in [Cells -> Nat]
  BY <1>1, NaturalBoards
<1>3. ASSUME NEW n \in 1..SIZE
      PROVE  Line(new, key, n) = Line(b, key, n) <=>
               \A i \in 1..SIZE - 1 : b[Cell(key, n, i)] # b[Cell(key, n, i + 1)]
  <2> DEFINE a == Line(b, key, n)
  <2>1. /\ a \in [1..SIZE -> Nat]
        /\ \A i \in 1..SIZE : a[i] = b[Cell(key, n, i)] /\ Cell(key, n, i) \in Cells
    BY LineOf
  <2>2. Line(new, key, n) = Pushed(a).line
    BY <1>1 DEF LinesPushed
  <2> HIDE DEF a
  <2>3. \A i \in 1..SIZE : a[i] # 0
    BY <2>1 DEF isBoardFull
  <2>4. Pushed(a).line = a <=> \A i \in 1..SIZE - 1 : a[i] # a[i + 1]
    BY <2>1, <2>3, NaturalBoards, FullLine
  <2>5. \A i \in 1..SIZE - 1 : i \in 1..SIZE /\ i + 1 \in 1..SIZE
    BY SizeAssumption
  <2>6. (\A i \in 1..SIZE - 1 : a[i] # a[i + 1])
          <=> \A i \in 1..SIZE - 1 : b[Cell(key, n, i)] # b[Cell(key, n, i + 1)]
    BY <2>1, <2>5
  <2> QED BY <2>2, <2>4, <2>6 DEF a
<1>4. new = b <=> \A n \in 1..SIZE : Line(new, key, n) = Line(b, key, n)
  <2>1. ASSUME \A n \in 1..SIZE : Line(new, key, n) = Line(b, key, n) PROVE new = b
    <3>1. ASSUME NEW c \in Cells PROVE new[c] = b[c]
      <4>1. PICK n \in 1..SIZE : \E i \in 1..SIZE : Cell(key, n, i) = c
        BY CellPlaces
      <4>2. PICK i \in 1..SIZE : Cell(key, n, i) = c
        BY <4>1
      <4>3. Line(new, key, n)[i] = new[c] /\ Line(b, key, n)[i] = b[c]
        BY <4>2 DEF Line
      <4>4. Line(new, key, n) = Line(b, key, n)
        BY <2>1
      <4> QED BY <4>3, <4>4
    <3> QED BY <1>2, <3>1
  <2> QED BY <2>1
<1> QED BY <1>3, <1>4 DEF NoPairs, new

\* isGameOver is true when no key has an effect any more, and only then.
THEOREM GameOverIs ==
  ASSUME NEW b \in [Cells -> Nat]
  PROVE  isGameOver(b) <=> Ineffective(b)
<1>1. SIZE \in Nat \ {0, 1}
  BY SizeAssumption
<1> DEFINE rows    == \A x \in 1..SIZE, y \in 1..SIZE - 1 : b[<<x, y>>] # b[<<x, y + 1>>]
           columns == \A x \in 1..SIZE - 1, y \in 1..SIZE : b[<<x, y>>] # b[<<x + 1, y>>]
<1>2. isGameOver(b) <=> isBoardFull(b) /\ rows /\ columns
  <2>1. ASSUME NEW c \in Cells PROVE \E x \in 1..SIZE, y \in 1..SIZE : c = <<x, y>>
    BY DEF Cells
  <2>2. \A x \in 1..SIZE, y \in 1..SIZE : /\ <<x, y>> \in Cells
                                          /\ <<x, y>>[1] = x /\ <<x, y>>[2] = y
    BY DEF Cells
  <2>3. ASSUME isGameOver(b) PROVE isBoardFull(b) /\ rows /\ columns
    <3>1. isBoardFull(b)
      BY <2>3 DEF isGameOver, isBoardFull
    <3>2. ASSUME NEW x \in 1..SIZE, NEW y \in 1..SIZE - 1 PROVE b[<<x, y>>] # b[<<x, y + 1>>]
      <4> DEFINE c == <<x, y>>
      <4>1. y \in 1..SIZE /\ y < SIZE
        BY <1>1
      <4>2. c \in Cells /\ c[1] = x /\ c[2] = y
        BY <2>2, <4>1
      <4>3. c[2] < SIZE => b[c] # b[<<c[1], c[2] + 1>>]
        BY <2>3, <4>2 DEF isGameOver
      <4> QED BY <4>1, <4>2, <4>3
    <3>3. ASSUME NEW x \in 1..SIZE - 1, NEW y \in 1..SIZE PROVE b[<<x, y>>] # b[<<x + 1, y>>]
      <4> DEFINE c == <<x, y>>
      <4>1. x \in 1..SIZE /\ x < SIZE
        BY <1>1
      <4>2. c \in Cells /\ c[1] = x /\ c[2] = y
        BY <2>2, <4>1
      <4>3. c[1] < SIZE => b[c] # b[<<c[1] + 1, c[2]>>]
        BY <2>3, <4>2 DEF isGameOver
      <4> QED BY <4>1, <4>2, <4>3
    <3> QED BY <3>1, <3>2, <3>3
  <2>4. ASSUME isBoardFull(b), rows, columns PROVE isGameOver(b)
    <3>1. ASSUME NEW c \in Cells
          PROVE  /\ b[c] # 0
                 /\ c[2] < SIZE => b[c] # b[<<c[1], c[2] + 1>>]
                 /\ c[1] < SIZE => b[c] # b[<<c[1] + 1, c[2]>>]
      <4>1. PICK x \in 1..SIZE, y \in 1..SIZE : c = <<x, y>>
        BY <2>1
      <4>2. c[1] = x /\ c[2] = y
        BY <4>1
      <4>3. y < SIZE => b[<<x, y>>] # b[<<x, y + 1>>]
        <5>1. y < SIZE => y \in 1..SIZE - 1
          BY <1>1
        <5> QED BY <2>4, <5>1
      <4>4. x < SIZE => b[<<x, y>>] # b[<<x + 1, y>>]
        <5>1. x < SIZE => x \in 1..SIZE - 1
          BY <1>1
        <5> QED BY <2>4, <5>1
      <4>5. b[c] # 0
        BY <2>4 DEF isBoardFull
      <4> QED BY <4>1, <4>2, <4>3, <4>4, <4>5
    <3> QED BY <3>1 DEF isGameOver
  <2> QED BY <2>3, <2>4
<1>3. NoPairs(b, "a") <=> rows
  <2>1. \A n \in 1..SIZE, i \in 1..SIZE : Cell("a", n, i) = <<n, i>>
    BY DEF Cell
  <2>2. \A i \in 1..SIZE - 1 : i \in 1..SIZE /\ i + 1 \in 1..SIZE
    BY <1>1
  <2> QED BY <2>1, <2>2 DEF NoPairs
<1>4. NoPairs(b, "w") <=> columns
  <2>1. \A n \in 1..SIZE, i \in 1..SIZE : Cell("w", n, i) = <<i, n>>
    BY DEF Cell
  <2>2. \A i \in 1..SIZE - 1 : i \in 1..SIZE /\ i + 1 \in 1..SIZE
    BY <1>1
  <2> QED BY <2>1, <2>2 DEF NoPairs
<1>5. \A i \in 1..SIZE - 1 : /\ i \in 1..SIZE /\ i + 1 \in 1..SIZE
                             /\ SIZE - i \in 1..SIZE - 1
                             /\ SIZE + 1 - i = (SIZE - i) + 1 /\ SIZE + 1 - (i + 1) = SIZE - i
                             /\ SIZE - (SIZE - i) = i
  BY <1>1
<1>6. ASSUME rows PROVE NoPairs(b, "d")
  <2>1. \A n \in 1..SIZE, i \in 1..SIZE : Cell("d", n, i) = <<n, SIZE + 1 - i>>
    BY DEF Cell
  <2>2. ASSUME NEW n \in 1..SIZE, NEW i \in 1..SIZE - 1
        PROVE  b[Cell("d", n, i)] # b[Cell("d", n, i + 1)]
    <3> DEFINE j == SIZE - i
    <3>1. j \in 1..SIZE - 1
      BY <1>5
    <3>2. Cell("d", n, i) = <<n, j + 1>> /\ Cell("d", n, i + 1) = <<n, j>>
      BY <1>5, <2>1
    <3> HIDE DEF j
    <3>3. b[<<n, j>>] # b[<<n, j + 1>>]
      BY <1>6, <3>1
    <3> QED BY <3>2, <3>3
  <2> QED BY <2>2 DEF NoPairs
<1>7. ASSUME columns PROVE NoPairs(b, "s")
  <2>1. \A n \in 1..SIZE, i \in 1..SIZE : Cell("s", n, i) = <<SIZE + 1 - i, n>>
    BY DEF Cell
  <2>2. ASSUME NEW n \in 1..SIZE, NEW i \in 1..SIZE - 1
        PROVE  b[Cell("s", n, i)] # b[Cell("s", n, i + 1)]
    <3> DEFINE j == SIZE - i
    <3>1. j \in 1..SIZE - 1
      BY <1>5
    <3>2. Cell("s", n, i) = <<j + 1, n>> /\ Cell("s", n, i + 1) = <<j, n>>
      BY <1>5, <2>1
    <3> HIDE DEF j
    <3>3. b[<<j, n>>] # b[<<j + 1, n>>]
      BY <1>7, <3>1
    <3> QED BY <3>2, <3>3
  <2> QED BY <2>2 DEF NoPairs
<1>8. isBoardFull(b) => ((\A key \in Moves : Moved(b, key).board = b) <=> \A key \in Moves : NoPairs(b, key))
  BY NoEffect
<1>9. (\A key \in Moves : NoPairs(b, key)) <=> rows /\ columns
  <2> HIDE DEF rows, columns
  <2> QED BY <1>3, <1>4, <1>6, <1>7 DEF Moves
<1> HIDE DEF rows, columns
<1> QED BY <1>2, <1>8, <1>9 DEF Ineffective

-----------------------------------------------------------------------------
(* The program.                                                            *)

Leaders == [player : Players, score : Nat \ {0}] \cup {Nobody, Error}

\* The board of a game: tiles, few enough of each kind, that tell the score.
InGame(b, s) == BoardWeight(Merit, b) = s + 2

\* Game2048.tla, the whole program: the types, what a displayed leader is, and
\* what the tiles on a board have scored.
IInv ==
  /\ screen \in {"menu", "game", "leaderboard", "off"}
  /\ player \in Players \cup {NoPlayer} /\ (screen = "game" => player \in Players)
  /\ score \in Nat
  /\ board \in Boards(Numbers) /\ Bounded(board)
  /\ scores \in Games
  /\ leader \in Leaders /\ (screen = "leaderboard" => leader \in {Best(scores), Error})
  /\ screen = "game" => InGame(board, score)

\* No game, an empty board.
LEMMA EmptyBoard == Empty \in Boards(Numbers) /\ Bounded(Empty)
<1>1. Empty \in Boards(Numbers)
  BY NumbersClosed DEF Closed, Boards, Empty
<1>2. ASSUME NEW k \in Nat \ {0}
      PROVE  Count(k, Empty) = 0
  <2> DEFINE w == AtLeast(k)
             f == [c \in Cells |-> w[Empty[c]]]
  <2>1. Power[k] > 0 /\ w[0] = 0
    <3>1. Power[k] \in Nat \ {0}
      BY PowerValues
    <3> QED BY <3>1 DEF AtLeast
  <2> HIDE DEF w
  <2>2. \A c \in Cells : f[c] \in {0}
    BY <2>1 DEF Empty
  <2> HIDE DEF f
  <2>3. BoardSum(f) = 0
    BY <2>2, BoardSumZero
  <2> QED BY <2>3 DEF Count, BoardWeight, w, f
<1> QED BY <1>1, <1>2 DEF Bounded

\* Who is displayed is a player with a score, or nobody.
LEMMA BestIsLeader ==
  ASSUME NEW games \in Games
  PROVE  Best(games) \in Leaders
<1> DEFINE best == Best(games)
<1>1. CASE best = Nobody
  BY <1>1 DEF Leaders
<1>2. CASE best # Nobody
  <2> HIDE DEF best
  <2>1. PICK i \in 1..Len(games) : best = games[i] /\ games[i].score > 0
    BY <1>2, BestIsFirst DEF best
  <2>2. games[i] \in [player : Players, score : Nat]
    BY ElementOfSeq DEF Games
  <2> QED BY <2>1, <2>2 DEF Leaders, best
<1> QED BY <1>1, <1>2

\* A spawned 2 was not merged: it adds nothing to the score.
LEMMA SpawnScore ==
  ASSUME NEW b, b \in Boards(Numbers), Bounded(b), NEW new \in Spawns(b), NEW s, InGame(b, s)
  PROVE  new \in Boards(Numbers) /\ Bounded(new) /\ InGame(new, s)
<1>1. Merit \in [Nat -> Int] /\ Merit[0] = 0 /\ Merit[2] = 0
  BY MeritValues
<1>2. b \in [Cells -> Nat]
  BY NumbersClosed DEF Boards, Closed
<1>3. /\ BoardWeight(Merit, b) \in Int
      /\ \/ new = b
         \/ BoardWeight(Merit, new) = BoardWeight(Merit, b) + (Merit[2] - Merit[0])
  BY <1>1, <1>2, SpawnWeight
<1>4. BoardWeight(Merit, new) = BoardWeight(Merit, b)
  BY <1>1, <1>3
<1> QED BY <1>4, BoundedSpawned DEF InGame

\* A move scores what its merges are worth.
LEMMA MoveScore ==
  ASSUME NEW b, b \in Boards(Numbers), Bounded(b), NEW key \in Moves, NEW s \in Nat, InGame(b, s)
  PROVE  LET moved == Moved(b, key) IN
         /\ moved.board \in Boards(Numbers) /\ Bounded(moved.board) /\ moved.gain \in Nat
         /\ InGame(moved.board, s + moved.gain)
<1> DEFINE new == Moved(b, key).board
           x == Moved(b, key).gain
           c == 1
<1>1. /\ Merit \in [Nat -> Int] /\ Merit[0] = 0 /\ c \in Int
      /\ \A v \in Numbers : v # 0 => Merit[2 * v] = 2 * Merit[v] + c * v
  BY MeritValues
<1> HIDE DEF c
<1>2. /\ x \in Nat /\ BoardWeight(Merit, b) \in Int
      /\ BoardWeight(Merit, new) = BoardWeight(Merit, b) + c * x
  BY <1>1, NumbersClosed, MovedExactly
<1>3. new \in Boards(Numbers) /\ Bounded(new)
  BY BoundedMoved
<1> HIDE DEF new, x
<1>4. BoardWeight(Merit, new) = (s + x) + 2
  BY <1>2 DEF InGame, c
<1> QED BY <1>2, <1>3, <1>4 DEF InGame, new, x

\* What saveScore appends is a game of a player.
LEMMA FinishKeeps ==
  ASSUME player \in Players, scores \in Games, NEW s \in Nat, Finish(s), leader \in Leaders, UNCHANGED leader
  PROVE  IInv'
<1>1. screen' = "menu" /\ player' = NoPlayer /\ score' = 0 /\ board' = Empty
  BY DEF Finish, NoGame
<1>2. scores' \in Games
  <2>1. [player |-> player, score |-> s] \in [player : Players, score : Nat]
    OBVIOUS
  <2> HIDE DEF Games
  <2>2. Append(scores, [player |-> player, score |-> s]) \in Games
    BY <2>1 DEF Games
  <2> QED BY <2>2 DEF Finish
<1> QED BY <1>1, <1>2, EmptyBoard DEF IInv

\* The program is off.
LEMMA IInvInit == Init => IInv
BY EmptyBoard DEF Init, IInv, Games, Leaders

\* A key: a move, a spawned tile, or the end of the game.
LEMMA PressKeeps ==
  ASSUME IInv, NEW key \in Keys, Press(key)
  PROVE  IInv'
<1> DEFINE moved == IF key \in Moves THEN Moved(board, key) ELSE [board |-> board, gain |-> 0]
           b == moved.board
           x == moved.gain
<1>1. /\ screen = "game" /\ player \in Players /\ score \in Nat /\ scores \in Games
      /\ board \in Boards(Numbers) /\ Bounded(board) /\ InGame(board, score)
      /\ leader \in Leaders /\ leader' = leader
  BY DEF IInv, Press
<1>2. /\ b \in Boards(Numbers) /\ Bounded(b) /\ x \in Nat
      /\ InGame(b, score + x)
  <2>1. CASE key \in Moves
    BY <1>1, <2>1, MoveScore
  <2>2. CASE key \notin Moves
    <3>1. b = board /\ x = 0 /\ score + 0 = score
      BY <1>1, <2>2
    <3> QED BY <1>1, <3>1
  <2> QED BY <2>1, <2>2
<1>3. \/ /\ board' \in Spawns(b) /\ score' = score + x
         /\ screen' = screen /\ player' = player /\ scores' = scores
      \/ Finish(score + x)
  BY DEF Press
<1> HIDE DEF b, x
<1>4. CASE /\ board' \in Spawns(b) /\ score' = score + x
           /\ screen' = screen /\ player' = player /\ scores' = scores
  <2>1. board' \in Boards(Numbers) /\ Bounded(board') /\ InGame(board', score')
    BY <1>2, <1>4, SpawnScore
  <2> QED BY <1>1, <1>2, <1>4, <2>1 DEF IInv
<1>5. CASE Finish(score + x)
  <2>1. score + x \in Nat
    BY <1>1, <1>2
  <2> QED BY <1>1, <1>5, <2>1, FinishKeeps
<1> QED BY <1>3, <1>4, <1>5

\* Every step preserves the invariant.
LEMMA IInvNext ==
  ASSUME IInv, [Next]_vars
  PROVE  IInv'
<1>1. CASE Launch
  BY <1>1 DEF IInv, Launch
<1>2. CASE GameOver
  BY <1>2, FinishKeeps DEF IInv, GameOver
<1>3. CASE displayLeaderboard
  BY <1>3, BestIsLeader DEF IInv, displayLeaderboard, Leaders
<1>4. CASE Continue
  BY <1>4 DEF IInv, Continue, Leaders
<1>5. CASE Leave
  BY <1>5, EmptyBoard DEF IInv, Leave, NoGame, Leaders
<1>6. ASSUME NEW p \in Players, NewGame(p) PROVE IInv'
  <2>1. board' \in Boards(Numbers) /\ Bounded(board') /\ BoardWeight(Merit, board') = 2
    BY <1>6, BoundedInitially DEF NewGame
  <2>2. score' = 0
    BY <1>6 DEF NewGame
  <2>3. InGame(board', score')
    BY <2>1, <2>2 DEF InGame
  <2> QED BY <1>6, <2>1, <2>3 DEF IInv, NewGame
<1>7. ASSUME NEW key \in Keys, Press(key) PROVE IInv'
  BY <1>7, PressKeeps
<1>8. CASE UNCHANGED vars
  BY <1>8 DEF IInv, vars
<1> QED BY <1>1, <1>2, <1>3, <1>4, <1>5, <1>6, <1>7, <1>8 DEF Next

\* The inductive invariant holds in every reachable state.
THEOREM Inductive == Spec => []IInv
BY IInvInit, IInvNext, PTL DEF Spec

\* The invariant implies the types: a bounded board holds only tiles.
LEMMA TypeOfInv == IInv => TypeOK
<1> SUFFICES ASSUME IInv PROVE TypeOK
  OBVIOUS
<1>1. board \in [Cells -> Nat]
  BY NumbersClosed DEF IInv, Boards, Closed
<1>2. \A c \in Cells : IsTile(board[c])
  BY BoundedTiles DEF IInv
<1> QED BY <1>1, <1>2 DEF IInv, TypeOK, Games, Leaders

\* The types, and only tiles on the board, whose largest is 2^(SIZE * SIZE + 1).
THEOREM TypesKept == Spec => []TypeOK
BY TypeOfInv, Inductive, PTL

\* The board tells the score in every state of a game, for boards of every size.
THEOREM ScoreOnTheBoard == Spec => []ScoreMatchesBoard
<1>1. IInv => ScoreMatchesBoard
  <2> SUFFICES ASSUME IInv, screen = "game" PROVE score + 2 = BoardSum([c \in Cells |-> Worth(board[c])])
    BY DEF ScoreMatchesBoard
  <2>1. \A c \in Cells : Worth(board[c]) = Merit[board[c]]
    BY BoundedTiles DEF IInv
  <2>2. [c \in Cells |-> Worth(board[c])] = [c \in Cells |-> Merit[board[c]]]
    BY <2>1
  <2> QED BY <2>2 DEF IInv, InGame, BoardWeight
<1> QED BY <1>1, Inductive, PTL

\* isGameOver never ends a game that could go on, and ends every other.
THEOREM EndsWhenStuck == Spec => []GameOverExact
<1>1. IInv => GameOverExact
  BY NumbersClosed, GameOverIs DEF IInv, GameOverExact, Boards, Closed
<1> QED BY <1>1, Inductive, PTL

\* The three loops of a move follow the rules of the game on every line.
THEOREM MovesKeepTheRules == Spec => []MovesByTheRules
<1>1. LinesByTheRules
  <2> SUFFICES ASSUME NEW line \in Lines PROVE Pushed(line).line = Rules(line)
    BY DEF LinesByTheRules
  <2>1. line \in Seq(Nat) /\ line # <<>>
    BY BoundsAssumption
  <2>2. Len(line) \in Nat \ {0} /\ line \in [1..Len(line) -> Nat]
    BY <2>1
  <2> QED BY <2>2, PushedByRules
<1>2. IInv => MovesByTheRules
  <2> SUFFICES ASSUME IInv PROVE MovesByTheRules
    OBVIOUS
  <2>1. board \in [Cells -> Nat]
    BY NumbersClosed DEF IInv, Boards, Closed
  <2>2. \A key \in Moves : \A n \in 1..SIZE :
           Line(Moved(board, key).board, key, n) = Rules(Line(board, key, n))
    BY <2>1, MovedByRules
  <2> QED BY <1>1, <2>2 DEF MovesByTheRules
<1> QED BY <1>2, Inductive, PTL

\* The leaderboard names the first of the highest scores saved, and nobody only if
\* none scored or the file was not read.
THEOREM LeaderIsBest == Spec => []LeaderIsFirstBest
<1>1. IInv => LeaderIsFirstBest
  <2> DEFINE best == Best(scores)
             First(i) == \A j \in DOMAIN scores : /\ scores[j].score <= scores[i].score
                                                  /\ j < i => scores[j].score < scores[i].score
  <2> SUFFICES ASSUME IInv, leader = best
               PROVE  \/ best = Nobody /\ \A j \in DOMAIN scores : scores[j].score = 0
                      \/ \E i \in DOMAIN scores :
                           /\ best = scores[i] /\ scores[i].score > 0 /\ First(i)
    BY DEF LeaderIsFirstBest, IInv
  <2>1. scores \in Games
    BY DEF IInv
  <2>2. DOMAIN scores = 1..Len(scores) /\ Len(scores) \in Nat
    BY <2>1 DEF Games
  <2>3. /\ \A j \in 1..Len(scores) : scores[j].score <= best.score
        /\ best # Nobody =>
             \E i \in 1..Len(scores) :
               /\ best = scores[i] /\ scores[i].score > 0
               /\ \A j \in 1..i - 1 : scores[j].score < scores[i].score
    BY <2>1, BestIsFirst
  <2>4. ASSUME NEW j \in DOMAIN scores PROVE scores[j].score \in Nat
    <3>1. scores[j] \in [player : Players, score : Nat]
      BY <2>1, <2>2, ElementOfSeq DEF Games
    <3> QED BY <3>1
  <2> HIDE DEF best
  <2>5. CASE best = Nobody
    <3>1. best.score = 0
      BY <2>5 DEF Nobody
    <3> QED BY <2>2, <2>3, <2>4, <2>5, <3>1
  <2>6. CASE best # Nobody
    <3>1. PICK i \in 1..Len(scores) : /\ best = scores[i] /\ scores[i].score > 0
                                      /\ \A j \in 1..i - 1 : scores[j].score < scores[i].score
      BY <2>3, <2>6
    <3>2. First(i)
      BY <2>2, <2>3, <3>1
    <3> HIDE DEF First
    <3> QED BY <2>2, <3>1, <3>2
  <2> QED BY <2>5, <2>6
<1> QED BY <1>1, Inductive, PTL

\* A key adds the tile that spawnNumber places, and no key loses or makes one up.
THEOREM TilesAreConserved == Spec => TilesConserved
<1> DEFINE U == [v \in Nat |-> v]
           P == screen = "game" /\ screen' = "game" =>
                  \/ Total(board') = Total(board) + 2
                  \/ isBoardFull(board') /\ Total(board') = Total(board)
<1>1. U \in [Nat -> Int] /\ U[0] = 0 /\ U[2] = 2 /\ \A v \in Nat : U[2 * v] = 2 * U[v]
  OBVIOUS
<1>2. ASSUME NEW b \in [Cells -> Nat] PROVE BoardWeight(U, b) = Total(b)
  <2>1. [c \in Cells |-> U[b[c]]] = b
    OBVIOUS
  <2> QED BY <2>1 DEF BoardWeight, Total
<1> HIDE DEF U
<1>3. ASSUME NEW b \in [Cells -> Nat], NEW key \in Moves
      PROVE  Moved(b, key).board \in [Cells -> Nat] /\ Total(Moved(b, key).board) = Total(b)
  <2> DEFINE c == 0
             V == Nat
             new == Moved(b, key).board
             x == Moved(b, key).gain
  <2>1. c \in Int /\ (\A v \in V : v # 0 => U[2 * v] = 2 * U[v] + c * v)
    <3>1. \A v \in Nat : U[v] \in Int
      BY <1>1
    <3> QED BY <1>1, <3>1
  <2>2. Closed(V) /\ b \in Boards(V)
    BY NaturalBoards
  <2> HIDE DEF c, V
  <2>3. /\ new \in Boards(V) /\ x \in Nat /\ BoardWeight(U, b) \in Int
        /\ BoardWeight(U, new) = BoardWeight(U, b) + c * x
    BY <1>1, <2>1, <2>2, MovedExactly
  <2> HIDE DEF new, x
  <2>4. new \in [Cells -> Nat] /\ BoardWeight(U, new) = BoardWeight(U, b)
    BY <2>3, NaturalBoards DEF c, V
  <2> QED BY <1>2, <2>4 DEF new
<1>4. ASSUME NEW b \in [Cells -> Nat], NEW new \in Spawns(b)
      PROVE  Total(new) = Total(b) + 2 \/ (isBoardFull(new) /\ Total(new) = Total(b))
  <2>1. /\ new \in [Cells -> Nat] /\ BoardWeight(U, b) \in Int
        /\ \/ isBoardFull(b) /\ new = b
           \/ BoardWeight(U, new) = BoardWeight(U, b) + (U[2] - U[0])
    BY <1>1, SpawnWeight
  <2> QED BY <1>1, <1>2, <2>1
<1>5. ASSUME IInv, [Next]_vars PROVE [P]_vars
  <2> SUFFICES ASSUME Next, screen = "game", screen' = "game"
               PROVE  \/ Total(board') = Total(board) + 2
                      \/ isBoardFull(board') /\ Total(board') = Total(board)
    BY <1>5
  <2>1. board \in [Cells -> Nat]
    BY <1>5, NumbersClosed DEF IInv, Boards, Closed
  <2>2. PICK key \in Keys : Press(key)
    BY DEF Next, Launch, GameOver, displayLeaderboard, Continue, Leave, NewGame, Finish
  <2> DEFINE moved == IF key \in Moves THEN Moved(board, key) ELSE [board |-> board, gain |-> 0]
             b == moved.board
  <2>3. board' \in Spawns(b)
    BY <2>2 DEF Press, Finish
  <2>4. b \in [Cells -> Nat] /\ Total(b) = Total(board)
    <3>1. CASE key \in Moves
      BY <1>3, <2>1, <3>1
    <3>2. CASE key \notin Moves
      <4>1. b = board
        BY <3>2
      <4> QED BY <2>1, <4>1
    <3> QED BY <3>1, <3>2
  <2> HIDE DEF b
  <2> QED BY <1>4, <2>3, <2>4
<1> HIDE DEF P
<1>6. Spec => [][P]_vars
  BY <1>5, Inductive, PTL DEF Spec
<1> QED BY <1>6 DEF TilesConserved, P

=============================================================================
