---------------------------- MODULE AesStandard ----------------------------
(***************************************************************************)
(* The cipher of FIPS 197 by its algebra, independent of the code: bytes   *)
(* are polynomials over GF(2), written as the set of their exponents.      *)
(***************************************************************************)
EXTENDS Integers, Sequences, FiniteSets

Poly == SUBSET (0..7)
Add(a, b) == (a \cup b) \ (a \cap b)

\* The product as polynomials, then what x^8 + x^4 + x^3 + x + 1 leaves of it.
Product(a, b) ==
  {e \in 0..14 : Cardinality({k \in a : (e - k) \in b}) % 2 = 1}
Reduced(p) ==
  LET low[e \in 7..14] ==   \* p without its terms above x^e
        IF e = 14 THEN p
        ELSE LET q == low[e + 1]
             IN  IF (e + 1) \in q
                 THEN Add(q, {e + 1, e - 3, e - 4, e - 6, e - 7}) ELSE q
  IN  low[7]
Times(a, b) == Reduced(Product(a, b))

Reciprocal == [a \in Poly |-> IF a = {} THEN {} ELSE CHOOSE b \in Poly : Times(a, b) = {0}]

\* The affine transformation of the inverse.
SubByte == [a \in Poly |->
  LET b == Reciprocal[a]
  IN  Add({k \in 0..7 : Cardinality({d \in {0, 4, 5, 6, 7} : ((k + d) % 8) \in b}) % 2 = 1},
          {0, 1, 5, 6})]

\* The state is a matrix; s[r, c] is byte r + 4 * c of the block.
Matrix == (0..3) \X (0..3)

SubBytes(s)  == [rc \in Matrix |-> SubByte[s[rc]]]
ShiftRows(s) == [rc \in Matrix |-> s[rc[1], (rc[2] + rc[1]) % 4]]
AddKey(s, w, round) == [rc \in Matrix |-> Add(s[rc], w[4 * round + rc[2]][rc[1]])]

\* Each column, as a polynomial, times {03} x^3 + {01} x^2 + {01} x + {02}.
MixColumns(s) ==
  LET factor == [d \in 0..3 |-> IF d = 0 THEN {1} ELSE IF d = 3 THEN {0, 1} ELSE {0}]
      sum(r, c) == [e \in 0..3 |-> Times(factor[(4 + r - e) % 4], s[e, c])]
  IN  [rc \in Matrix |-> LET t == sum(rc[1], rc[2])
                         IN  Add(Add(t[0], t[1]), Add(t[2], t[3]))]

\* Word n of the key schedule, counted from 0, after the words w of 0..(n - 1).
KeyWord(w, n) ==
  LET power[e \in 0..9] == IF e = 0 THEN {0} ELSE Times({1}, power[e - 1])
      last == w[n - 1]
      core == [r \in 0..3 |-> Add(SubByte[last[(r + 1) % 4]],
                                  IF r = 0 THEN power[(n \div 4) - 1] ELSE {})]
  IN  [r \in 0..3 |-> Add(w[n - 4][r], IF n % 4 = 0 THEN core[r] ELSE last[r])]

ToState(block) == [rc \in Matrix |-> block[rc[1] + 4 * rc[2]]]
ToBlock(s)     == [k \in 0..15 |-> s[k % 4, k \div 4]]

\* What a block is after a round, from what it was before.
Round(block, w, round) ==
  LET s == ToState(block)
      t == ShiftRows(SubBytes(s))
  IN  ToBlock(AddKey(CASE round = 0      -> s
                       [] round \in 1..9 -> MixColumns(t)
                       [] round = 10     -> t, w, round))

=============================================================================
