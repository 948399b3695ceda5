----------------------------- MODULE AesProofs -----------------------------
(***************************************************************************)
(* Proofs about Aes: decryption undoes encryption, for every text, key and *)
(* pair of tables, and revert_Hex finds the end of what was padded; with   *)
(* the table of the standard the code is AES, and the Java version makes   *)
(* the same blocks.                                                        *)
(***************************************************************************)
EXTENDS MCAes, RecursionLemmas

----------------------------------------------------------------------------
(* Bytes *)

LEMMA XorByte ==
  ASSUME NEW a \in Byte, NEW b \in Byte PROVE Xor(a, b) \in Byte
  BY DEF Xor, Byte

LEMMA XorIn ==
  ASSUME NEW a, NEW b, NEW k PROVE k \in Xor(a, b) <=> ~(k \in a <=> k \in b)
  BY DEF Xor

LEMMA XorTwice ==
  ASSUME NEW a \in Byte, NEW b \in Byte PROVE Xor(Xor(a, b), b) = a
  BY DEF Xor, Byte

LEMMA SameBits ==
  ASSUME NEW a \in Byte, NEW b \in Byte, \A k \in Bit : k \in a <=> k \in b
  PROVE  a = b
  BY DEF Byte

\* Each bit of xtime(a).
LEMMA XtimeBits ==
  ASSUME NEW a \in Byte
  PROVE  /\ xtime(a) \in Byte
         /\ 0 \in xtime(a) <=> 7 \in a
         /\ 1 \in xtime(a) <=> ~(0 \in a <=> 7 \in a)
         /\ 2 \in xtime(a) <=> 1 \in a
         /\ 3 \in xtime(a) <=> ~(2 \in a <=> 7 \in a)
         /\ 4 \in xtime(a) <=> ~(3 \in a <=> 7 \in a)
         /\ 5 \in xtime(a) <=> 4 \in a
         /\ 6 \in xtime(a) <=> 5 \in a
         /\ 7 \in xtime(a) <=> 6 \in a
<1> DEFINE shifted == {k + 1 : k \in a \ {7}}
<1>1. shifted \in Byte /\ 0 \notin shifted
  BY DEF Byte, Bit
<1>2. \A k \in 1..7 : k \in shifted <=> (k - 1) \in a
  BY DEF Byte, Bit
<1>3. /\ 1 \in shifted <=> 0 \in a
      /\ 2 \in shifted <=> 1 \in a
      /\ 3 \in shifted <=> 2 \in a
      /\ 4 \in shifted <=> 3 \in a
      /\ 5 \in shifted <=> 4 \in a
      /\ 6 \in shifted <=> 5 \in a
      /\ 7 \in shifted <=> 6 \in a
  BY <1>2
<1>4. xtime(a) = IF 7 \in a THEN Xor(shifted, {0, 1, 3, 4}) ELSE shifted
  BY DEF xtime
<1> HIDE DEF shifted
<1>5. CASE 7 \in a
  <2>1. xtime(a) = Xor(shifted, {0, 1, 3, 4})
    BY <1>4, <1>5
  <2>2. xtime(a) \in Byte
    BY <2>1, <1>1, XorByte DEF Byte, Bit
  <2>3. \A k : k \in xtime(a) <=> ~(k \in shifted <=> k \in {0, 1, 3, 4})
    BY <2>1, XorIn
  <2> QED BY <1>1, <1>3, <1>5, <2>2, <2>3
<1>6. CASE 7 \notin a
  BY <1>1, <1>3, <1>4, <1>6
<1> QED BY <1>5, <1>6

LEMMA XtimeXor ==
  ASSUME NEW a \in Byte, NEW b \in Byte
  PROVE  xtime(Xor(a, b)) = Xor(xtime(a), xtime(b))
<1>1. xtime(Xor(a, b)) \in Byte /\ Xor(xtime(a), xtime(b)) \in Byte
  BY XtimeBits, XorByte
<1>2. \A k : /\ k \in Xor(a, b) <=> ~(k \in a <=> k \in b)
             /\ k \in Xor(xtime(a), xtime(b)) <=> ~(k \in xtime(a) <=> k \in xtime(b))
  BY XorIn
<1>3. Xor(a, b) \in Byte
  BY XorByte
<1>4. \A k \in Bit : k \in xtime(Xor(a, b)) <=> k \in Xor(xtime(a), xtime(b))
  <2> SUFFICES ASSUME NEW k \in Bit
               PROVE  k \in xtime(Xor(a, b)) <=> k \in Xor(xtime(a), xtime(b))
    OBVIOUS
  <2>1. k \in {0, 1, 2, 3, 4, 5, 6, 7}
    BY DEF Bit
  <2> QED BY <2>1, <1>2, <1>3, XtimeBits
<1> QED BY <1>1, <1>4, SameBits

\* The powers that gmul(0x02, _) and gmul(0x03, _) add up.
LEMMA Powers ==
  /\ xtime({1}) = {2} /\ xtime({2}) = {3} /\ xtime({3}) = {4} /\ xtime({4}) = {5}
  /\ xtime({5}) = {6} /\ xtime({6}) = {7} /\ xtime({7}) = {0, 1, 3, 4}
  /\ xtime({0, 1}) = {1, 2} /\ xtime({1, 2}) = {2, 3} /\ xtime({2, 3}) = {3, 4}
  /\ xtime({3, 4}) = {4, 5} /\ xtime({4, 5}) = {5, 6} /\ xtime({5, 6}) = {6, 7}
  /\ xtime({6, 7}) = {0, 1, 3, 4, 7}
<1>1. ASSUME NEW a \in Byte, NEW b \in Byte,
             /\ 0 \in b <=> 7 \in a
             /\ 1 \in b <=> ~(0 \in a <=> 7 \in a)
             /\ 2 \in b <=> 1 \in a
             /\ 3 \in b <=> ~(2 \in a <=> 7 \in a)
             /\ 4 \in b <=> ~(3 \in a <=> 7 \in a)
             /\ 5 \in b <=> 4 \in a
             /\ 6 \in b <=> 5 \in a
             /\ 7 \in b <=> 6 \in a
      PROVE  xtime(a) = b
  <2>1. \A k \in {0, 1, 2, 3, 4, 5, 6, 7} : k \in xtime(a) <=> k \in b
    BY <1>1, XtimeBits
  <2>2. Bit = {0, 1, 2, 3, 4, 5, 6, 7}
    BY DEF Bit
  <2> QED BY <2>1, <2>2, XtimeBits, SameBits
<1>2. /\ {1} \in Byte /\ {2} \in Byte /\ {3} \in Byte /\ {4} \in Byte /\ {5} \in Byte
      /\ {6} \in Byte /\ {7} \in Byte /\ {0, 1, 3, 4} \in Byte /\ {0, 1} \in Byte
      /\ {1, 2} \in Byte /\ {2, 3} \in Byte /\ {3, 4} \in Byte /\ {4, 5} \in Byte
      /\ {5, 6} \in Byte /\ {6, 7} \in Byte /\ {0, 1, 3, 4, 7} \in Byte
  BY DEF Byte, Bit
<1>3. xtime({1}) = {2} BY <1>1, <1>2
<1>4. xtime({2}) = {3} BY <1>1, <1>2
<1>5. xtime({3}) = {4} BY <1>1, <1>2
<1>6. xtime({4}) = {5} BY <1>1, <1>2
<1>7. xtime({5}) = {6} BY <1>1, <1>2
<1>8. xtime({6}) = {7} BY <1>1, <1>2
<1>9. xtime({7}) = {0, 1, 3, 4} BY <1>1, <1>2
<1>10. xtime({0, 1}) = {1, 2} BY <1>1, <1>2
<1>11. xtime({1, 2}) = {2, 3} BY <1>1, <1>2
<1>12. xtime({2, 3}) = {3, 4} BY <1>1, <1>2
<1>13. xtime({3, 4}) = {4, 5} BY <1>1, <1>2
<1>14. xtime({4, 5}) = {5, 6} BY <1>1, <1>2
<1>15. xtime({5, 6}) = {6, 7} BY <1>1, <1>2
<1>16. xtime({6, 7}) = {0, 1, 3, 4, 7} BY <1>1, <1>2
<1> QED BY <1>3, <1>4, <1>5, <1>6, <1>7, <1>8, <1>9, <1>10, <1>11, <1>12, <1>13,
           <1>14, <1>15, <1>16

\* A bit of a product, if xs are the first factor times 1, x, x^2, ...
LEMMA ProductBits ==
  ASSUME NEW a, NEW b, NEW x1, NEW x2, NEW x3, NEW x4, NEW x5, NEW x6, NEW x7,
         x1 = xtime(a), x2 = xtime(x1), x3 = xtime(x2), x4 = xtime(x3),
         x5 = xtime(x4), x6 = xtime(x5), x7 = xtime(x6), NEW k
  PROVE  k \in gmul(a, b) <=>
           ~((0 \in b /\ k \in a) <=> ~((1 \in b /\ k \in x1) <=>
           ~((2 \in b /\ k \in x2) <=> ~((3 \in b /\ k \in x3) <=>
           ~((4 \in b /\ k \in x4) <=> ~((5 \in b /\ k \in x5) <=>
           ~((6 \in b /\ k \in x6) <=> (7 \in b /\ k \in x7))))))))
<1> DEFINE term(n, x) == IF n \in b THEN x ELSE {}
<1>1. gmul(a, b) = Xor(term(0, a), Xor(term(1, x1), Xor(term(2, x2), Xor(term(3, x3),
                   Xor(term(4, x4), Xor(term(5, x5), Xor(term(6, x6), term(7, x7))))))))
  BY DEF gmul
<1>2. \A n, x : k \in term(n, x) <=> n \in b /\ k \in x
  OBVIOUS
<1> HIDE DEF term
<1> QED BY <1>1, <1>2, XorIn

\* The multiplications of mix_Column.
LEMMA TimesTwoThree ==
  ASSUME NEW b \in Byte
  PROVE  gmul({1}, b) = xtime(b) /\ gmul({0, 1}, b) = Xor(xtime(b), b)
<1>1. Bit = {0, 1, 2, 3, 4, 5, 6, 7}
  BY DEF Bit
<1>2. ASSUME NEW k PROVE k \in gmul({1}, b) <=>
           ~((0 \in b /\ k \in {1}) <=> ~((1 \in b /\ k \in {2}) <=>
           ~((2 \in b /\ k \in {3}) <=> ~((3 \in b /\ k \in {4}) <=>
           ~((4 \in b /\ k \in {5}) <=> ~((5 \in b /\ k \in {6}) <=>
           ~((6 \in b /\ k \in {7}) <=> (7 \in b /\ k \in {0, 1, 3, 4}))))))))
  <2> DEFINE a == {1}  x1 == {2}  x2 == {3}  x3 == {4}
             x4 == {5}  x5 == {6}  x6 == {7}  x7 == {0, 1, 3, 4}
  <2>1. /\ x1 = xtime(a) /\ x2 = xtime(x1) /\ x3 = xtime(x2) /\ x4 = xtime(x3)
        /\ x5 = xtime(x4) /\ x6 = xtime(x5) /\ x7 = xtime(x6)
    BY Powers
  <2> HIDE DEF a, x1, x2, x3, x4, x5, x6, x7
  <2>2. k \in gmul(a, b) <=>
           ~((0 \in b /\ k \in a) <=> ~((1 \in b /\ k \in x1) <=>
           ~((2 \in b /\ k \in x2) <=> ~((3 \in b /\ k \in x3) <=>
           ~((4 \in b /\ k \in x4) <=> ~((5 \in b /\ k \in x5) <=>
           ~((6 \in b /\ k \in x6) <=> (7 \in b /\ k \in x7))))))))
    BY <2>1, ProductBits
  <2> QED BY <2>2 DEF a, x1, x2, x3, x4, x5, x6, x7
<1>3. ASSUME NEW k PROVE k \in gmul({0, 1}, b) <=>
           ~((0 \in b /\ k \in {0, 1}) <=> ~((1 \in b /\ k \in {1, 2}) <=>
           ~((2 \in b /\ k \in {2, 3}) <=> ~((3 \in b /\ k \in {3, 4}) <=>
           ~((4 \in b /\ k \in {4, 5}) <=> ~((5 \in b /\ k \in {5, 6}) <=>
           ~((6 \in b /\ k \in {6, 7}) <=> (7 \in b /\ k \in {0, 1, 3, 4, 7}))))))))
  <2> DEFINE a == {0, 1}  x1 == {1, 2}  x2 == {2, 3}  x3 == {3, 4}
             x4 == {4, 5}  x5 == {5, 6}  x6 == {6, 7}  x7 == {0, 1, 3, 4, 7}
  <2>1. /\ x1 = xtime(a) /\ x2 = xtime(x1) /\ x3 = xtime(x2) /\ x4 = xtime(x3)
        /\ x5 = xtime(x4) /\ x6 = xtime(x5) /\ x7 = xtime(x6)
    BY Powers
  <2> HIDE DEF a, x1, x2, x3, x4, x5, x6, x7
  <2>2. k \in gmul(a, b) <=>
           ~((0 \in b /\ k \in a) <=> ~((1 \in b /\ k \in x1) <=>
           ~((2 \in b /\ k \in x2) <=> ~((3 \in b /\ k \in x3) <=>
           ~((4 \in b /\ k \in x4) <=> ~((5 \in b /\ k \in x5) <=>
           ~((6 \in b /\ k \in x6) <=> (7 \in b /\ k \in x7))))))))
    BY <2>1, ProductBits
  <2> QED BY <2>2 DEF a, x1, x2, x3, x4, x5, x6, x7
<1>4. gmul({1}, b) \in Byte /\ gmul({0, 1}, b) \in Byte
  BY <1>1, <1>2, <1>3 DEF Byte
<1>5. xtime(b) \in Byte /\ Xor(xtime(b), b) \in Byte
  BY XtimeBits, XorByte
<1>6. \A k \in Bit : k \in gmul({1}, b) <=> k \in xtime(b)
  BY <1>1, <1>2, XtimeBits
<1>7. \A k \in Bit : k \in gmul({0, 1}, b) <=> k \in Xor(xtime(b), b)
  BY <1>1, <1>3, XtimeBits, XorIn
<1> QED BY <1>4, <1>5, <1>6, <1>7, SameBits

\* The multiplications of inv_Column.
LEMMA TimesInverse ==
  ASSUME NEW a \in Byte, NEW x1, NEW x2, NEW x3,
         x1 = xtime(a), x2 = xtime(x1), x3 = xtime(x2), NEW k
  PROVE  /\ k \in gmul(a, {1, 2, 3}) <=> ~(k \in x1 <=> ~(k \in x2 <=> k \in x3))
         /\ k \in gmul(a, {0, 1, 3}) <=> ~(k \in a <=> ~(k \in x1 <=> k \in x3))
         /\ k \in gmul(a, {0, 2, 3}) <=> ~(k \in a <=> ~(k \in x2 <=> k \in x3))
         /\ k \in gmul(a, {0, 3}) <=> ~(k \in a <=> k \in x3)
<1> DEFINE x4 == xtime(x3)  x5 == xtime(x4)  x6 == xtime(x5)  x7 == xtime(x6)
<1> HIDE DEF x4, x5, x6, x7
<1>1. \A b : k \in gmul(a, b) <=>
           ~((0 \in b /\ k \in a) <=> ~((1 \in b /\ k \in x1) <=>
           ~((2 \in b /\ k \in x2) <=> ~((3 \in b /\ k \in x3) <=>
           ~((4 \in b /\ k \in x4) <=> ~((5 \in b /\ k \in x5) <=>
           ~((6 \in b /\ k \in x6) <=> (7 \in b /\ k \in x7))))))))
  BY ProductBits DEF x4, x5, x6, x7
<1> QED BY <1>1

\* A bit of a mixed byte, and a factor of x.
LEMMA MixedBits ==
  ASSUME NEW a, NEW b, NEW c, NEW d, NEW e, NEW k
  PROVE  k \in Xor4(a, Xor(b, c), d, e) <=>
           ~(k \in a <=> ~(~(k \in b <=> k \in c) <=> ~(k \in d <=> k \in e)))
  BY XorIn DEF Xor4

LEMMA XtimeMixed ==
  ASSUME NEW a \in Byte, NEW b \in Byte, NEW c \in Byte, NEW d \in Byte, NEW e \in Byte
  PROVE  /\ Xor4(a, Xor(b, c), d, e) \in Byte
         /\ xtime(Xor4(a, Xor(b, c), d, e))
              = Xor4(xtime(a), Xor(xtime(b), xtime(c)), xtime(d), xtime(e))
<1>1. Xor(b, c) \in Byte /\ Xor(d, e) \in Byte /\ Xor(Xor(b, c), Xor(d, e)) \in Byte
  BY XorByte
<1>2. Xor4(a, Xor(b, c), d, e) \in Byte
  BY <1>1, XorByte DEF Xor4
<1>3. xtime(Xor4(a, Xor(b, c), d, e))
       = Xor4(xtime(a), Xor(xtime(b), xtime(c)), xtime(d), xtime(e))
  BY <1>1, XtimeXor DEF Xor4
<1> QED BY <1>2, <1>3

LEMMA ColumnInverse ==
  ASSUME NEW c0 \in Byte, NEW c1 \in Byte, NEW c2 \in Byte, NEW c3 \in Byte
  PROVE  Xor4(gmul(Xor4(gmul({1}, c0), gmul({0, 1}, c1), c2, c3), {1, 2, 3}),
              gmul(Xor4(gmul({1}, c1), gmul({0, 1}, c2), c3, c0), {0, 1, 3}),
              gmul(Xor4(gmul({1}, c2), gmul({0, 1}, c3), c0, c1), {0, 2, 3}),
              gmul(Xor4(gmul({1}, c3), gmul({0, 1}, c0), c1, c2), {0, 3})) = c0
<1> DEFINE X(c) == xtime(c)  X2(c) == xtime(X(c))  X3(c) == xtime(X2(c))
           X4(c) == xtime(X3(c))
           m(a, b, c, d) == Xor4(X(a), Xor(X(b), b), c, d)
<1>1. \A c \in Byte : X(c) \in Byte /\ X2(c) \in Byte /\ X3(c) \in Byte /\ X4(c) \in Byte
  BY XtimeBits
<1>2. ASSUME NEW a \in Byte, NEW b \in Byte, NEW c \in Byte, NEW d \in Byte
      PROVE  /\ Xor4(gmul({1}, a), gmul({0, 1}, b), c, d) = m(a, b, c, d)
             /\ m(a, b, c, d) \in Byte
             /\ X(m(a, b, c, d)) = Xor4(X2(a), Xor(X2(b), X(b)), X(c), X(d))
             /\ X2(m(a, b, c, d)) = Xor4(X3(a), Xor(X3(b), X2(b)), X2(c), X2(d))
             /\ X3(m(a, b, c, d)) = Xor4(X4(a), Xor(X4(b), X3(b)), X3(c), X3(d))
  <2>1. Xor4(gmul({1}, a), gmul({0, 1}, b), c, d) = m(a, b, c, d)
    BY TimesTwoThree
  <2>2. X(a) \in Byte /\ X(b) \in Byte
    BY XtimeBits
  <2>3. /\ m(a, b, c, d) \in Byte
        /\ X(m(a, b, c, d)) = Xor4(X2(a), Xor(X2(b), X(b)), X(c), X(d))
    BY <2>2, XtimeMixed
  <2>4. X2(a) \in Byte /\ X2(b) \in Byte /\ X(c) \in Byte /\ X(d) \in Byte
    BY <2>2, XtimeBits
  <2>5. X2(m(a, b, c, d)) = Xor4(X3(a), Xor(X3(b), X2(b)), X2(c), X2(d))
    <3> DEFINE r == X2(a)  s == X2(b)  t == X(b)  u == X(c)  v == X(d)
    <3> HIDE DEF r, s, t, u, v
    <3>1. xtime(Xor4(r, Xor(s, t), u, v)) = Xor4(xtime(r), Xor(xtime(s), xtime(t)), xtime(u), xtime(v))
      BY <2>2, <2>4, XtimeMixed DEF r, s, t, u, v
    <3> QED BY <2>3, <3>1 DEF r, s, t, u, v
  <2>6. X3(a) \in Byte /\ X3(b) \in Byte /\ X2(c) \in Byte /\ X2(d) \in Byte
    BY <2>4, XtimeBits
  <2>7. X3(m(a, b, c, d)) = Xor4(X4(a), Xor(X4(b), X3(b)), X3(c), X3(d))
    <3> DEFINE r == X3(a)  s == X3(b)  t == X2(b)  u == X2(c)  v == X2(d)
    <3> HIDE DEF r, s, t, u, v
    <3>1. xtime(Xor4(r, Xor(s, t), u, v)) = Xor4(xtime(r), Xor(xtime(s), xtime(t)), xtime(u), xtime(v))
      BY <2>4, <2>6, XtimeMixed DEF r, s, t, u, v
    <3> QED BY <2>5, <3>1 DEF r, s, t, u, v
  <2> QED BY <2>1, <2>3, <2>5, <2>7
<1> DEFINE P(k, a, b, c, d, e) == ~(k \in a <=> ~(~(k \in b <=> k \in c) <=> ~(k \in d <=> k \in e)))
<1>3. ASSUME NEW a \in Byte, NEW b \in Byte, NEW c \in Byte, NEW d \in Byte, NEW k
      PROVE  /\ k \in m(a, b, c, d) <=> P(k, X(a), X(b), b, c, d)
             /\ k \in X(m(a, b, c, d)) <=> P(k, X2(a), X2(b), X(b), X(c), X(d))
             /\ k \in X2(m(a, b, c, d)) <=> P(k, X3(a), X3(b), X2(b), X2(c), X2(d))
             /\ k \in X3(m(a, b, c, d)) <=> P(k, X4(a), X4(b), X3(b), X3(c), X3(d))
  BY <1>2, MixedBits
<1> DEFINE m0 == m(c0, c1, c2, c3)  m1 == m(c1, c2, c3, c0)
           m2 == m(c2, c3, c0, c1)  m3 == m(c3, c0, c1, c2)
           sum == Xor4(gmul(m0, {1, 2, 3}), gmul(m1, {0, 1, 3}), gmul(m2, {0, 2, 3}),
                       gmul(m3, {0, 3}))
<1>4. ASSUME NEW k PROVE k \in sum <=> k \in c0
  <2>1. k \in sum <=> ~(k \in gmul(m0, {1, 2, 3}) <=> ~(k \in gmul(m1, {0, 1, 3}) <=>
                       ~(k \in gmul(m2, {0, 2, 3}) <=> k \in gmul(m3, {0, 3}))))
    BY XorIn DEF Xor4
  <2>2. m0 \in Byte /\ m1 \in Byte /\ m2 \in Byte /\ m3 \in Byte
    BY <1>2
  <2>3. /\ k \in gmul(m0, {1, 2, 3}) <=> ~(k \in X(m0) <=> ~(k \in X2(m0) <=> k \in X3(m0)))
        /\ k \in gmul(m1, {0, 1, 3}) <=> ~(k \in m1 <=> ~(k \in X(m1) <=> k \in X3(m1)))
        /\ k \in gmul(m2, {0, 2, 3}) <=> ~(k \in m2 <=> ~(k \in X2(m2) <=> k \in X3(m2)))
        /\ k \in gmul(m3, {0, 3}) <=> ~(k \in m3 <=> k \in X3(m3))
    <3> HIDE DEF m0, m1, m2, m3
    <3> QED BY <2>2, TimesInverse
  <2>4. /\ k \in X(m0) <=> P(k, X2(c0), X2(c1), X(c1), X(c2), X(c3))
        /\ k \in X2(m0) <=> P(k, X3(c0), X3(c1), X2(c1), X2(c2), X2(c3))
        /\ k \in X3(m0) <=> P(k, X4(c0), X4(c1), X3(c1), X3(c2), X3(c3))
    BY <1>3
  <2>5. /\ k \in m1 <=> P(k, X(c1), X(c2), c2, c3, c0)
        /\ k \in X(m1) <=> P(k, X2(c1), X2(c2), X(c2), X(c3), X(c0))
        /\ k \in X3(m1) <=> P(k, X4(c1), X4(c2), X3(c2), X3(c3), X3(c0))
    BY <1>3
  <2>6. /\ k \in m2 <=> P(k, X(c2), X(c3), c3, c0, c1)
        /\ k \in X2(m2) <=> P(k, X3(c2), X3(c3), X2(c3), X2(c0), X2(c1))
        /\ k \in X3(m2) <=> P(k, X4(c2), X4(c3), X3(c3), X3(c0), X3(c1))
    BY <1>3
  <2>7. /\ k \in m3 <=> P(k, X(c3), X(c0), c0, c1, c2)
        /\ k \in X3(m3) <=> P(k, X4(c3), X4(c0), X3(c0), X3(c1), X3(c2))
    BY <1>3
  <2> HIDE DEF X, X2, X3, X4, m0, m1, m2, m3, sum
  <2> QED BY <2>1, <2>3, <2>4, <2>5, <2>6, <2>7
<1>5. sum = c0
  <2> HIDE DEF sum
  <2> QED BY <1>4
<1> QED BY <1>2, <1>5

----------------------------------------------------------------------------
(* Blocks *)

LEMMA AddTwice ==
  ASSUME NEW b \in Block, NEW w \in Block
  PROVE  /\ add_Round(b, w) \in Block
         /\ add_Round(add_Round(b, w), w) = b
<1>1. \A k \in 0..15 : b[k] \in Byte /\ w[k] \in Byte
  BY DEF Block
<1>2. add_Round(b, w) \in Block
  BY <1>1, XorByte DEF add_Round, Block
<1>3. \A k \in 0..15 : add_Round(add_Round(b, w), w)[k] = b[k]
  BY <1>1, XorTwice DEF add_Round
<1>4. add_Round(add_Round(b, w), w) = [k \in 0..15 |-> add_Round(add_Round(b, w), w)[k]]
  BY DEF add_Round
<1> QED BY <1>2, <1>3, <1>4 DEF Block

LEMMA BytesInverse ==
  ASSUME NEW b \in Block
  PROVE  sub_Bytes(b) \in Block /\ inv_Bytes(b) \in Block /\ inv_Bytes(sub_Bytes(b)) = b
  BY TablesAssumption DEF sub_Bytes, inv_Bytes, Block

\* Shifting a row back and forth is an affair of indices.
LEMMA RowsInverse ==
  ASSUME NEW b \in Block
  PROVE  shift_Rows(b) \in Block /\ inv_Rows(b) \in Block /\ inv_Rows(shift_Rows(b)) = b
<1>1. \A k \in 0..15 : (k + 4 * (k % 4)) % 16 \in 0..15 /\ (k + 12 * (k % 4)) % 16 \in 0..15
  OBVIOUS
<1>2. shift_Rows(b) \in Block /\ inv_Rows(b) \in Block
  BY <1>1 DEF shift_Rows, inv_Rows, Block
<1>3. ASSUME NEW k \in 0..15 PROVE inv_Rows(shift_Rows(b))[k] = b[k]
  <2> DEFINE j == (k + 12 * (k % 4)) % 16
  <2>1. j \in 0..15 /\ (j + 4 * (j % 4)) % 16 = k
    <3>1. k \in {0, 1, 2, 3, 4, 5, 6, 7, 8, 9, 10, 11, 12, 13, 14, 15}
      OBVIOUS
    <3> QED BY <3>1
  <2> HIDE DEF j
  <2>2. inv_Rows(shift_Rows(b))[k] = shift_Rows(b)[j]
    BY DEF inv_Rows, j
  <2> QED BY <2>1, <2>2 DEF shift_Rows
<1>4. inv_Rows(shift_Rows(b)) = [k \in 0..15 |-> inv_Rows(shift_Rows(b))[k]]
  BY DEF inv_Rows
<1> QED BY <1>2, <1>3, <1>4 DEF Block

LEMMA Xor4Byte ==
  ASSUME NEW a \in Byte, NEW b \in Byte, NEW c \in Byte, NEW d \in Byte
  PROVE  Xor4(a, b, c, d) \in Byte
<1>1. Xor(c, d) \in Byte
  BY XorByte
<1>2. Xor(b, Xor(c, d)) \in Byte
  BY <1>1, XorByte
<1> QED BY <1>2, XorByte DEF Xor4

LEMMA InverseByte ==
  ASSUME NEW a \in Byte
  PROVE  /\ gmul(a, {1, 2, 3}) \in Byte /\ gmul(a, {0, 1, 3}) \in Byte
         /\ gmul(a, {0, 2, 3}) \in Byte /\ gmul(a, {0, 3}) \in Byte
<1> DEFINE x1 == xtime(a)  x2 == xtime(x1)  x3 == xtime(x2)
<1>1. x1 \in Byte /\ x2 \in Byte /\ x3 \in Byte
  BY XtimeBits
<1>2. \A k : /\ k \in gmul(a, {1, 2, 3}) => k \in x1 \/ k \in x2 \/ k \in x3
             /\ k \in gmul(a, {0, 1, 3}) => k \in a \/ k \in x1 \/ k \in x3
             /\ k \in gmul(a, {0, 2, 3}) => k \in a \/ k \in x2 \/ k \in x3
             /\ k \in gmul(a, {0, 3}) => k \in a \/ k \in x3
  BY TimesInverse
<1> HIDE DEF x1, x2, x3
<1> QED BY <1>1, <1>2 DEF Byte

LEMMA ColumnsInverse ==
  ASSUME NEW b \in Block
  PROVE  /\ mix_Column(b) \in Block /\ inv_Column(b) \in Block
         /\ inv_Column(mix_Column(b)) = b
<1>1. ASSUME NEW a \in Block, NEW k \in 0..15, NEW c \in 0..3 PROVE At(a, k, c) \in Byte
  <2>1. 4 * (k \div 4) + ((k + c) % 4) \in 0..15
    OBVIOUS
  <2> QED BY <2>1 DEF At, Block
<1>2. mix_Column(b) \in Block
  <2>1. ASSUME NEW k \in 0..15
        PROVE  Xor4(gmul({1}, At(b, k, 0)), gmul({0, 1}, At(b, k, 1)), At(b, k, 2), At(b, k, 3)) \in Byte
    <3>1. At(b, k, 0) \in Byte /\ At(b, k, 1) \in Byte /\ At(b, k, 2) \in Byte /\ At(b, k, 3) \in Byte
      BY <1>1
    <3>2. gmul({1}, At(b, k, 0)) \in Byte /\ gmul({0, 1}, At(b, k, 1)) \in Byte
      BY <3>1, TimesTwoThree, XtimeBits, XorByte
    <3> QED BY <3>1, <3>2, Xor4Byte
  <2> QED BY <2>1 DEF mix_Column, Block
<1>3. inv_Column(b) \in Block
  <2>1. ASSUME NEW k \in 0..15
        PROVE  Xor4(gmul(At(b, k, 0), {1, 2, 3}), gmul(At(b, k, 1), {0, 1, 3}),
                    gmul(At(b, k, 2), {0, 2, 3}), gmul(At(b, k, 3), {0, 3})) \in Byte
    <3>1. At(b, k, 0) \in Byte /\ At(b, k, 1) \in Byte /\ At(b, k, 2) \in Byte /\ At(b, k, 3) \in Byte
      BY <1>1
    <3>2. /\ gmul(At(b, k, 0), {1, 2, 3}) \in Byte /\ gmul(At(b, k, 1), {0, 1, 3}) \in Byte
          /\ gmul(At(b, k, 2), {0, 2, 3}) \in Byte /\ gmul(At(b, k, 3), {0, 3}) \in Byte
      BY <3>1, InverseByte
    <3> QED BY <3>2, Xor4Byte
  <2> QED BY <2>1 DEF inv_Column, Block
<1>4. ASSUME NEW k \in 0..15 PROVE inv_Column(mix_Column(b))[k] = b[k]
  <2> DEFINE m == mix_Column(b)
  <2>1. ASSUME NEW c \in 0..3
        PROVE  At(m, k, c) = Xor4(gmul({1}, At(b, k, c)), gmul({0, 1}, At(b, k, (c + 1) % 4)),
                                  At(b, k, (c + 2) % 4), At(b, k, (c + 3) % 4))
    <3> DEFINE j == 4 * (k \div 4) + ((k + c) % 4)
    <3>1. j \in 0..15 /\ j \div 4 = k \div 4
      OBVIOUS
    <3>2. \A d \in 0..3 : (j + d) % 4 = (k + ((c + d) % 4)) % 4
      OBVIOUS
    <3>3. \A d \in 0..3 : At(b, j, d) = At(b, k, (c + d) % 4)
      BY <3>1, <3>2 DEF At
    <3>4. m[j] = Xor4(gmul({1}, At(b, j, 0)), gmul({0, 1}, At(b, j, 1)), At(b, j, 2), At(b, j, 3))
      BY <3>1 DEF mix_Column
    <3>5. At(m, k, c) = m[j]
      BY DEF At
    <3>6. (c + 0) % 4 = c
      OBVIOUS
    <3> HIDE DEF j, m
    <3> QED BY <3>3, <3>4, <3>5, <3>6
  <2>2. /\ At(m, k, 0) = Xor4(gmul({1}, At(b, k, 0)), gmul({0, 1}, At(b, k, 1)), At(b, k, 2), At(b, k, 3))
        /\ At(m, k, 1) = Xor4(gmul({1}, At(b, k, 1)), gmul({0, 1}, At(b, k, 2)), At(b, k, 3), At(b, k, 0))
        /\ At(m, k, 2) = Xor4(gmul({1}, At(b, k, 2)), gmul({0, 1}, At(b, k, 3)), At(b, k, 0), At(b, k, 1))
        /\ At(m, k, 3) = Xor4(gmul({1}, At(b, k, 3)), gmul({0, 1}, At(b, k, 0)), At(b, k, 1), At(b, k, 2))
    <3> HIDE DEF m
    <3> QED BY <2>1
  <2>3. inv_Column(m)[k] = Xor4(gmul(At(m, k, 0), {1, 2, 3}), gmul(At(m, k, 1), {0, 1, 3}),
                                gmul(At(m, k, 2), {0, 2, 3}), gmul(At(m, k, 3), {0, 3}))
    BY DEF inv_Column
  <2>4. At(b, k, 0) = b[k]
    <3>1. 4 * (k \div 4) + ((k + 0) % 4) = k
      OBVIOUS
    <3> QED BY <3>1 DEF At
  <2> HIDE DEF m
  <2>5. inv_Column(m)[k] = At(b, k, 0)
    <3>1. At(b, k, 0) \in Byte /\ At(b, k, 1) \in Byte /\ At(b, k, 2) \in Byte /\ At(b, k, 3) \in Byte
      BY <1>1
    <3> QED BY <2>2, <2>3, <3>1, ColumnInverse
  <2> QED BY <2>4, <2>5 DEF m
<1>5. inv_Column(mix_Column(b)) = [k \in 0..15 |-> inv_Column(mix_Column(b))[k]]
  BY DEF inv_Column
<1> QED BY <1>2, <1>3, <1>4, <1>5 DEF Block

----------------------------------------------------------------------------
(* Rounds *)

Expanded == roundKeys \in Seq(Word) /\ Len(roundKeys) = KeyWords

LEMMA KeyType ==
  ASSUME Expanded, NEW r \in Stage PROVE RoundKey(r) \in Block
<1>1. \A k \in 0..15 : 4 * r + k \div 4 + 1 \in 1..KeyWords /\ k % 4 \in 0..3
  BY DEF Stage, AES_ROUNDS, KeyWords
<1>2. \A n \in 1..KeyWords : roundKeys[n] \in Word
  BY DEF Expanded
<1>3. \A k \in 0..15 : roundKeys[4 * r + k \div 4 + 1][k % 4] \in Byte
  BY <1>1, <1>2 DEF Word
<1> QED BY <1>3 DEF RoundKey, Block

\* What a block is between the shift of a round and the next addition.
Moved(b) == shift_Rows(sub_Bytes(b))

LEMMA MovedBack ==
  ASSUME NEW b \in Block
  PROVE  Moved(b) \in Block /\ inv_Bytes(inv_Rows(Moved(b))) = b
<1>1. sub_Bytes(b) \in Block
  BY BytesInverse
<1> QED BY <1>1, BytesInverse, RowsInverse DEF Moved

LEMMA RoundTypes ==
  ASSUME Expanded, NEW b \in Block, NEW r \in Stage
  PROVE  Encrypted(b, r) \in Block /\ Decrypted(b, r) \in Block
<1>1. RoundKey(r) \in Block
  BY KeyType
<1>2. Moved(b) \in Block /\ mix_Column(Moved(b)) \in Block
  BY MovedBack, ColumnsInverse
<1>3. Encrypted(b, r) \in Block
  BY <1>1, <1>2, AddTwice DEF Encrypted, Moved
<1>4. inv_Bytes(inv_Rows(b)) \in Block
  BY RowsInverse, BytesInverse
<1>5. add_Round(inv_Bytes(inv_Rows(b)), RoundKey(r)) \in Block /\ add_Round(b, RoundKey(r)) \in Block
  BY <1>1, <1>4, AddTwice
<1>6. Decrypted(b, r) \in Block
  BY <1>5, ColumnsInverse DEF Decrypted
<1> QED BY <1>3, <1>6

\* Each round of de_Crypt ends where the round of aes_Encrypt moved the bytes.
LEMMA LastUndone ==
  ASSUME Expanded, NEW b \in Block
  PROVE  Decrypted(Encrypted(b, AES_ROUNDS), AES_ROUNDS) = Moved(b)
<1>1. RoundKey(AES_ROUNDS) \in Block
  BY KeyType DEF Stage, AES_ROUNDS
<1>2. AES_ROUNDS # 0
  BY DEF AES_ROUNDS
<1>3. Encrypted(b, AES_ROUNDS) = add_Round(Moved(b), RoundKey(AES_ROUNDS))
  BY <1>2 DEF Encrypted, Moved
<1>4. \A c : Decrypted(c, AES_ROUNDS) = add_Round(c, RoundKey(AES_ROUNDS))
  BY <1>2 DEF Decrypted
<1> QED BY <1>1, <1>3, <1>4, MovedBack, AddTwice

LEMMA MiddleUndone ==
  ASSUME Expanded, NEW b \in Block, NEW r \in 1..(AES_ROUNDS - 1)
  PROVE  Decrypted(Moved(Encrypted(b, r)), r) = Moved(b)
<1> DEFINE w == RoundKey(r)  mixed == mix_Column(Moved(b))
<1>1. w \in Block
  BY KeyType DEF Stage, AES_ROUNDS
<1>2. r # 0 /\ r # AES_ROUNDS
  BY DEF AES_ROUNDS
<1>3. Moved(b) \in Block /\ mixed \in Block /\ inv_Column(mixed) = Moved(b)
  BY MovedBack, ColumnsInverse
<1>4. Encrypted(b, r) = add_Round(mixed, w)
  BY <1>2 DEF Encrypted, Moved
<1>5. add_Round(mixed, w) \in Block /\ add_Round(add_Round(mixed, w), w) = mixed
  BY <1>1, <1>3, AddTwice
<1>6. inv_Bytes(inv_Rows(Moved(Encrypted(b, r)))) = add_Round(mixed, w)
  BY <1>4, <1>5, MovedBack
<1>7. Decrypted(Moved(Encrypted(b, r)), r)
        = inv_Column(add_Round(inv_Bytes(inv_Rows(Moved(Encrypted(b, r)))), w))
  BY <1>2 DEF Decrypted
<1> QED BY <1>3, <1>5, <1>6, <1>7

LEMMA FirstUndone ==
  ASSUME Expanded, NEW b \in Block
  PROVE  Decrypted(Moved(Encrypted(b, 0)), 0) = b
<1> DEFINE w == RoundKey(0)
<1>1. w \in Block
  BY KeyType DEF Stage, AES_ROUNDS
<1>2. add_Round(b, w) \in Block /\ add_Round(add_Round(b, w), w) = b
  BY <1>1, AddTwice
<1>3. Encrypted(b, 0) = add_Round(b, w)
  BY DEF Encrypted, AES_ROUNDS
<1>4. inv_Bytes(inv_Rows(Moved(Encrypted(b, 0)))) = add_Round(b, w)
  BY <1>2, <1>3, MovedBack
<1>5. Decrypted(Moved(Encrypted(b, 0)), 0)
        = add_Round(inv_Bytes(inv_Rows(Moved(Encrypted(b, 0)))), w)
  BY DEF Decrypted, AES_ROUNDS
<1> QED BY <1>2, <1>4, <1>5

----------------------------------------------------------------------------
(* The padding *)

LEMMA Blocks ==
  ASSUME NEW m \in Seq(Byte)
  PROVE  /\ numBlocks(m) \in Nat
         /\ Len(m) <= AES_BLOCK_SIZE * numBlocks(m)
         /\ AES_BLOCK_SIZE * numBlocks(m) - Len(m) \in 0..15
  BY DEF numBlocks, AES_BLOCK_SIZE

LEMMA PaddedType ==
  ASSUME NEW m \in Seq(Byte) PROVE Padded(m) \in [0..(numBlocks(m) - 1) -> Block]
<1>1. \A n : ByteOf(n) \in Byte
  BY DEF ByteOf, Byte
<1>2. \A at \in Nat : at < Len(m) => m[at + 1] \in Byte
  OBVIOUS
<1>3. \A n \in 0..(numBlocks(m) - 1), k \in 0..15 : AES_BLOCK_SIZE * n + k \in Nat
  BY Blocks DEF AES_BLOCK_SIZE
<1> QED BY <1>1, <1>2, <1>3 DEF Padded, Block

----------------------------------------------------------------------------
(* The invariant *)

Indices == 0..(numBlocks(message) - 1)

Ended == {"shown", "exited", "unknown", "overread"}

\* Every variable by the place main is at; roundKeys is complete before it is used.
PlaceInv ==
  /\ message \in Texts /\ key \in Keys
  /\ pc \in {"prepare", "key", "expand", "encrypt", "decrypt", "revert", "failed"} \cup Ended
  /\ pc \in {"prepare", "failed"} => data = <<>>
  /\ pc \notin {"prepare", "failed"} => data \in [Indices -> Block]
  /\ roundKeys \in Seq(Word)
  /\ pc \in {"prepare", "key", "failed"} => roundKeys = <<>>
  /\ pc = "expand" => Len(roundKeys) \in 4..(KeyWords - 1)
  /\ pc \in {"encrypt", "decrypt", "revert"} \cup Ended => Len(roundKeys) = KeyWords
  /\ i \in 0..numBlocks(message) /\ round \in Stage
  /\ pc \notin {"encrypt", "decrypt"} => i = 0 /\ round = 0
  /\ text \in Seq(Byte)
  /\ pc \in {"prepare", "failed"} => stages = <<>>
  /\ pc \notin {"prepare", "failed"} => stages \in [Indices -> Seq(Block)]

\* A block before round r, and what the rounds before it made of it.
Before(n, r) == IF r = 0 THEN Padded(message)[n] ELSE stages[n][r]
Chained(n, len) ==
  /\ Len(stages[n]) = len
  /\ \A r \in 0..(len - 1) : stages[n][r + 1] = Encrypted(Before(n, r), r)

\* aes_Encrypt: the blocks before i are through, i has been through round rounds.
Passed(n, len) == len = IF n < i THEN AES_ROUNDS + 1 ELSE IF n = i THEN round ELSE 0
EncryptInv ==
  /\ pc \in {"key", "expand"} =>
       data = Padded(message) /\ \A n \in Indices : stages[n] = <<>>
  /\ pc = "encrypt" =>
       /\ i = numBlocks(message) => round = 0
       /\ \A n \in Indices, len \in 0..(AES_ROUNDS + 1) :
            Passed(n, len) => Chained(n, len) /\ data[n] = Before(n, len)

\* de_Crypt: the blocks before i are restored, the rounds of i above round undone.
DecryptInv ==
  /\ pc = "decrypt" =>
       /\ i = numBlocks(message) => round = AES_ROUNDS
       /\ \A n \in Indices :
            /\ Chained(n, AES_ROUNDS + 1)
            /\ n < i => data[n] = Padded(message)[n]
            /\ n > i \/ (n = i /\ round = AES_ROUNDS) => data[n] = Before(n, AES_ROUNDS + 1)
            /\ \A r \in 1..AES_ROUNDS :
                 n = i /\ r = round + 1 => data[n] = Moved(Before(n, r))
  /\ pc \in {"revert"} \cup Ended => data = Padded(message)

IInv == PlaceInv /\ EncryptInv /\ DecryptInv

LEMMA PlaceIsTyped == ASSUME PlaceInv PROVE TypeOK
<1>1. message \in Seq(Byte)
  BY InputAssumption DEF PlaceInv
<1>2. numBlocks(message) \in Nat
  BY <1>1, Blocks
<1>3. CASE pc \in {"prepare", "failed"}
  <2>1. data = <<>> /\ stages = <<>> /\ roundKeys = <<>> /\ DOMAIN <<>> = {}
    BY <1>3 DEF PlaceInv
  <2>2. <<>> \in [{} -> Block] /\ <<>> \in [{} -> Seq(Block)]
    OBVIOUS
  <2>3. Len(roundKeys) <= KeyWords
    BY <2>1 DEF KeyWords
  <2> QED BY <1>3, <2>1, <2>2, <2>3 DEF PlaceInv, TypeOK
<1>4. CASE pc \notin {"prepare", "failed"}
  <2>1. /\ data \in [Indices -> Block] /\ DOMAIN data = Indices
        /\ stages \in [Indices -> Seq(Block)] /\ DOMAIN stages = Indices
    BY <1>4 DEF PlaceInv
  <2>2. Len(roundKeys) <= KeyWords
    <3>1. CASE pc = "key"
      <4>1. roundKeys = <<>>
        BY <3>1 DEF PlaceInv
      <4> QED BY <4>1 DEF KeyWords
    <3>2. CASE pc # "key"
      <4> DEFINE len == Len(roundKeys)
      <4>1. len \in 4..(KeyWords - 1) \/ len = KeyWords
        BY <1>4, <3>2 DEF PlaceInv, Ended
      <4> HIDE DEF len
      <4>2. len <= KeyWords
        BY <4>1 DEF KeyWords
      <4> QED BY <4>2 DEF len
    <3> QED BY <3>1, <3>2
  <2> QED BY <1>4, <2>1, <2>2 DEF PlaceInv, TypeOK, Indices, Ended
<1> QED BY <1>3, <1>4

LEMMA InitInv == ASSUME Init PROVE IInv
<1>1. message \in Seq(Byte)
  BY InputAssumption DEF Init
<1>2. PlaceInv
  BY <1>1, Blocks DEF Init, PlaceInv, Stage, AES_ROUNDS, Ended
<1> QED BY <1>2 DEF Init, IInv, EncryptInv, DecryptInv, Ended

LEMMA WordTypes ==
  ASSUME NEW w \in Word, NEW n \in 4..(KeyWords - 1) PROVE Temp(w, n) \in Word
<1>1. rotWord(w) \in Word
  BY DEF rotWord, Word
<1>2. subWord(rotWord(w)) \in Word
  BY <1>1, TablesAssumption DEF subWord, Word
<1>3. CASE n % 4 = 0
  <2>1. n \div 4 \in {1, 2, 3, 4, 5, 6, 7, 8, 9, 10}
    BY <1>3 DEF KeyWords
  <2>2. rcon[n \div 4] \in Byte
    BY <2>1 DEF rcon, Byte, Bit
  <2>3. subWord(rotWord(w))[0] \in Byte
    BY <1>2 DEF Word
  <2>4. Xor(subWord(rotWord(w))[0], rcon[n \div 4]) \in Byte
    BY <2>2, <2>3, XorByte
  <2>5. Temp(w, n) = [subWord(rotWord(w)) EXCEPT ![0] = Xor(@, rcon[n \div 4])]
    BY <1>3 DEF Temp
  <2> QED BY <1>2, <2>4, <2>5 DEF Word
<1> QED BY <1>3 DEF Temp

LEMMA PrepareKeeps == ASSUME IInv, prepare_Block PROVE IInv'
<1>1. message \in Seq(Byte) /\ message' = message
  BY InputAssumption DEF IInv, PlaceInv, prepare_Block, input
<1>2. Padded(message) \in [Indices -> Block] /\ Indices' = Indices
  BY <1>1, PaddedType DEF Indices
<1>3. CASE pc' = "failed"
  BY <1>1, <1>3 DEF IInv, PlaceInv, EncryptInv, DecryptInv, prepare_Block, input, Ended
<1>4. CASE pc' = "key"
  <2>1. PlaceInv'
    <3>1. <<>> \in Seq(Block) /\ stages' = [n \in Indices |-> <<>>]
      BY <1>4 DEF prepare_Block, Indices
    <3>2. stages' \in [Indices -> Seq(Block)]
      BY <3>1
    <3>3. data' \in [Indices -> Block]
      BY <1>2, <1>4 DEF prepare_Block
    <3> QED BY <1>1, <1>2, <1>4, <3>2, <3>3 DEF IInv, PlaceInv, prepare_Block, input, Ended
  <2>2. EncryptInv' /\ DecryptInv'
    BY <1>1, <1>2, <1>4 DEF EncryptInv, DecryptInv, prepare_Block, Ended, Indices
  <2> QED BY <2>1, <2>2 DEF IInv
<1> QED BY <1>3, <1>4 DEF prepare_Block

LEMMA CopyKeyKeeps == ASSUME IInv, CopyKey PROVE IInv'
<1>1. message' = message /\ key \in Block /\ key' = key /\ Indices' = Indices
  BY InputAssumption DEF IInv, PlaceInv, CopyKey, input, Indices
<1>2. roundKeys' \in Seq(Word) /\ Len(roundKeys') = 4
  <2> DEFINE word(n) == [k \in 0..3 |-> key[4 * n + k]]
  <2>1. \A n \in 0..3, k \in 0..3 : 4 * n + k \in 0..15
    OBVIOUS
  <2>2. \A n \in 0..3 : word(n) \in Word
    BY <1>1, <2>1 DEF Block, Word
  <2>3. roundKeys' = <<word(0), word(1), word(2), word(3)>>
    BY DEF CopyKey
  <2>4. word(0) \in Word /\ word(1) \in Word /\ word(2) \in Word /\ word(3) \in Word
    BY <2>2
  <2> HIDE DEF word
  <2> QED BY <2>3, <2>4
<1>3. PlaceInv'
  BY <1>1, <1>2 DEF IInv, PlaceInv, CopyKey, input, Ended, KeyWords
<1>4. EncryptInv' /\ DecryptInv'
  BY <1>1 DEF IInv, EncryptInv, DecryptInv, CopyKey, Ended
<1> QED BY <1>3, <1>4 DEF IInv

LEMMA ExpandKeyKeeps == ASSUME IInv, ExpandKey PROVE IInv'
<1> DEFINE n   == Len(roundKeys)
           new == Temp(roundKeys[n], n)
           w   == [k \in 0..3 |-> Xor(roundKeys[n - 3][k], new[k])]
<1>1. message' = message /\ key' = key /\ Indices' = Indices /\ data' = data /\ stages' = stages
  BY DEF ExpandKey, input, Indices
<1>2. n \in 4..(KeyWords - 1) /\ roundKeys \in Seq(Word) /\ n = Len(roundKeys)
  BY DEF IInv, PlaceInv, ExpandKey
<1>3. roundKeys[n] \in Word /\ roundKeys[n - 3] \in Word
  <2>1. n \in 1..Len(roundKeys) /\ n - 3 \in 1..Len(roundKeys)
    <3> HIDE DEF n
    <3> QED BY <1>2 DEF KeyWords
  <2> HIDE DEF n
  <2> QED BY <1>2, <2>1
<1>4. new \in Word
  BY <1>2, <1>3, WordTypes
<1>5. w \in Word
  <2> HIDE DEF new
  <2>1. \A k \in 0..3 : Xor(roundKeys[n - 3][k], new[k]) \in Byte
    BY <1>3, <1>4, XorByte DEF Word
  <2> QED BY <2>1 DEF Word
<1>6. roundKeys' = Append(roundKeys, w) /\ pc' = IF n + 1 < KeyWords THEN "expand" ELSE "encrypt"
  BY DEF ExpandKey
<1>7. roundKeys' \in Seq(Word) /\ Len(roundKeys') = n + 1
  <2> HIDE DEF w
  <2> QED BY <1>2, <1>5, <1>6
<1>8. PlaceInv'
  <2> HIDE DEF n
  <2>1. (n + 1 \in 4..(KeyWords - 1) /\ pc' = "expand") \/ (n + 1 = KeyWords /\ pc' = "encrypt")
    <3>1. pc' = IF n + 1 < KeyWords THEN "expand" ELSE "encrypt"
      BY <1>6
    <3>2. n \in 4..(KeyWords - 1)
      BY <1>2
    <3>3. /\ n + 1 \in 4..(KeyWords - 1) \/ n + 1 = KeyWords
          /\ n + 1 < KeyWords <=> n + 1 \in 4..(KeyWords - 1)
      BY <3>2 DEF KeyWords
    <3>4. n + 1 = KeyWords => ~(n + 1 < KeyWords)
      BY DEF KeyWords
    <3> QED BY <3>1, <3>2, <3>3, <3>4
  <2>2. i' = 0 /\ round' = 0 /\ 0 \in 0..numBlocks(message)
    BY DEF IInv, PlaceInv, ExpandKey
  <2> QED BY <1>1, <1>7, <2>1, <2>2 DEF IInv, PlaceInv, ExpandKey, input, Ended, Stage
<1>9. EncryptInv'
  <2>1. i = 0 /\ round = 0 /\ i' = 0 /\ round' = 0
    BY DEF IInv, PlaceInv, ExpandKey
  <2>2. data = Padded(message) /\ \A m \in Indices : stages[m] = <<>>
    BY DEF IInv, EncryptInv, ExpandKey
  <2>3. \A m \in Indices : ~(m < 0) /\ Len(stages[m]) = 0
    BY <2>2 DEF Indices
  <2>4. ASSUME NEW m \in Indices, NEW len, Passed(m, len)'
        PROVE  Chained(m, len)' /\ data'[m] = Before(m, len)'
    <3>1. len = 0
      BY <2>1, <2>3, <2>4 DEF Passed
    <3> QED BY <1>1, <2>2, <2>3, <3>1 DEF Chained, Before
  <2> HIDE DEF n
  <2> QED BY <1>1, <1>6, <2>1, <2>2, <2>4 DEF EncryptInv
<1>10. DecryptInv'
  BY <1>6 DEF DecryptInv, Ended
<1> QED BY <1>8, <1>9, <1>10 DEF IInv

\* What the loops leave of the blocks that they do not touch.
LEMMA Unchanged ==
  ASSUME message' = message, roundKeys' = roundKeys,
         NEW n \in Indices, stages'[n] = stages[n]
  PROVE  /\ \A r : Before(n, r)' = Before(n, r)
         /\ \A len : Chained(n, len)' <=> Chained(n, len)
<1>1. \A r : Before(n, r)' = Before(n, r)
  BY DEF Before
<1>2. \A b, r : Encrypted(b, r)' = Encrypted(b, r)
  BY DEF Encrypted, RoundKey
<1> QED BY <1>1, <1>2 DEF Chained

LEMMA BeforeType ==
  ASSUME IInv, NEW n \in Indices, pc \notin {"prepare", "failed"},
         NEW r \in 0..Len(stages[n])
  PROVE  Before(n, r) \in Block
<1>1. Padded(message)[n] \in Block
  BY PaddedType, InputAssumption DEF IInv, PlaceInv, Indices
<1>2. stages[n] \in Seq(Block)
  BY DEF IInv, PlaceInv
<1>3. r # 0 => stages[n][r] \in Block
  BY <1>2
<1> QED BY <1>1, <1>3 DEF Before

LEMMA EncryptKeeps == ASSUME IInv, aes_Encrypt PROVE IInv'
<1>1. /\ pc = "encrypt" /\ pc' = pc /\ message' = message /\ key' = key
      /\ roundKeys' = roundKeys /\ text' = text /\ Indices' = Indices
  BY DEF aes_Encrypt, input, Indices
<1>2. /\ data \in [Indices -> Block] /\ stages \in [Indices -> Seq(Block)]
      /\ i \in Indices /\ i \in Nat /\ round \in Stage /\ Expanded
      /\ numBlocks(message) \in Nat
  BY <1>1, Blocks, InputAssumption DEF IInv, PlaceInv, aes_Encrypt, Expanded, Indices, Ended
<1>3. PICK j \in Indices : j = i
  BY <1>2
<1>4. PICK k \in Stage : k = round
  BY <1>2
<1> DEFINE b   == Before(j, k)
           new == Encrypted(b, k)
<1>5. /\ Chained(j, k) /\ data[j] = b
      /\ \A n \in Indices : n < j => Chained(n, AES_ROUNDS + 1) /\ data[n] = Before(n, AES_ROUNDS + 1)
      /\ \A n \in Indices : n > j => Chained(n, 0) /\ data[n] = Before(n, 0)
  <2>1. k \in 0..(AES_ROUNDS + 1) /\ 0 \in 0..(AES_ROUNDS + 1) /\ AES_ROUNDS + 1 \in 0..(AES_ROUNDS + 1)
    BY DEF Stage, AES_ROUNDS
  <2>2. \A n \in Indices, len \in 0..(AES_ROUNDS + 1) :
          Passed(n, len) => Chained(n, len) /\ data[n] = Before(n, len)
    BY <1>1 DEF IInv, EncryptInv
  <2>3. Passed(j, k)
    BY <1>2, <1>3, <1>4 DEF Passed
  <2>4. Chained(j, k) /\ data[j] = Before(j, k)
    BY <2>1, <2>2, <2>3
  <2>5. ASSUME NEW n \in Indices, n < j
        PROVE  Chained(n, AES_ROUNDS + 1) /\ data[n] = Before(n, AES_ROUNDS + 1)
    <3>1. Passed(n, AES_ROUNDS + 1)
      BY <1>2, <1>3, <2>5 DEF Passed, Indices
    <3> QED BY <2>1, <2>2, <3>1, Zenon
  <2>6. ASSUME NEW n \in Indices, n > j
        PROVE  Chained(n, 0) /\ data[n] = Before(n, 0)
    <3>1. Passed(n, 0)
      BY <1>2, <1>3, <2>6 DEF Passed, Indices
    <3> QED BY <2>1, <2>2, <3>1, Zenon
  <2> QED BY <2>4, <2>5, <2>6
<1>6. b \in Block
  BY <1>1, <1>5, BeforeType DEF Chained, Stage
<1>7. new \in Block
  BY <1>2, <1>6, RoundTypes
<1>8. data' = [data EXCEPT ![j] = new] /\ stages' = [stages EXCEPT ![j] = Append(@, new)]
  BY <1>2, <1>3, <1>4, <1>5 DEF aes_Encrypt
<1>9. data'[j] = new /\ stages'[j] = Append(stages[j], new)
  BY <1>2, <1>8
<1>10. \A n \in Indices : n # j => data'[n] = data[n] /\ stages'[n] = stages[n]
  BY <1>2, <1>8
<1>11. \/ k < AES_ROUNDS /\ round' = k + 1 /\ i' = j
       \/ k = AES_ROUNDS /\ round' = 0 /\ i' = j + 1
  BY <1>2, <1>3, <1>4 DEF aes_Encrypt, Stage, AES_ROUNDS
<1>12. PlaceInv'
  <2>1. data' \in [Indices -> Block] /\ stages' \in [Indices -> Seq(Block)]
    <3> HIDE DEF new
    <3>1. stages[j] \in Seq(Block)
      BY <1>2
    <3>2. Append(stages[j], new) \in Seq(Block)
      BY <1>7, <3>1
    <3> QED BY <1>2, <1>7, <1>8, <3>2
  <2>2. round' \in Stage /\ i' \in 0..numBlocks(message)
    BY <1>2, <1>11 DEF Stage, AES_ROUNDS, Indices
  <2> QED BY <1>1, <2>1, <2>2 DEF IInv, PlaceInv, Ended
<1>13. Chained(j, k + 1)' /\ data'[j] = Before(j, k + 1)'
  <2> DEFINE s == stages[j]
  <2>1. s \in Seq(Block) /\ Len(s) = k /\ k \in Nat
    BY <1>2, <1>5 DEF Chained, Stage
  <2>2. /\ Len(stages'[j]) = k + 1 /\ stages'[j][k + 1] = new
        /\ \A r \in 1..k : stages'[j][r] = s[r]
    <3> HIDE DEF new, s
    <3> QED BY <1>7, <1>9, <2>1, AppendProperties DEF s
  <2>3. \A r \in 0..k : Before(j, r)' = Before(j, r)
    BY <1>1, <2>1, <2>2 DEF Before
  <2>4. \A c, r : Encrypted(c, r)' = Encrypted(c, r)
    BY <1>1 DEF Encrypted, RoundKey
  <2>5. ASSUME NEW r \in 0..k PROVE stages'[j][r + 1] = Encrypted(Before(j, r), r)'
    <3>1. CASE r < k
      <4>1. r \in 0..(k - 1) /\ r + 1 \in 1..k
        BY <2>1, <3>1
      <4>2. stages'[j][r + 1] = Encrypted(Before(j, r), r)
        BY <1>5, <2>2, <4>1 DEF Chained
      <4> QED BY <2>3, <2>4, <4>2
    <3>2. CASE r = k
      <4>1. stages'[j][r + 1] = Encrypted(Before(j, r), r)
        BY <2>2, <3>2
      <4> QED BY <2>3, <2>4, <4>1
    <3> QED BY <2>1, <3>1, <3>2
  <2>6. Before(j, k + 1)' = new
    BY <2>1, <2>2 DEF Before
  <2>7. (k + 1) - 1 = k
    BY <2>1
  <2>8. Chained(j, k + 1)'
    <3> HIDE DEF new
    <3> QED BY <2>2, <2>5, <2>7 DEF Chained
  <2> QED BY <1>9, <2>6, <2>8
<1>14. EncryptInv'
  <2>1. i' = numBlocks(message) => round' = 0
    BY <1>2, <1>11 DEF Indices
  <2>2. ASSUME NEW n \in Indices, n # j, NEW m,
               Chained(n, m), data[n] = Before(n, m)
        PROVE  Chained(n, m)' /\ data'[n] = Before(n, m)'
    BY <1>1, <1>10, <2>2, Unchanged
  <2>3. ASSUME NEW n \in Indices, NEW m \in 0..(AES_ROUNDS + 1), Passed(n, m)'
        PROVE  Chained(n, m)' /\ data'[n] = Before(n, m)'
    <3>1. m = IF n < i' THEN AES_ROUNDS + 1 ELSE IF n = i' THEN round' ELSE 0
      BY <2>3 DEF Passed
    <3>2. CASE n = j
      <4>1. m = k + 1
        BY <1>2, <1>11, <3>1, <3>2 DEF Stage, AES_ROUNDS, Indices
      <4> QED BY <1>13, <3>2, <4>1
    <3>3. CASE n < j
      <4>1. m = AES_ROUNDS + 1
        BY <1>2, <1>11, <3>1, <3>3 DEF Indices
      <4> QED BY <1>5, <2>2, <3>3, <4>1 DEF Indices
    <3>4. CASE n > j
      <4>1. m = 0
        BY <1>2, <1>11, <3>1, <3>4 DEF Indices
      <4> QED BY <1>5, <2>2, <3>4, <4>1 DEF Indices
    <3> QED BY <3>2, <3>3, <3>4 DEF Indices
  <2> QED BY <1>1, <2>1, <2>3 DEF EncryptInv
<1>15. DecryptInv'
  BY <1>1 DEF DecryptInv, Ended
<1> QED BY <1>12, <1>14, <1>15 DEF IInv

LEMMA EndEncryptKeeps == ASSUME IInv, EndEncrypt PROVE IInv'
<1>1. /\ pc = "encrypt" /\ pc' = "decrypt" /\ message' = message /\ key' = key /\ data' = data
      /\ roundKeys' = roundKeys /\ text' = text /\ stages' = stages /\ Indices' = Indices
      /\ i' = 0 /\ round' = AES_ROUNDS /\ i \notin DOMAIN data
  BY DEF EndEncrypt, input, Indices
<1>2. /\ data \in [Indices -> Block] /\ numBlocks(message) \in Nat
      /\ i \in 0..numBlocks(message)
  BY <1>1, Blocks, InputAssumption DEF IInv, PlaceInv, Ended
<1>3. i = numBlocks(message)
  BY <1>1, <1>2 DEF Indices
<1>4. ASSUME NEW n \in Indices
      PROVE  Chained(n, AES_ROUNDS + 1) /\ data[n] = Before(n, AES_ROUNDS + 1)
  <2>1. Passed(n, AES_ROUNDS + 1) /\ AES_ROUNDS + 1 \in 0..(AES_ROUNDS + 1)
    BY <1>2, <1>3 DEF Passed, Indices, AES_ROUNDS
  <2>2. \A m \in 0..(AES_ROUNDS + 1) : Passed(n, m) => Chained(n, m) /\ data[n] = Before(n, m)
    BY <1>1 DEF IInv, EncryptInv
  <2> QED BY <2>1, <2>2, Zenon
<1>5. \A n \in Indices : /\ Chained(n, AES_ROUNDS + 1)'
                         /\ data'[n] = Before(n, AES_ROUNDS + 1)'
  BY <1>1, <1>4, Unchanged
<1>6. PlaceInv'
  BY <1>1, <1>2 DEF IInv, PlaceInv, Ended, Stage, AES_ROUNDS
<1>7. EncryptInv'
  BY <1>1 DEF EncryptInv
<1>8. DecryptInv'
  BY <1>1, <1>5 DEF DecryptInv, Indices, Ended, AES_ROUNDS
<1> QED BY <1>6, <1>7, <1>8 DEF IInv

LEMMA DecryptKeeps == ASSUME IInv, de_Crypt PROVE IInv'
<1>1. /\ pc = "decrypt" /\ pc' = pc /\ message' = message /\ key' = key
      /\ roundKeys' = roundKeys /\ text' = text /\ stages' = stages /\ Indices' = Indices
  BY DEF de_Crypt, input, Indices
<1>2. /\ data \in [Indices -> Block] /\ i \in Indices /\ i \in Nat /\ round \in Stage
      /\ Expanded /\ numBlocks(message) \in Nat
  BY <1>1, Blocks, InputAssumption DEF IInv, PlaceInv, de_Crypt, Expanded, Indices, Ended
<1>3. PICK j \in Indices : j = i
  BY <1>2
<1>4. PICK k \in Stage : k = round
  BY <1>2
<1>5. /\ \A n \in Indices : Chained(n, AES_ROUNDS + 1)
      /\ \A n \in Indices : n < j => data[n] = Padded(message)[n]
      /\ \A n \in Indices : n > j => data[n] = Before(n, AES_ROUNDS + 1)
      /\ k = AES_ROUNDS => data[j] = Before(j, AES_ROUNDS + 1)
      /\ k < AES_ROUNDS => data[j] = Moved(Before(j, k + 1))
  <2>1. k < AES_ROUNDS => k + 1 \in 1..AES_ROUNDS
    BY DEF Stage, AES_ROUNDS
  <2> QED BY <1>1, <1>3, <1>4, <2>1 DEF IInv, DecryptInv
<1>6. data' = [data EXCEPT ![j] = Decrypted(data[j], k)]
  BY <1>2, <1>3, <1>4 DEF de_Crypt
<1>7. data'[j] = Decrypted(data[j], k) /\ \A n \in Indices : n # j => data'[n] = data[n]
  BY <1>2, <1>6
<1>8. \/ k > 0 /\ round' = k - 1 /\ i' = j
      \/ k = 0 /\ round' = AES_ROUNDS /\ i' = j + 1
  BY <1>2, <1>3, <1>4 DEF de_Crypt, Stage, AES_ROUNDS
<1>9. Before(j, k) \in Block /\ Before(j, k + 1) = Encrypted(Before(j, k), k)
  <2>1. Len(stages[j]) = AES_ROUNDS + 1 /\ k \in 0..Len(stages[j]) /\ k \in 0..((AES_ROUNDS + 1) - 1)
    <3>1. Len(stages[j]) = AES_ROUNDS + 1
      BY <1>5 DEF Chained
    <3> QED BY <3>1 DEF Stage, AES_ROUNDS
  <2>2. stages[j][k + 1] = Encrypted(Before(j, k), k)
    BY <1>5, <2>1 DEF Chained
  <2>3. Before(j, k + 1) = stages[j][k + 1]
    BY DEF Before, Stage
  <2> QED BY <1>1, <2>1, <2>2, <2>3, BeforeType
<1>10. data'[j] = IF k = 0 THEN Padded(message)[j] ELSE Moved(Before(j, k))
  <2>1. CASE k = AES_ROUNDS
    BY <1>2, <1>5, <1>7, <1>9, <2>1, LastUndone DEF AES_ROUNDS
  <2>2. CASE k \in 1..(AES_ROUNDS - 1)
    BY <1>2, <1>5, <1>7, <1>9, <2>2, MiddleUndone DEF AES_ROUNDS
  <2>3. CASE k = 0
    <3>1. Before(j, 0) = Padded(message)[j]
      BY DEF Before
    <3> QED BY <1>2, <1>5, <1>7, <1>9, <2>3, <3>1, FirstUndone DEF AES_ROUNDS
  <2> QED BY <2>1, <2>2, <2>3 DEF Stage, AES_ROUNDS
<1>11. PlaceInv'
  <2>1. data[j] \in Block
    BY <1>2
  <2>2. Decrypted(data[j], k) \in Block
    BY <1>2, <2>1, RoundTypes
  <2>3. data' \in [Indices -> Block]
    BY <1>2, <1>6, <2>2
  <2>4. round' \in Stage /\ i' \in 0..numBlocks(message)
    BY <1>2, <1>8 DEF Stage, AES_ROUNDS, Indices
  <2> QED BY <1>1, <2>3, <2>4 DEF IInv, PlaceInv, Ended
<1>12. EncryptInv'
  BY <1>1 DEF EncryptInv
<1>13. DecryptInv'
  <2>1. i' = numBlocks(message) => round' = AES_ROUNDS
    BY <1>2, <1>8 DEF Indices
  <2>2. \A n \in Indices : \A r : Before(n, r)' = Before(n, r)
    BY <1>1, Unchanged
  <2>3. \A n \in Indices : Chained(n, AES_ROUNDS + 1)'
    BY <1>1, <1>5, Unchanged
  <2>4. ASSUME NEW n \in Indices, n < i' PROVE data'[n] = Padded(message)[n]
    BY <1>2, <1>5, <1>7, <1>8, <1>10, <2>4 DEF Indices
  <2>5. ASSUME NEW n \in Indices, n > i' \/ (n = i' /\ round' = AES_ROUNDS)
        PROVE  data'[n] = Before(n, AES_ROUNDS + 1)
    <3>1. n > j
      BY <1>2, <1>8, <2>5 DEF Indices, Stage, AES_ROUNDS
    <3> QED BY <1>5, <1>7, <3>1 DEF Indices
  <2>6. ASSUME NEW n \in Indices, NEW r \in 1..AES_ROUNDS, n = i', r = round' + 1
        PROVE  data'[n] = Moved(Before(n, r))
    <3>1. n = j /\ k # 0 /\ r = k
      BY <1>2, <1>8, <2>6 DEF Stage, AES_ROUNDS
    <3> QED BY <1>10, <3>1
  <2>7. \A b : Moved(b)' = Moved(b)
    BY DEF Moved, shift_Rows, sub_Bytes
  <2>8. Padded(message)' = Padded(message)
    BY <1>1
  <2>9. \A n \in Indices, r \in 1..AES_ROUNDS :
          n = i' /\ r = round' + 1 => data'[n] = Moved(Before(n, r))'
    BY <2>2, <2>6, <2>7
  <2>10. \A n \in Indices : n > i' \/ (n = i' /\ round' = AES_ROUNDS)
           => data'[n] = Before(n, AES_ROUNDS + 1)'
    BY <2>2, <2>5
  <2>11. \A n \in Indices : n < i' => data'[n] = Padded(message)'[n]
    BY <2>4, <2>8
  <2> QED BY <1>1, <2>1, <2>3, <2>9, <2>10, <2>11 DEF DecryptInv, Ended
<1> QED BY <1>11, <1>12, <1>13 DEF IInv

LEMMA EndDecryptKeeps == ASSUME IInv, EndDecrypt PROVE IInv'
<1>1. /\ pc = "decrypt" /\ pc' = "revert" /\ message' = message /\ key' = key /\ data' = data
      /\ roundKeys' = roundKeys /\ text' = text /\ stages' = stages /\ Indices' = Indices
      /\ i' = 0 /\ round' = 0 /\ i \notin DOMAIN data
  BY DEF EndDecrypt, input, Indices
<1>2. /\ data \in [Indices -> Block] /\ numBlocks(message) \in Nat
      /\ i \in 0..numBlocks(message) /\ message \in Seq(Byte)
  BY <1>1, Blocks, InputAssumption DEF IInv, PlaceInv, Ended
<1>3. i = numBlocks(message)
  BY <1>1, <1>2 DEF Indices
<1>4. \A n \in Indices : data[n] = Padded(message)[n]
  <2>1. \A n \in Indices : n < i
    BY <1>2, <1>3 DEF Indices
  <2> QED BY <1>1, <2>1 DEF IInv, DecryptInv
<1>5. data = Padded(message)
  <2>1. Padded(message) \in [Indices -> Block]
    BY <1>2, PaddedType DEF Indices
  <2> QED BY <1>2, <1>4, <2>1
<1>6. PlaceInv'
  BY <1>1, <1>2 DEF IInv, PlaceInv, Ended, Stage, AES_ROUNDS
<1> QED BY <1>1, <1>5, <1>6 DEF IInv, EncryptInv, DecryptInv, Ended

LEMMA BufferType ==
  ASSUME IInv, pc \in {"revert"} \cup Ended
  PROVE  /\ message \in Seq(Byte) /\ numBlocks(message) \in Nat
         /\ data = Padded(message) /\ data \in [Indices -> Block]
  BY Blocks, InputAssumption DEF IInv, PlaceInv, DecryptInv, Ended

LEMMA BytesType ==
  ASSUME numBlocks(message) \in Nat, data \in [Indices -> Block],
         NEW len \in 0..(AES_BLOCK_SIZE * numBlocks(message))
  PROVE  /\ Bytes(len) \in Seq(Byte) /\ Len(Bytes(len)) = len
         /\ \A at \in 1..len :
              Bytes(len)[at] = data[(at - 1) \div AES_BLOCK_SIZE][(at - 1) % AES_BLOCK_SIZE]
<1>1. ASSUME NEW at \in 1..len
      PROVE  data[(at - 1) \div AES_BLOCK_SIZE][(at - 1) % AES_BLOCK_SIZE] \in Byte
  <2>1. (at - 1) \div AES_BLOCK_SIZE \in Indices /\ (at - 1) % AES_BLOCK_SIZE \in 0..15
    BY <1>1 DEF AES_BLOCK_SIZE, Indices
  <2>2. data[(at - 1) \div AES_BLOCK_SIZE] \in Block
    BY <2>1
  <2> QED BY <2>1, <2>2 DEF Block
<1>2. Bytes(len) \in [1..len -> Byte]
  BY <1>1 DEF Bytes
<1>3. Bytes(len) \in Seq(Byte) /\ Len(Bytes(len)) = len
  <2>1. len \in Nat
    BY DEF AES_BLOCK_SIZE
  <2> QED BY <1>2, <2>1
<1> QED BY <1>3 DEF Bytes

LEMMA ShownType ==
  ASSUME NEW n \in Indices, NEW v \in 1..AES_BLOCK_SIZE, numBlocks(message) \in Nat,
         data \in [Indices -> Block]
  PROVE  Shown(n, v) \in Seq(Byte) /\ Len(Shown(n, v)) = AES_BLOCK_SIZE * (n + 1) - v
<1>1. AES_BLOCK_SIZE * (n + 1) - v \in 0..(AES_BLOCK_SIZE * numBlocks(message))
  BY DEF AES_BLOCK_SIZE, Indices
<1> QED BY <1>1, BytesType DEF Shown

LEMMA RecoverKeeps == ASSUME IInv, Recover PROVE IInv'
<1>1. /\ pc = "revert" /\ pc' \in Ended /\ message' = message /\ key' = key /\ data' = data
      /\ roundKeys' = roundKeys /\ i' = i /\ round' = round /\ stages' = stages
      /\ Indices' = Indices
  BY DEF Recover, input, Indices, Ended
<1>2. text' \in Seq(Byte)
  <2>1. PICK n \in Ends, v \in 1..AES_BLOCK_SIZE : text' = Shown(n, v) \/ text' = text
    BY DEF Recover
  <2>2. n \in Indices
    BY <1>1, BufferType DEF Ends
  <2>3. text \in Seq(Byte)
    BY DEF IInv, PlaceInv
  <2> QED BY <1>1, <2>1, <2>2, <2>3, BufferType, ShownType
<1>3. PlaceInv'
  BY <1>1, <1>2 DEF IInv, PlaceInv, Ended
<1> QED BY <1>1, <1>3 DEF IInv, EncryptInv, DecryptInv, Ended

LEMMA NoEndKeeps == ASSUME IInv, NoEnd PROVE IInv'
<1>1. /\ pc = "revert" /\ pc' \in {"unknown", "overread"} /\ message' = message /\ key' = key
      /\ data' = data /\ roundKeys' = roundKeys /\ i' = i /\ round' = round
      /\ stages' = stages /\ Indices' = Indices
  BY DEF NoEnd, input, Indices
<1>2. text' \in Seq(Byte)
  <2> DEFINE length == AES_BLOCK_SIZE * numBlocks(message)
  <2>1. text \in Seq(Byte) /\ <<>> \in Seq(Byte)
    BY DEF IInv, PlaceInv
  <2>2. \/ text' = text \/ text' = <<>>
        \/ \E more \in Behind : text' = Bytes(length) \o more
    BY DEF NoEnd
  <2>3. numBlocks(message) \in Nat /\ data \in [Indices -> Block] /\ length \in 0..length
    BY <1>1, BufferType DEF AES_BLOCK_SIZE
  <2>4. Bytes(length) \in Seq(Byte)
    BY <2>3, BytesType
  <2> DEFINE b == Bytes(length)
  <2>5. ASSUME NEW more \in Behind PROVE b \o more \in Seq(Byte)
    <3>1. more \in Seq(Byte)
      BY InputAssumption
    <3>2. b \in Seq(Byte)
      BY <2>4
    <3> HIDE DEF b
    <3> QED BY <3>1, <3>2
  <2> HIDE DEF b
  <2>6. \/ text' = text \/ text' = <<>> \/ \E more \in Behind : text' = b \o more
    BY <2>2 DEF b
  <2> QED BY <2>1, <2>5, <2>6
<1>3. PlaceInv'
  BY <1>1, <1>2 DEF IInv, PlaceInv, Ended
<1> QED BY <1>1, <1>3 DEF IInv, EncryptInv, DecryptInv, Ended

LEMMA StutterKeeps == ASSUME IInv, UNCHANGED vars PROVE IInv'
<1>1. Indices' = Indices /\ message' = message
  BY DEF vars, input, Indices
<1>2. ASSUME NEW n \in Indices, NEW len
      PROVE  /\ Passed(n, len)' <=> Passed(n, len)
             /\ Chained(n, len)' <=> Chained(n, len)
             /\ Before(n, len)' = Before(n, len)
  BY <1>1, Unchanged DEF vars, Passed
<1>3. \A b : Moved(b)' = Moved(b)
  BY DEF Moved, shift_Rows, sub_Bytes
<1>4. PlaceInv'
  BY <1>1 DEF IInv, PlaceInv, vars, input
<1>5. EncryptInv'
  <2>1. \A n \in Indices, len \in 0..(AES_ROUNDS + 1) :
          (Passed(n, len) => Chained(n, len) /\ data[n] = Before(n, len))
            => (Passed(n, len)' => Chained(n, len)' /\ data'[n] = Before(n, len)')
    BY <1>2 DEF vars
  <2> QED BY <1>1, <2>1 DEF IInv, EncryptInv, vars, input
<1>6. DecryptInv'
  <2>1. \A n \in Indices : Chained(n, AES_ROUNDS + 1)' <=> Chained(n, AES_ROUNDS + 1)
    BY <1>2
  <2>2. \A n \in Indices : Before(n, AES_ROUNDS + 1)' = Before(n, AES_ROUNDS + 1)
    BY <1>2
  <2>3. \A n \in Indices, r \in 1..AES_ROUNDS : Moved(Before(n, r))' = Moved(Before(n, r))
    BY <1>2, <1>3
  <2> QED BY <1>1, <2>1, <2>2, <2>3 DEF IInv, DecryptInv, vars, input
<1> QED BY <1>4, <1>5, <1>6 DEF IInv

LEMMA NextKeeps == ASSUME IInv, [Next]_vars PROVE IInv'
<1>1. CASE prepare_Block
  BY <1>1, PrepareKeeps
<1>2. CASE CopyKey
  BY <1>2, CopyKeyKeeps
<1>3. CASE ExpandKey
  BY <1>3, ExpandKeyKeeps
<1>4. CASE aes_Encrypt
  BY <1>4, EncryptKeeps
<1>5. CASE EndEncrypt
  BY <1>5, EndEncryptKeeps
<1>6. CASE de_Crypt
  BY <1>6, DecryptKeeps
<1>7. CASE EndDecrypt
  BY <1>7, EndDecryptKeeps
<1>8. CASE Recover
  BY <1>8, RecoverKeeps
<1>9. CASE NoEnd
  BY <1>9, NoEndKeeps
<1>10. CASE Terminated
  BY <1>10, StutterKeeps DEF Terminated
<1>11. CASE UNCHANGED vars
  BY <1>11, StutterKeeps
<1> QED
  BY <1>1, <1>2, <1>3, <1>4, <1>5, <1>6, <1>7, <1>8, <1>9, <1>10, <1>11 DEF Next

\* The inductive invariant holds in every state of aesMain's main.
THEOREM Invariance == Spec => []IInv
<1>1. Init => IInv
  BY InitInv
<1>2. IInv /\ [Next]_vars => IInv'
  BY NextKeeps
<1> QED BY <1>1, <1>2, PTL DEF Spec

\* Every variable has its type, whatever the text, the key and the tables are.
THEOREM TypeCorrect == Spec => []TypeOK
<1>1. IInv => TypeOK
  BY PlaceIsTyped DEF IInv
<1> QED BY <1>1, Invariance, PTL

\* de_Crypt undoes aes_Encrypt, block by block and round by round: the buffer
\* that revert_Hex searches holds the padded text, for every text and key, and
\* for all tables s_box and inv_s_box that are inverse to each other.
THEOREM DecryptionRestores == Spec => []BlocksRestored
<1>1. IInv => BlocksRestored
  BY DEF IInv, DecryptInv, BlocksRestored, Ended
<1> QED BY <1>1, Invariance, PTL

----------------------------------------------------------------------------
(* What revert_Hex prints *)

\* The values of a padding are told apart by their bits.
LEMMA PadValues ==
  ASSUME NEW v \in 1..AES_BLOCK_SIZE, NEW w \in 1..AES_BLOCK_SIZE, ByteOf(v) = ByteOf(w)
  PROVE  v = w
<1>1. \A n \in 1..16 : /\ 0 \in ByteOf(n) <=> n % 2 = 1
                       /\ 1 \in ByteOf(n) <=> (n \div 2) % 2 = 1
                       /\ 2 \in ByteOf(n) <=> (n \div 4) % 2 = 1
                       /\ 3 \in ByteOf(n) <=> (n \div 8) % 2 = 1
  BY DEF ByteOf, Weight, Bit
<1>2. /\ v % 2 = 1 <=> w % 2 = 1
      /\ (v \div 2) % 2 = 1 <=> (w \div 2) % 2 = 1
      /\ (v \div 4) % 2 = 1 <=> (w \div 4) % 2 = 1
      /\ (v \div 8) % 2 = 1 <=> (w \div 8) % 2 = 1
  BY <1>1 DEF AES_BLOCK_SIZE
<1> QED BY <1>2 DEF AES_BLOCK_SIZE

\* The bytes of the padded text.
LEMMA PaddedBytes ==
  ASSUME NEW m \in Seq(Byte), NEW n \in 0..(numBlocks(m) - 1), NEW k \in 0..15
  PROVE  Padded(m)[n][k] = IF AES_BLOCK_SIZE * n + k < Len(m) THEN m[AES_BLOCK_SIZE * n + k + 1]
                           ELSE ByteOf(AES_BLOCK_SIZE * numBlocks(m) - Len(m))
  BY DEF Padded

\* A padding begins in the last block, behind the text.
LEMMA LastBlock ==
  ASSUME NEW blocks \in Nat, NEW len \in Nat, NEW n \in 0..(blocks - 1),
         NEW v \in 1..AES_BLOCK_SIZE, AES_BLOCK_SIZE * blocks - len \in 0..15
  PROVE  /\ AES_BLOCK_SIZE * (n + 1) - v \in Nat
         /\ AES_BLOCK_SIZE * (n + 1) - v > len =>
              /\ v < AES_BLOCK_SIZE * blocks - len
              /\ AES_BLOCK_SIZE * blocks - len \in 1..AES_BLOCK_SIZE
         /\ AES_BLOCK_SIZE * (n + 1) - v > len \/ ~(AES_BLOCK_SIZE * n + 15 < len) =>
              n = blocks - 1 /\ ~(AES_BLOCK_SIZE * n + 15 < len)
  BY DEF AES_BLOCK_SIZE

LEMMA PadOfText ==
  ASSUME NEW blocks \in Nat, NEW len \in Nat, AES_BLOCK_SIZE * blocks - len \in 0..15,
         len % AES_BLOCK_SIZE # 0
  PROVE  LET pad == AES_BLOCK_SIZE * blocks - len
         IN  /\ pad \in 1..15 /\ blocks - 1 \in 0..(blocks - 1)
             /\ \A k \in (AES_BLOCK_SIZE - pad)..15 :
                  k \in 0..15 /\ ~(AES_BLOCK_SIZE * (blocks - 1) + k < len)
<1> DEFINE pad == 16 * blocks - len
<1>1. pad \in 1..15
  <2>1. len # 16 * blocks
    BY DEF AES_BLOCK_SIZE
  <2> QED BY <2>1 DEF AES_BLOCK_SIZE
<1>2. \A k \in (16 - pad)..15 : k \in 0..15 /\ ~(16 * (blocks - 1) + k < len)
  BY <1>1
<1>3. blocks >= 1
  BY <1>1
<1> QED BY <1>1, <1>2, <1>3 DEF AES_BLOCK_SIZE

\* The buffer begins with the text.
LEMMA BytesOfText ==
  ASSUME IInv, pc = "revert", NEW len \in 0..(AES_BLOCK_SIZE * numBlocks(message)),
         len <= Len(message), NEW at \in 1..len
  PROVE  Bytes(len)[at] = message[at]
<1> DEFINE block == (at - 1) \div AES_BLOCK_SIZE  k == (at - 1) % AES_BLOCK_SIZE
<1>1. /\ message \in Seq(Byte) /\ numBlocks(message) \in Nat /\ Len(message) \in Nat
      /\ data = Padded(message) /\ data \in [Indices -> Block]
  BY BufferType
<1>2. block \in Indices /\ k \in 0..15 /\ AES_BLOCK_SIZE * block + k = at - 1
  <2>1. at \in 1..(16 * numBlocks(message))
    BY <1>1 DEF AES_BLOCK_SIZE
  <2> QED BY <1>1, <2>1 DEF AES_BLOCK_SIZE, Indices
<1>3. Bytes(len)[at] = data[block][k]
  BY <1>1, BytesType
<1>4. at - 1 < Len(message) /\ (at - 1) + 1 = at
  BY <1>1 DEF AES_BLOCK_SIZE
<1> HIDE DEF block, k
<1> QED BY <1>1, <1>2, <1>3, <1>4, PaddedBytes DEF Indices

\* A padding within MAX_BYTES is found.
LEMMA PaddingIsEnd ==
  ASSUME IInv, pc = "revert", Len(message) % AES_BLOCK_SIZE # 0,
         AES_BLOCK_SIZE * numBlocks(message) <= MAX_BYTES
  PROVE  numBlocks(message) - 1 \in Ends
<1> DEFINE last == numBlocks(message) - 1
           pad  == AES_BLOCK_SIZE * numBlocks(message) - Len(message)
<1>1. /\ message \in Seq(Byte) /\ numBlocks(message) \in Nat /\ Len(message) \in Nat
      /\ data = Padded(message) /\ data \in [Indices -> Block] /\ pad \in 0..15
  BY BufferType, Blocks
<1>2. pad \in 1..15 /\ last \in Indices
  BY <1>1, PadOfText DEF Indices
<1>3. ValidPad(data[last], pad)
  <2>1. ASSUME NEW k \in (AES_BLOCK_SIZE - pad)..15 PROVE data[last][k] = ByteOf(pad)
    <3>1. k \in 0..15 /\ ~(AES_BLOCK_SIZE * last + k < Len(message))
      BY <1>1, PadOfText
    <3> QED BY <1>1, <1>2, <3>1, PaddedBytes DEF Indices
  <2> QED BY <1>2, <2>1 DEF ValidPad, AES_BLOCK_SIZE
<1>4. AES_BLOCK_SIZE * (last + 1) <= MAX_BYTES /\ pad \in 1..AES_BLOCK_SIZE
  BY <1>1, <1>2 DEF AES_BLOCK_SIZE
<1> HIDE DEF last, pad
<1>5. last \in Ends
  BY <1>1, <1>2, <1>3, <1>4 DEF Ends
<1> QED BY <1>5 DEF last

\* What stands before the end of a padding is the text, and not more of it than
\* there is.
LEMMA ShownIsText ==
  ASSUME IInv, pc = "revert", NEW n \in Ends, NEW v \in 1..AES_BLOCK_SIZE,
         ValidPad(data[n], v)
  PROVE  /\ Len(Shown(n, v)) <= Len(message)
         /\ \A at \in 1..Len(Shown(n, v)) : Shown(n, v)[at] = message[at]
<1> DEFINE len == AES_BLOCK_SIZE * (n + 1) - v
           pad == AES_BLOCK_SIZE * numBlocks(message) - Len(message)
<1>1. /\ message \in Seq(Byte) /\ numBlocks(message) \in Nat
      /\ data = Padded(message) /\ data \in [Indices -> Block] /\ n \in Indices
  BY BufferType DEF Ends
<1>2. Len(Shown(n, v)) = len /\ len \in Nat
  <2>1. len \in Nat
    BY <1>1 DEF AES_BLOCK_SIZE, Indices
  <2>2. Len(Shown(n, v)) = len
    BY <1>1, ShownType
  <2> QED BY <2>1, <2>2
<1>3. len <= Len(message)
  <2>1. SUFFICES ASSUME len > Len(message) PROVE FALSE
    BY <1>1, <1>2
  <2>2. pad \in 0..15
    BY <1>1, Blocks
  <2>3. n \in 0..(numBlocks(message) - 1) /\ Len(message) \in Nat
    BY <1>1 DEF Indices
  <2>4. pad \in 1..AES_BLOCK_SIZE /\ v < pad /\ ~(AES_BLOCK_SIZE * n + 15 < Len(message))
    BY <1>1, <2>1, <2>2, <2>3, LastBlock
  <2>5. data[n][15] = ByteOf(pad)
    BY <1>1, <2>3, <2>4, PaddedBytes
  <2>6. data[n][15] = ByteOf(v)
    BY DEF ValidPad, AES_BLOCK_SIZE
  <2> HIDE DEF pad
  <2>7. v = pad
    BY <2>4, <2>5, <2>6, PadValues
  <2> QED BY <2>4, <2>7 DEF AES_BLOCK_SIZE
<1>4. ASSUME NEW at \in 1..len PROVE Shown(n, v)[at] = message[at]
  <2>1. len \in 0..(AES_BLOCK_SIZE * numBlocks(message))
    BY <1>1, <1>2 DEF AES_BLOCK_SIZE, Indices
  <2> QED BY <1>3, <2>1, BytesOfText DEF Shown
<1> QED BY <1>2, <1>3, <1>4

\* What is printed when the search went on behind the buffer.
LEMMA OverreadIsText ==
  ASSUME IInv, NoEnd, pc' = "overread"
  PROVE  /\ Len(message) % AES_BLOCK_SIZE = 0
         /\ text' # <<>> =>
              /\ Len(message) <= Len(text')
              /\ \A at \in 1..Len(message) : text'[at] = message[at]
<1> DEFINE length == AES_BLOCK_SIZE * numBlocks(message)
           b == Bytes(length)
<1>1. /\ pc = "revert" /\ Ends = {} /\ ~(length + AES_BLOCK_SIZE > MAX_BYTES)
      /\ text' # <<>> => \E more \in Behind : text' = b \o more
  BY DEF NoEnd
<1>2. /\ message \in Seq(Byte) /\ numBlocks(message) \in Nat /\ Len(message) \in Nat
      /\ data \in [Indices -> Block] /\ length \in Nat /\ length - Len(message) \in 0..15
  BY <1>1, BufferType, Blocks DEF AES_BLOCK_SIZE
<1>3. Len(message) % AES_BLOCK_SIZE = 0
  <2>1. length <= MAX_BYTES
    BY <1>1, <1>2, InputAssumption DEF AES_BLOCK_SIZE
  <2> QED BY <1>1, <2>1, PaddingIsEnd
<1>4. length = Len(message)
  <2> DEFINE q == Len(message) \div 16
  <2>1. Len(message) = 16 * q /\ q \in Nat
    BY <1>2, <1>3 DEF AES_BLOCK_SIZE
  <2>2. length = 16 * numBlocks(message)
    BY DEF AES_BLOCK_SIZE
  <2> HIDE DEF q, length
  <2> QED BY <1>2, <2>1, <2>2
<1>5. b \in Seq(Byte) /\ Len(b) = Len(message) /\ \A at \in 1..Len(message) : b[at] = message[at]
  <2>1. length \in 0..length /\ length <= Len(message)
    BY <1>2, <1>4
  <2>2. b \in Seq(Byte) /\ Len(b) = length
    BY <1>2, <2>1, BytesType
  <2>3. \A at \in 1..length : b[at] = message[at]
    BY <1>1, <2>1, BytesOfText
  <2> HIDE DEF length, b
  <2> QED BY <1>4, <2>2, <2>3
<1> HIDE DEF b
<1>6. ASSUME NEW more \in Behind, text' = b \o more
      PROVE  /\ Len(message) <= Len(text')
             /\ \A at \in 1..Len(message) : text'[at] = message[at]
  <2>1. more \in Seq(Byte)
    BY InputAssumption
  <2>2. Len(b \o more) = Len(b) + Len(more) /\ \A at \in 1..Len(b) : (b \o more)[at] = b[at]
    BY <1>5, <2>1
  <2> QED BY <1>2, <1>5, <1>6, <2>1, <2>2
<1> QED BY <1>1, <1>3, <1>6

LEMMA PrefixKeeps == ASSUME IInv, PrefixShown, [Next]_vars PROVE PrefixShown'
<1>1. CASE Recover
  <2>1. PICK n \in Ends, v \in 1..AES_BLOCK_SIZE :
          ValidPad(data[n], v) /\ (pc' = "shown" => text' = Shown(n, v))
    BY <1>1 DEF Recover
  <2>2. pc = "revert" /\ pc' # "overread" /\ message' = message
    BY <1>1 DEF Recover, input
  <2> QED BY <2>1, <2>2, ShownIsText DEF PrefixShown
<1>2. CASE NoEnd
  <2>1. pc' \in {"unknown", "overread"} /\ message' = message
    BY <1>2 DEF NoEnd, input
  <2> QED BY <1>2, <2>1, OverreadIsText DEF PrefixShown
<1>3. CASE ~Recover /\ ~NoEnd /\ ~UNCHANGED vars
  <2>1. pc' \notin {"shown", "overread"}
    BY <1>3 DEF Next, prepare_Block, CopyKey, ExpandKey, aes_Encrypt, EndEncrypt, de_Crypt,
                EndDecrypt, Terminated
  <2> QED BY <2>1 DEF PrefixShown
<1>4. CASE UNCHANGED vars
  BY <1>4 DEF PrefixShown, vars, input
<1> QED BY <1>1, <1>2, <1>3, <1>4

\* Of every text, also of one that holds the values of a padding itself,
\* revert_Hex prints a beginning, without a byte of the padding, if it finds an end
\* in the buffer; if it reads on behind it, the text filled its last block, and
\* what is printed, if anything is, begins with the whole text.
THEOREM PrintsPrefix == Spec => []PrefixShown
<1>1. Init => PrefixShown
  BY DEF Init, PrefixShown
<1>2. IInv /\ PrefixShown /\ [Next]_vars => PrefixShown'
  BY PrefixKeeps
<1> QED BY <1>1, <1>2, Invariance, PTL DEF Spec

----------------------------------------------------------------------------
(* A text whose end is found *)

Findable ==
  /\ Len(message) % AES_BLOCK_SIZE # 0
  /\ AES_BLOCK_SIZE * numBlocks(message) <= MAX_BYTES
  /\ \A at \in DOMAIN message : \A v \in 1..AES_BLOCK_SIZE : message[at] # ByteOf(v)

\* The padding is the only end that revert_Hex finds.
LEMMA OnlyEnd ==
  ASSUME IInv, pc = "revert", Findable
  PROVE  LET last == numBlocks(message) - 1
             pad  == AES_BLOCK_SIZE * numBlocks(message) - Len(message)
         IN  /\ last \in Ends
             /\ \A n \in Ends, v \in 1..AES_BLOCK_SIZE : ValidPad(data[n], v) => n = last /\ v = pad
<1> DEFINE last == numBlocks(message) - 1
           pad  == AES_BLOCK_SIZE * numBlocks(message) - Len(message)
<1>1. /\ message \in Seq(Byte) /\ numBlocks(message) \in Nat /\ Len(message) \in Nat
      /\ data = Padded(message) /\ data \in [Indices -> Block]
  BY BufferType
<1>2. pad \in 1..15 /\ last \in Indices
  <2>1. Len(message) % AES_BLOCK_SIZE # 0
    BY DEF Findable
  <2>2. pad \in 0..15
    BY <1>1, Blocks
  <2> QED BY <1>1, <2>1, <2>2, PadOfText DEF Indices
<1>3. ASSUME NEW n \in Indices, NEW v \in 1..AES_BLOCK_SIZE, data[n][15] = ByteOf(v)
      PROVE  n = last /\ v = pad
  <2>1. n \in 0..(numBlocks(message) - 1) /\ 15 \in 0..15
    BY DEF Indices
  <2>2. ~(AES_BLOCK_SIZE * n + 15 < Len(message))
    <3>1. SUFFICES ASSUME AES_BLOCK_SIZE * n + 15 < Len(message) PROVE FALSE
      OBVIOUS
    <3>2. AES_BLOCK_SIZE * n + 15 + 1 \in DOMAIN message
      BY <1>1, <3>1 DEF AES_BLOCK_SIZE, Indices
    <3>3. data[n][15] = message[AES_BLOCK_SIZE * n + 15 + 1]
      BY <1>1, <2>1, <3>1, PaddedBytes
    <3> QED BY <1>3, <3>2, <3>3 DEF Findable
  <2>3. data[n][15] = ByteOf(pad)
    BY <1>1, <2>1, <2>2, PaddedBytes
  <2>4. n = last
    <3>1. pad \in 0..15
      BY <1>2
    <3> QED BY <1>1, <2>1, <2>2, <3>1, LastBlock
  <2>5. pad \in 1..AES_BLOCK_SIZE
    BY <1>2 DEF AES_BLOCK_SIZE
  <2> HIDE DEF pad
  <2> QED BY <1>3, <2>3, <2>4, <2>5, PadValues
<1>4. last \in Ends
  BY PaddingIsEnd DEF Findable
<1>5. ASSUME NEW n \in Ends, NEW v \in 1..AES_BLOCK_SIZE, ValidPad(data[n], v)
      PROVE  n = last /\ v = pad
  <2>1. data[n][15] = ByteOf(v) /\ n \in Indices
    BY <1>1, <1>5 DEF ValidPad, AES_BLOCK_SIZE, Ends
  <2> HIDE DEF last, pad
  <2> QED BY <1>3, <2>1
<1> QED BY <1>4, <1>5

LEMMA RecoveredKeeps == ASSUME IInv, TextRecovered, [Next]_vars PROVE TextRecovered'
<1>1. message' = message
  BY DEF Next, prepare_Block, CopyKey, ExpandKey, aes_Encrypt, EndEncrypt, de_Crypt,
         EndDecrypt, Recover, NoEnd, Terminated, vars, input
<1>2. SUFFICES ASSUME Findable
               PROVE  pc' \notin {"unknown", "overread"} /\ (pc' = "shown" => text' = message)
  BY <1>1 DEF TextRecovered, Findable
<1>3. CASE Recover
  <2> DEFINE last == numBlocks(message) - 1
             pad  == AES_BLOCK_SIZE * numBlocks(message) - Len(message)
  <2>1. pc = "revert" /\ pc' \in {"shown", "exited"}
    BY <1>3 DEF Recover
  <2>2. PICK n \in Ends, v \in 1..AES_BLOCK_SIZE :
          ValidPad(data[n], v) /\ (pc' = "shown" => text' = Shown(n, v))
    BY <1>3 DEF Recover
  <2>3. n = last /\ v = pad
    BY <1>2, <2>1, <2>2, OnlyEnd
  <2>4. /\ message \in Seq(Byte) /\ numBlocks(message) \in Nat /\ Len(message) \in Nat
        /\ data \in [Indices -> Block] /\ n \in Indices
    BY <2>1, BufferType DEF Ends
  <2>5. Shown(n, v) \in Seq(Byte) /\ Len(Shown(n, v)) = Len(message)
    <3>1. Shown(n, v) \in Seq(Byte) /\ Len(Shown(n, v)) = AES_BLOCK_SIZE * (n + 1) - v
      BY <2>4, ShownType
    <3> QED BY <2>3, <2>4, <3>1 DEF AES_BLOCK_SIZE
  <2>6. \A at \in 1..Len(message) : Shown(n, v)[at] = message[at]
    BY <2>1, <2>2, <2>5, ShownIsText
  <2>7. Shown(n, v) = message
    BY <2>4, <2>5, <2>6
  <2> QED BY <2>1, <2>2, <2>7
<1>4. CASE NoEnd
  <2>1. pc = "revert" /\ Ends = {}
    BY <1>4 DEF NoEnd
  <2> QED BY <1>2, <2>1, OnlyEnd
<1>5. CASE ~Recover /\ ~NoEnd /\ ~UNCHANGED vars
  BY <1>5 DEF Next, prepare_Block, CopyKey, ExpandKey, aes_Encrypt, EndEncrypt, de_Crypt,
              EndDecrypt, Terminated
<1>6. CASE UNCHANGED vars
  BY <1>2, <1>6 DEF TextRecovered, Findable, vars
<1> QED BY <1>3, <1>4, <1>5, <1>6

\* A text that was padded, holds no value of a padding and fits into MAX_BYTES
\* is printed as it was, and nothing behind the buffer is read.
THEOREM RecoversText == Spec => []TextRecovered
<1>1. Init => TextRecovered
  BY DEF Init, TextRecovered
<1>2. IInv /\ TextRecovered /\ [Next]_vars => TextRecovered'
  BY RecoveredKeeps
<1> QED BY <1>1, <1>2, Invariance, PTL DEF Spec

\* What main prints is the text, as far as revert_Hex can find its end.
THEOREM ShowsText == Spec => []TextShown
<1>1. TextRecovered /\ PrefixShown => TextShown
  BY DEF TextShown
<1> QED BY <1>1, PrintsPrefix, RecoversText, PTL

----------------------------------------------------------------------------
(* The standard: multiplication of bytes. *)

\* Which of two elements are in a set, by the parity of how many.
LEMMA OddOfTwo ==
  ASSUME NEW x, NEW y, x # y, NEW S \in SUBSET {x, y}
  PROVE  Cardinality(S) % 2 = 1 <=> ~(x \in S <=> y \in S)
<1>1. Cardinality({}) = 0 /\ Cardinality({x}) = 1 /\ Cardinality({y}) = 1
  BY FS_EmptySet, FS_Singleton
<1>2. Cardinality({x, y}) = 2
  <2>1. IsFiniteSet({x}) /\ y \notin {x} /\ {x} \cup {y} = {x, y}
    BY FS_Singleton
  <2>2. Cardinality({x} \cup {y}) = Cardinality({x}) + 1
    BY <2>1, FS_AddElement
  <2> QED BY <1>1, <2>1, <2>2
<1>3. S = {} \/ S = {x} \/ S = {y} \/ S = {x, y}
  OBVIOUS
<1> QED BY <1>1, <1>2, <1>3

LEMMA AddIsXor == \A a, b : Add(a, b) = Xor(a, b)
BY DEF Add, Xor

\* The reduction of a polynomial of degree 8.
LEMMA ReducedIs ==
  ASSUME NEW p \in SUBSET (0..8)
  PROVE  Reduced(p) = IF 8 \in p THEN Add(p, {8, 4, 3, 1, 0}) ELSE p
<1> DEFINE r == IF 8 \in p THEN Add(p, {8, 4, 3, 1, 0}) ELSE p
           h == [e \in 7..14 |-> IF e = 7 THEN r ELSE p]
<1>1. \A e \in 8..13 : (e + 1) \notin p
  OBVIOUS
<1>2. \A e \in 7..14 : h[e] = IF e = 14 THEN p
                              ELSE LET q == h[e + 1]
                                   IN  IF (e + 1) \in q
                                       THEN Add(q, {e + 1, e - 3, e - 4, e - 6, e - 7}) ELSE q
  <2> TAKE e \in 7..14
  <2>1. CASE e = 14
    BY <2>1
  <2>2. CASE e \in 8..13
    <3>1. h[e] = p /\ h[e + 1] = p /\ e # 14
      BY <2>2
    <3> HIDE DEF h
    <3> QED BY <1>1, <2>2, <3>1
  <2>3. CASE e = 7
    <3>1. h[7] = r /\ h[8] = p
      OBVIOUS
    <3>2. 7 + 1 = 8 /\ 7 - 3 = 4 /\ 7 - 4 = 3 /\ 7 - 6 = 1 /\ 7 - 7 = 0
      OBVIOUS
    <3> HIDE DEF h
    <3> QED BY <2>3, <3>1, <3>2
  <2> QED BY <2>1, <2>2, <2>3
<1>3. h = [e \in 7..14 |-> IF e = 14 THEN p
                           ELSE LET q == h[e + 1]
                                IN  IF (e + 1) \in q
                                    THEN Add(q, {e + 1, e - 3, e - 4, e - 6, e - 7}) ELSE q]
  <2> DEFINE F(e) == IF e = 14 THEN p
                     ELSE LET q == h[e + 1]
                          IN  IF (e + 1) \in q
                              THEN Add(q, {e + 1, e - 3, e - 4, e - 6, e - 7}) ELSE q
  <2>1. \A e \in 7..14 : h[e] = F(e)
    BY <1>2
  <2>2. h = [e \in 7..14 |-> h[e]]
    OBVIOUS
  <2> HIDE DEF F, h
  <2>3. h = [e \in 7..14 |-> F(e)]
    BY <2>1, <2>2
  <2> QED BY <2>3 DEF F
<1> HIDE DEF h
<1>4. PICK u : /\ u = [e \in 7..14 |-> IF e = 14 THEN p
                           ELSE LET q == u[e + 1]
                                IN  IF (e + 1) \in q
                                    THEN Add(q, {e + 1, e - 3, e - 4, e - 6, e - 7}) ELSE q]
               /\ Reduced(p) = u[7]
  BY <1>3 DEF Reduced
<1>5. \A e \in 7..14 : u[e] = IF e = 14 THEN p
                              ELSE LET q == u[e + 1]
                                   IN  IF (e + 1) \in q
                                       THEN Add(q, {e + 1, e - 3, e - 4, e - 6, e - 7}) ELSE q
  BY <1>4, Zenon
<1>6. u[14] = p
  BY <1>5
<1>7. ASSUME NEW e \in 8..13, u[e + 1] = p PROVE u[e] = p
  BY <1>1, <1>5, <1>7
<1>8. u[13] = p /\ u[12] = p /\ u[11] = p /\ u[10] = p /\ u[9] = p /\ u[8] = p
  <2>1. u[13] = p BY <1>6, <1>7
  <2>2. u[12] = p BY <2>1, <1>7
  <2>3. u[11] = p BY <2>2, <1>7
  <2>4. u[10] = p BY <2>3, <1>7
  <2>5. u[9] = p BY <2>4, <1>7
  <2>6. u[8] = p BY <2>5, <1>7
  <2> QED BY <2>1, <2>2, <2>3, <2>4, <2>5, <2>6
<1>9. u[7] = r
  <2>1. 7 + 1 = 8 /\ 7 - 3 = 4 /\ 7 - 4 = 3 /\ 7 - 6 = 1 /\ 7 - 7 = 0 /\ 7 # 14
    OBVIOUS
  <2>2. 7 \in 7..14
    OBVIOUS
  <2> QED BY <1>5, <1>8, <2>1, <2>2
<1> QED BY <1>4, <1>9

\* Every product that the cipher needs: with 1, with x, and with x + 1.
LEMMA TimesIs ==
  ASSUME NEW b \in Byte
  PROVE  /\ Times({0}, b) = b /\ Times({1}, b) = xtime(b)
         /\ Times({0, 1}, b) = Xor(xtime(b), b)
<1>1. Bit = {0, 1, 2, 3, 4, 5, 6, 7} /\ \A e \in b : e \in 0..7
  BY DEF Byte, Bit
<1>2. ASSUME NEW e \in 0..14
      PROVE  /\ e \in Product({0}, b) <=> e \in b
             /\ e \in Product({1}, b) <=> (e - 1) \in b
             /\ e \in Product({0, 1}, b) <=> ~(e \in b <=> (e - 1) \in b)
  <2> DEFINE S(a) == {k \in a : (e - k) \in b}
  <2>1. \A a : e \in Product(a, b) <=> Cardinality(S(a)) % 2 = 1
    BY DEF Product
  <2>2. /\ S({0}) \in SUBSET {0, 1} /\ S({1}) \in SUBSET {0, 1} /\ S({0, 1}) \in SUBSET {0, 1}
        /\ 0 \in S({0}) <=> e \in b
        /\ 1 \notin S({0}) /\ 0 \notin S({1})
        /\ 1 \in S({1}) <=> (e - 1) \in b
        /\ 0 \in S({0, 1}) <=> e \in b
        /\ 1 \in S({0, 1}) <=> (e - 1) \in b
    <3>1. e - 0 = e
      OBVIOUS
    <3> QED BY <3>1
  <2> HIDE DEF S
  <2>3. \A T \in SUBSET {0, 1} : Cardinality(T) % 2 = 1 <=> ~(0 \in T <=> 1 \in T)
    <3> TAKE T \in SUBSET {0, 1}
    <3>1. 0 # 1
      OBVIOUS
    <3> DEFINE x == 0  y == 1
    <3>2. x # y /\ T \in SUBSET {x, y}
      BY <3>1
    <3> HIDE DEF x, y
    <3>3. Cardinality(T) % 2 = 1 <=> ~(x \in T <=> y \in T)
      BY <3>2, OddOfTwo
    <3> QED BY <3>3 DEF x, y
  <2> QED BY <2>1, <2>2, <2>3
<1>3. \A a : Product(a, b) \subseteq 0..14
  BY DEF Product
<1>4. /\ Product({0}, b) \in SUBSET (0..8) /\ Product({1}, b) \in SUBSET (0..8)
      /\ Product({0, 1}, b) \in SUBSET (0..8)
  BY <1>1, <1>2, <1>3
<1>5. ASSUME NEW p \in SUBSET (0..8)
      PROVE  /\ Reduced(p) \in Byte
             /\ \A k \in Bit : k \in Reduced(p) <=> ~(k \in p <=> (8 \in p /\ k \in {0, 1, 3, 4}))
  <2>1. Reduced(p) = IF 8 \in p THEN Xor(p, {8, 4, 3, 1, 0}) ELSE p
    BY ReducedIs, AddIsXor
  <2>2. \A k : k \in Xor(p, {8, 4, 3, 1, 0}) <=> ~(k \in p <=> k \in {8, 4, 3, 1, 0})
    BY XorIn
  <2>3. \A k \in 0..8 : k # 8 => k \in 0..7
    OBVIOUS
  <2>4. CASE 8 \in p
    <3>1. \A k \in Reduced(p) : k \in 0..7
      <4> TAKE k \in Reduced(p)
      <4>1. k # 8 /\ (k \in p \/ k \in {8, 4, 3, 1, 0})
        BY <2>1, <2>2, <2>4
      <4>2. k \in 0..8
        <5>1. \A x \in p : x \in 0..8
          OBVIOUS
        <5>2. \A x \in {8, 4, 3, 1, 0} : x \in 0..8
          OBVIOUS
        <5> QED BY <4>1, <5>1, <5>2
      <4> QED BY <2>3, <4>1, <4>2
    <3> QED BY <1>1, <2>1, <2>2, <2>4, <3>1 DEF Byte, Bit
  <2>5. CASE 8 \notin p
    BY <2>1, <2>3, <2>5 DEF Byte, Bit
  <2> QED BY <2>4, <2>5
<1>6. ASSUME NEW p \in SUBSET (0..8), NEW c \in Byte,
             \A k \in Bit : ~(k \in p <=> (8 \in p /\ k \in {0, 1, 3, 4})) <=> k \in c
      PROVE  Reduced(p) = c
  BY <1>5, <1>6, SameBits
<1>7. \A k \in {0, 1, 2, 3, 4, 5, 6, 7, 8} : k \in 0..14
  OBVIOUS
<1>8. xtime(b) \in Byte /\ Xor(xtime(b), b) \in Byte
  BY XtimeBits, XorByte
<1>9. ~(8 \in b) /\ ~(0 - 1 \in b)
  BY <1>1
<1> DEFINE in(k) == k \in b
<1>10. Times({0}, b) = b
  <2>1. \A k \in Bit : ~(k \in Product({0}, b) <=> (8 \in Product({0}, b) /\ k \in {0, 1, 3, 4})) <=> k \in b
    BY <1>1, <1>2, <1>7, <1>9
  <2> QED BY <1>4, <1>6, <2>1 DEF Times
<1>11. /\ 1 - 1 = 0 /\ 2 - 1 = 1 /\ 3 - 1 = 2 /\ 4 - 1 = 3 /\ 5 - 1 = 4 /\ 6 - 1 = 5
       /\ 7 - 1 = 6 /\ 8 - 1 = 7
  OBVIOUS
<1>12. Times({1}, b) = xtime(b)
  <2> DEFINE p == Product({1}, b)
  <2>1. /\ 0 \notin p
        /\ 1 \in p <=> 0 \in b
        /\ 2 \in p <=> 1 \in b
        /\ 3 \in p <=> 2 \in b
        /\ 4 \in p <=> 3 \in b
        /\ 5 \in p <=> 4 \in b
        /\ 6 \in p <=> 5 \in b
        /\ 7 \in p <=> 6 \in b
        /\ 8 \in p <=> 7 \in b
    BY <1>2, <1>7, <1>9, <1>11
  <2> HIDE DEF p
  <2>2. \A k \in Bit : ~(k \in p <=> (8 \in p /\ k \in {0, 1, 3, 4})) <=> k \in xtime(b)
    <3> DEFINE x == xtime(b)
    <3>1. /\ 0 \in x <=> 7 \in b
          /\ 1 \in x <=> ~(0 \in b <=> 7 \in b)
          /\ 2 \in x <=> 1 \in b
          /\ 3 \in x <=> ~(2 \in b <=> 7 \in b)
          /\ 4 \in x <=> ~(3 \in b <=> 7 \in b)
          /\ 5 \in x <=> 4 \in b
          /\ 6 \in x <=> 5 \in b
          /\ 7 \in x <=> 6 \in b
      BY XtimeBits
    <3> HIDE DEF x
    <3> DEFINE Good(k) == ~(k \in p <=> (8 \in p /\ k \in {0, 1, 3, 4})) <=> k \in x
    <3>2. \A k \in {0, 1, 3, 4} : (k \in x <=> ~(k \in p <=> 8 \in p)) => Good(k)
      OBVIOUS
    <3>3. \A k \in {2, 5, 6, 7} : (k \in x <=> k \in p) => Good(k)
      OBVIOUS
    <3> HIDE DEF Good
    <3>4. \A k \in {0, 1, 2, 3, 4, 5, 6, 7} : Good(k)
      BY <2>1, <3>1, <3>2, <3>3
    <3> QED BY <1>1, <3>4 DEF Good, x
  <2> QED BY <1>4, <1>6, <1>8, <2>2 DEF Times, p
<1>13. Times({0, 1}, b) = Xor(xtime(b), b)
  <2> DEFINE p == Product({0, 1}, b)
  <2>1. /\ 0 \in p <=> 0 \in b
        /\ 1 \in p <=> ~(1 \in b <=> 0 \in b)
        /\ 2 \in p <=> ~(2 \in b <=> 1 \in b)
        /\ 3 \in p <=> ~(3 \in b <=> 2 \in b)
        /\ 4 \in p <=> ~(4 \in b <=> 3 \in b)
        /\ 5 \in p <=> ~(5 \in b <=> 4 \in b)
        /\ 6 \in p <=> ~(6 \in b <=> 5 \in b)
        /\ 7 \in p <=> ~(7 \in b <=> 6 \in b)
        /\ 8 \in p <=> 7 \in b
    BY <1>2, <1>7, <1>9, <1>11
  <2> HIDE DEF p
  <2>2. \A k \in Bit : ~(k \in p <=> (8 \in p /\ k \in {0, 1, 3, 4})) <=> k \in Xor(xtime(b), b)
    BY <1>1, <2>1, XtimeBits, XorIn
  <2> QED BY <1>4, <1>6, <1>8, <2>2 DEF Times, p
<1> QED BY <1>10, <1>12, <1>13

----------------------------------------------------------------------------
(* The standard: rounds and key schedule. *)

\* Byte k of a block is in row k % 4 and column k \div 4.
LEMMA Places ==
  ASSUME NEW k \in 0..15
  PROVE  /\ k % 4 \in 0..3 /\ k \div 4 \in 0..3 /\ <<k % 4, k \div 4>> \in Matrix
         /\ (k % 4) + 4 * (k \div 4) = k
<1>1. k % 4 \in 0..3 /\ k \div 4 \in 0..3 /\ (k % 4) + 4 * (k \div 4) = k
  OBVIOUS
<1> QED BY <1>1 DEF Matrix

\* The bytes of a state.
LEMMA StateIs ==
  ASSUME NEW b, NEW r \in 0..3, NEW c \in 0..3
  PROVE  <<r, c>> \in Matrix /\ ToState(b)[<<r, c>>] = b[r + 4 * c]
<1>1. <<r, c>> \in Matrix /\ <<r, c>>[1] = r /\ <<r, c>>[2] = c
  BY DEF Matrix
<1> QED BY <1>1 DEF ToState

\* SubBytes and ShiftRows are sub_Bytes and shift_Rows.
LEMMA MovedIs ==
  ASSUME SBox = SubByte, NEW b \in Block, NEW r \in 0..3, NEW c \in 0..3
  PROVE  ShiftRows(SubBytes(ToState(b)))[<<r, c>>] = Moved(b)[r + 4 * c]
<1> DEFINE d == (c + r) % 4
           k == r + 4 * c
<1>1. d \in 0..3 /\ k \in 0..15
  OBVIOUS
<1>2. (k + 4 * (k % 4)) % 16 = r + 4 * d
  <2>1. r \in {0, 1, 2, 3} /\ c \in {0, 1, 2, 3}
    OBVIOUS
  <2>2. CASE r = 0 BY <2>1, <2>2
  <2>3. CASE r = 1 BY <2>1, <2>3
  <2>4. CASE r = 2 BY <2>1, <2>4
  <2>5. CASE r = 3 BY <2>1, <2>5
  <2> QED BY <2>1, <2>2, <2>3, <2>4, <2>5
<1>3. <<r, c>> \in Matrix /\ <<r, c>>[1] = r /\ <<r, c>>[2] = c
  BY DEF Matrix
<1>4. ShiftRows(SubBytes(ToState(b)))[<<r, c>>] = SubBytes(ToState(b))[<<r, d>>]
  <2> DEFINE rc == <<r, c>>
             s == SubBytes(ToState(b))
  <2>1. rc \in Matrix /\ rc[1] = r /\ rc[2] = c
    BY <1>3
  <2> HIDE DEF rc, s
  <2>2. ShiftRows(s)[rc] = s[<<rc[1], (rc[2] + rc[1]) % 4>>]
    BY <2>1, Zenon DEF ShiftRows
  <2>3. s[<<rc[1], (rc[2] + rc[1]) % 4>>] = s[<<r, d>>]
    BY <2>1, Zenon
  <2> QED BY <2>2, <2>3, Zenon DEF rc, s
<1> HIDE DEF d, k
<1>5. <<r, d>> \in Matrix /\ ToState(b)[<<r, d>>] = b[r + 4 * d]
  BY <1>1, StateIs
<1>6. SubBytes(ToState(b))[<<r, d>>] = SBox[b[r + 4 * d]]
  BY <1>5 DEF SubBytes
<1>7. r + 4 * d \in 0..15
  BY <1>1
<1>8. Moved(b)[k] = sub_Bytes(b)[r + 4 * d]
  BY <1>1, <1>2 DEF Moved, shift_Rows
<1> QED BY <1>4, <1>6, <1>7, <1>8 DEF sub_Bytes, k

\* MixColumns is mix_Column.
LEMMA MixedIs ==
  ASSUME NEW s, NEW b \in Block,
         \A r \in 0..3 : \A c \in 0..3 : s[<<r, c>>] = b[r + 4 * c],
         NEW r \in 0..3, NEW c \in 0..3
  PROVE  MixColumns(s)[<<r, c>>] = mix_Column(b)[r + 4 * c]
<1> DEFINE factor == [d \in 0..3 |-> IF d = 0 THEN {1} ELSE IF d = 3 THEN {0, 1} ELSE {0}]
           t == [e \in 0..3 |-> Times(factor[(4 + r - e) % 4], s[<<e, c>>])]
           k == r + 4 * c
<1>1. <<r, c>> \in Matrix /\ <<r, c>>[1] = r /\ <<r, c>>[2] = c
  BY DEF Matrix
<1>2. MixColumns(s)[<<r, c>>] = Add(Add(t[0], t[1]), Add(t[2], t[3]))
  <2> DEFINE rc == <<r, c>>
             u == [e \in 0..3 |-> Times(factor[(4 + rc[1] - e) % 4], s[<<e, rc[2]>>])]
  <2>1. rc \in Matrix /\ rc[1] = r /\ rc[2] = c
    BY <1>1
  <2> HIDE DEF rc
  <2> DEFINE v(x) == [e \in 0..3 |-> Times(factor[(4 + x[1] - e) % 4], s[<<e, x[2]>>])]
             y(x) == Add(Add(v(x)[0], v(x)[1]), Add(v(x)[2], v(x)[3]))
  <2>2. MixColumns(s) = [x \in Matrix |-> y(x)]
    BY DEF MixColumns
  <2>3. MixColumns(s)[rc] = Add(Add(u[0], u[1]), Add(u[2], u[3]))
    <3>1. y(rc) = Add(Add(u[0], u[1]), Add(u[2], u[3]))
      OBVIOUS
    <3> HIDE DEF y
    <3>2. MixColumns(s)[rc] = y(rc)
      BY <2>2, <2>1
    <3> QED BY <3>1, <3>2
  <2>4. u = t
    BY <2>1
  <2> QED BY <2>3, <2>4, Zenon DEF rc
<1>3. k \in 0..15 /\ k \div 4 = c /\ k % 4 = r
  OBVIOUS
<1> DEFINE at(e) == b[e + 4 * c]
           m(e) == (4 + r - e) % 4
<1>4. \A e \in 0..3 : s[<<e, c>>] = at(e) /\ at(e) \in Byte
  <2> TAKE e \in 0..3
  <2>1. e + 4 * c \in 0..15
    OBVIOUS
  <2> QED BY <2>1 DEF Block
<1>5. \A e \in 0..3 : At(b, k, e) = at((r + e) % 4)
  <2> TAKE e \in 0..3
  <2>1. (k + e) % 4 = (r + e) % 4 /\ 4 * (k \div 4) = 4 * c /\ (r + e) % 4 \in 0..3
    OBVIOUS
  <2>2. At(b, k, e) = b[4 * (k \div 4) + ((k + e) % 4)]
    BY DEF At
  <2> HIDE DEF k
  <2>3. 4 * (k \div 4) + ((k + e) % 4) = ((r + e) % 4) + 4 * c
    BY <2>1
  <2> QED BY <2>2, <2>3
<1>6. mix_Column(b)[k] = Xor4(gmul({1}, At(b, k, 0)), gmul({0, 1}, At(b, k, 1)), At(b, k, 2), At(b, k, 3))
  BY <1>3 DEF mix_Column
<1>7. \A e \in 0..3 : t[e] = Times(factor[m(e)], at(e))
  BY <1>4
<1> DEFINE x0 == at(0)  x1 == at(1)  x2 == at(2)  x3 == at(3)
<1>8. x0 \in Byte /\ x1 \in Byte /\ x2 \in Byte /\ x3 \in Byte
  BY <1>4
<1>9. factor[0] = {1} /\ factor[1] = {0} /\ factor[2] = {0} /\ factor[3] = {0, 1}
  OBVIOUS
<1>10. 0 \in 0..3 /\ 1 \in 0..3 /\ 2 \in 0..3 /\ 3 \in 0..3
  OBVIOUS
<1>11. \A x \in Byte : /\ Times({0}, x) = x /\ Times({1}, x) = xtime(x)
                       /\ Times({0, 1}, x) = Xor(xtime(x), x)
                       /\ gmul({1}, x) = xtime(x) /\ gmul({0, 1}, x) = Xor(xtime(x), x)
  BY TimesIs, TimesTwoThree
<1> HIDE DEF factor, t, at, k, m
<1>12. \A a, x, y, z : /\ Add(Add(a, x), Add(y, z)) = Xor(Xor(a, x), Xor(y, z))
  BY AddIsXor
<1>13. \A w, x, y, z : /\ Xor(Xor(w, x), Xor(y, z)) = Xor4(w, x, y, z)
                       /\ Xor4(w, x, y, z) = Xor4(x, y, z, w)
  <2> TAKE w, x, y, z
  <2>1. \A e : /\ e \in Xor(Xor(w, x), Xor(y, z)) <=> ~(~(e \in w <=> e \in x) <=> ~(e \in y <=> e \in z))
               /\ e \in Xor4(w, x, y, z) <=> ~(e \in w <=> ~(e \in x <=> ~(e \in y <=> e \in z)))
               /\ e \in Xor4(x, y, z, w) <=> ~(e \in x <=> ~(e \in y <=> ~(e \in z <=> e \in w)))
    BY XorIn DEF Xor4
  <2> QED BY <2>1
<1>14. CASE r = 0
  <2>1. m(0) = 0 /\ m(1) = 3 /\ m(2) = 2 /\ m(3) = 1
    BY <1>14 DEF m
  <2>2.  (0 + 0) % 4 = 0 /\ (0 + 1) % 4 = 1 /\ (0 + 2) % 4 = 2 /\ (0 + 3) % 4 = 3
    OBVIOUS
  <2>3. t[0] = Times({1}, x0) /\ t[1] = Times({0, 1}, x1) /\ t[2] = Times({0}, x2) /\ t[3] = Times({0}, x3)
    BY <1>7, <1>9, <1>10, <2>1, Zenon
  <2>4. At(b, k, 0) = x0 /\ At(b, k, 1) = x1 /\ At(b, k, 2) = x2 /\ At(b, k, 3) = x3
    BY <1>5, <1>14, <2>2
  <2> HIDE DEF x0, x1, x2, x3
  <2> QED BY <1>2, <1>6, <1>8, <1>11, <1>12, <1>13, <2>3, <2>4 DEF k
<1>15. CASE r = 1
  <2>1. m(0) = 1 /\ m(1) = 0 /\ m(2) = 3 /\ m(3) = 2
    BY <1>15 DEF m
  <2>2.  (1 + 0) % 4 = 1 /\ (1 + 1) % 4 = 2 /\ (1 + 2) % 4 = 3 /\ (1 + 3) % 4 = 0
    OBVIOUS
  <2>3. t[0] = Times({0}, x0) /\ t[1] = Times({1}, x1) /\ t[2] = Times({0, 1}, x2) /\ t[3] = Times({0}, x3)
    BY <1>7, <1>9, <1>10, <2>1, Zenon
  <2>4. At(b, k, 0) = x1 /\ At(b, k, 1) = x2 /\ At(b, k, 2) = x3 /\ At(b, k, 3) = x0
    BY <1>5, <1>15, <2>2
  <2> HIDE DEF x0, x1, x2, x3
  <2> QED BY <1>2, <1>6, <1>8, <1>11, <1>12, <1>13, <2>3, <2>4 DEF k
<1>16. CASE r = 2
  <2>1. m(0) = 2 /\ m(1) = 1 /\ m(2) = 0 /\ m(3) = 3
    BY <1>16 DEF m
  <2>2.  (2 + 0) % 4 = 2 /\ (2 + 1) % 4 = 3 /\ (2 + 2) % 4 = 0 /\ (2 + 3) % 4 = 1
    OBVIOUS
  <2>3. t[0] = Times({0}, x0) /\ t[1] = Times({0}, x1) /\ t[2] = Times({1}, x2) /\ t[3] = Times({0, 1}, x3)
    BY <1>7, <1>9, <1>10, <2>1, Zenon
  <2>4. At(b, k, 0) = x2 /\ At(b, k, 1) = x3 /\ At(b, k, 2) = x0 /\ At(b, k, 3) = x1
    BY <1>5, <1>16, <2>2
  <2> HIDE DEF x0, x1, x2, x3
  <2> QED BY <1>2, <1>6, <1>8, <1>11, <1>12, <1>13, <2>3, <2>4 DEF k
<1>17. CASE r = 3
  <2>1. m(0) = 3 /\ m(1) = 2 /\ m(2) = 1 /\ m(3) = 0
    BY <1>17 DEF m
  <2>2.  (3 + 0) % 4 = 3 /\ (3 + 1) % 4 = 0 /\ (3 + 2) % 4 = 1 /\ (3 + 3) % 4 = 2
    OBVIOUS
  <2>3. t[0] = Times({0, 1}, x0) /\ t[1] = Times({0}, x1) /\ t[2] = Times({0}, x2) /\ t[3] = Times({1}, x3)
    BY <1>7, <1>9, <1>10, <2>1, Zenon
  <2>4. At(b, k, 0) = x3 /\ At(b, k, 1) = x0 /\ At(b, k, 2) = x1 /\ At(b, k, 3) = x2
    BY <1>5, <1>17, <2>2
  <2> HIDE DEF x0, x1, x2, x3
  <2> QED BY <1>2, <1>6, <1>8, <1>11, <1>12, <1>13, <2>3, <2>4 DEF k
<1>18. r \in {0, 1, 2, 3}
  OBVIOUS
<1> QED BY <1>14, <1>15, <1>16, <1>17, <1>18

\* A round of the standard is a round of aes_Encrypt.
LEMMA RoundIs ==
  ASSUME SBox = SubByte, Expanded, NEW b \in Block, NEW q \in Stage,
         NEW w, \A n \in 0..(KeyWords - 1) : w[n] = roundKeys[n + 1]
  PROVE  Round(b, w, q) = Encrypted(b, q)
<1> DEFINE s == ToState(b)
           t == ShiftRows(SubBytes(s))
           x == CASE q = 0 -> s [] q \in 1..9 -> MixColumns(t) [] q = 10 -> t
           y == IF q = 0 THEN b ELSE IF q = 10 THEN Moved(b) ELSE mix_Column(Moved(b))
<1>1. Round(b, w, q) = ToBlock(AddKey(x, w, q))
  BY DEF Round
<1>2. q = 0 \/ q \in 1..9 \/ q = 10
  BY DEF Stage, AES_ROUNDS
<1>3. Encrypted(b, q) = add_Round(y, RoundKey(q))
  BY <1>2 DEF Encrypted, Moved, AES_ROUNDS
<1>4. Moved(b) \in Block
  BY MovedBack
<1>5. ASSUME NEW r \in 0..3, NEW c \in 0..3
      PROVE  x[<<r, c>>] = y[r + 4 * c]
  <2>1. s[<<r, c>>] = b[r + 4 * c]
    BY StateIs
  <2>2. \A e \in 0..3 : \A d \in 0..3 : t[<<e, d>>] = Moved(b)[e + 4 * d]
    BY MovedIs
  <2>3. MixColumns(t)[<<r, c>>] = mix_Column(Moved(b))[r + 4 * c]
    <3> HIDE DEF t
    <3> QED BY <1>4, <2>2, MixedIs
  <2> HIDE DEF s, t
  <2>4. CASE q = 0
    BY <2>1, <2>4
  <2>5. CASE q \in 1..9
    BY <2>3, <2>5
  <2>6. CASE q = 10
    BY <2>2, <2>6
  <2> QED BY <1>2, <2>4, <2>5, <2>6
<1> HIDE DEF x, y
<1>6. ASSUME NEW k \in 0..15
      PROVE  ToBlock(AddKey(x, w, q))[k] = add_Round(y, RoundKey(q))[k]
  <2> DEFINE r == k % 4
             c == k \div 4
  <2>1. r \in 0..3 /\ c \in 0..3 /\ <<r, c>> \in Matrix /\ r + 4 * c = k
    BY Places
  <2>2. ToBlock(AddKey(x, w, q))[k] = AddKey(x, w, q)[<<r, c>>]
    BY Zenon DEF ToBlock
  <2>3. RoundKey(q)[k] = roundKeys[4 * q + c + 1][r]
    BY DEF RoundKey
  <2>4. add_Round(y, RoundKey(q))[k] = Xor(y[k], RoundKey(q)[k])
    BY DEF add_Round
  <2> HIDE DEF r, c
  <2>5. <<r, c>>[1] = r /\ <<r, c>>[2] = c
    OBVIOUS
  <2>6. AddKey(x, w, q)[<<r, c>>] = Xor(x[<<r, c>>], w[4 * q + c][r])
    BY <2>1, <2>5, AddIsXor DEF AddKey
  <2>7. 4 * q + c \in 0..(KeyWords - 1)
    BY <2>1 DEF Stage, AES_ROUNDS, KeyWords
  <2>8. w[4 * q + c] = roundKeys[4 * q + c + 1]
    BY <2>7
  <2>9. x[<<r, c>>] = y[k]
    BY <1>5, <2>1
  <2> QED BY <2>2, <2>3, <2>4, <2>6, <2>8, <2>9
<1>7. ToBlock(AddKey(x, w, q)) = [k \in 0..15 |-> ToBlock(AddKey(x, w, q))[k]]
  BY DEF ToBlock
<1>8. add_Round(y, RoundKey(q)) = [k \in 0..15 |-> add_Round(y, RoundKey(q))[k]]
  BY DEF add_Round
<1> QED BY <1>1, <1>3, <1>6, <1>7, <1>8

\* The powers of x that the key schedule adds are those of rcon.
LEMMA RconIsPower ==
  /\ rcon[1] = {0}
  /\ \A e \in 1..9 : rcon[e + 1] = xtime(rcon[e]) /\ rcon[e] \in Byte
  /\ \A e \in 0..9 : rcon[e + 1] \in Byte
<1>1. /\ rcon[1] = {0} /\ rcon[2] = {1} /\ rcon[3] = {2} /\ rcon[4] = {3} /\ rcon[5] = {4}
      /\ rcon[6] = {5} /\ rcon[7] = {6} /\ rcon[8] = {7} /\ rcon[9] = {0, 1, 3, 4}
      /\ rcon[10] = {1, 2, 4, 5}
  BY DEF rcon
<1>2. Bit = {0, 1, 2, 3, 4, 5, 6, 7}
  BY DEF Bit
<1>3. \A e \in {1, 2, 3, 4, 5, 6, 7, 8, 9, 10} : rcon[e] \in Byte
  BY <1>1, <1>2 DEF Byte
<1>4. xtime({0}) = {1}
  <2>1. {0} \in Byte /\ {1} \in Byte
    BY <1>2 DEF Byte
  <2>2. \A k \in {0, 1, 2, 3, 4, 5, 6, 7} : k \in xtime({0}) <=> k \in {1}
    BY <2>1, XtimeBits
  <2> QED BY <1>2, <2>1, <2>2, XtimeBits, SameBits
<1>5. xtime({0, 1, 3, 4}) = {1, 2, 4, 5}
  <2>1. {0, 1, 3, 4} \in Byte /\ {1, 2, 4, 5} \in Byte
    BY <1>2 DEF Byte
  <2>2. \A k \in {0, 1, 2, 3, 4, 5, 6, 7} : k \in xtime({0, 1, 3, 4}) <=> k \in {1, 2, 4, 5}
    BY <2>1, XtimeBits
  <2> QED BY <1>2, <2>1, <2>2, XtimeBits, SameBits
<1>6. \A e \in {1, 2, 3, 4, 5, 6, 7, 8, 9} : rcon[e + 1] = xtime(rcon[e])
  <2>1. /\ rcon[2] = xtime(rcon[1]) /\ rcon[3] = xtime(rcon[2]) /\ rcon[4] = xtime(rcon[3])
        /\ rcon[5] = xtime(rcon[4]) /\ rcon[6] = xtime(rcon[5]) /\ rcon[7] = xtime(rcon[6])
        /\ rcon[8] = xtime(rcon[7]) /\ rcon[9] = xtime(rcon[8]) /\ rcon[10] = xtime(rcon[9])
    BY <1>1, <1>4, <1>5, Powers
  <2> HIDE DEF rcon
  <2> QED BY <2>1
<1>7. \A e \in 1..9 : e \in {1, 2, 3, 4, 5, 6, 7, 8, 9} /\ e \in {1, 2, 3, 4, 5, 6, 7, 8, 9, 10}
  OBVIOUS
<1>8. \A e \in 0..9 : e + 1 \in {1, 2, 3, 4, 5, 6, 7, 8, 9, 10}
  OBVIOUS
<1> HIDE DEF rcon
<1> QED BY <1>1, <1>3, <1>6, <1>7, <1>8

\* A word of the standard's key schedule is one that key_Expansion adds.
LEMMA KeyWordIs ==
  ASSUME SBox = SubByte, NEW n \in 4..(KeyWords - 1), NEW w,
         NEW back, back = w[n - 4], NEW last \in Word, last = w[n - 1]
  PROVE  KeyWord(w, n) = [r \in 0..3 |-> Xor(back[r], Temp(last, n)[r])]
<1> DEFINE h == [e \in 0..9 |-> rcon[e + 1]]
<1>1. h[0] = {0} /\ \A e \in 1..9 : h[e] = Times({1}, h[e - 1])
  <2>1. h[0] = {0}
    <3>1. 0 \in 0..9 /\ 0 + 1 = 1
      OBVIOUS
    <3> QED BY <3>1, RconIsPower
  <2>2. ASSUME NEW e \in 1..9 PROVE h[e] = Times({1}, h[e - 1])
    <3>1. h[e] = rcon[e + 1] /\ h[e - 1] = rcon[e]
      BY DEF h
    <3>2. rcon[e] \in Byte /\ rcon[e + 1] = xtime(rcon[e])
      BY RconIsPower
    <3> HIDE DEF h
    <3>3. Times({1}, rcon[e]) = xtime(rcon[e])
      BY <3>2, TimesIs
    <3> QED BY <3>1, <3>2, <3>3
  <2> QED BY <2>1, <2>2
<1>2. h = [e \in 0..9 |-> IF e = 0 THEN {0} ELSE Times({1}, h[e - 1])]
  <2>1. h = [e \in 0..9 |-> h[e]] /\ \A e \in 0..9 : e # 0 => e \in 1..9
    BY DEF h
  <2> HIDE DEF h
  <2> QED BY <1>1, <2>1
<1> HIDE DEF h
<1> DEFINE core(u) == [r \in 0..3 |-> Add(SubByte[last[(r + 1) % 4]], IF r = 0 THEN u[(n \div 4) - 1] ELSE {})]
<1>3. PICK u : /\ u = [e \in 0..9 |-> IF e = 0 THEN {0} ELSE Times({1}, u[e - 1])]
               /\ KeyWord(w, n) = [r \in 0..3 |-> Add(back[r], IF n % 4 = 0 THEN core(u)[r] ELSE last[r])]
  <2> DEFINE first(u) == [r \in 0..3 |-> Add(SubByte[w[n - 1][(r + 1) % 4]], IF r = 0 THEN u[(n \div 4) - 1] ELSE {})]
             word(u) == [r \in 0..3 |-> Add(w[n - 4][r], IF n % 4 = 0 THEN first(u)[r] ELSE w[n - 1][r])]
             P(u) == u = [e \in 0..9 |-> IF e = 0 THEN {0} ELSE Times({1}, u[e - 1])]
  <2>1. KeyWord(w, n) = word(CHOOSE u : P(u))
    BY DEF KeyWord
  <2>2. P(CHOOSE u : P(u))
    <3>1. P(h)
      BY <1>2
    <3> HIDE DEF P
    <3> QED BY <3>1
  <2>3. \A u : word(u) = [r \in 0..3 |-> Add(back[r], IF n % 4 = 0 THEN core(u)[r] ELSE last[r])]
    OBVIOUS
  <2> DEFINE v == CHOOSE u : P(u)
  <2>4. P(v) /\ KeyWord(w, n) = word(v)
    BY <2>1, <2>2
  <2> HIDE DEF v, word
  <2> QED BY <2>3, <2>4
<1>4. u[0] = {0} /\ \A e \in 1..9 : u[e] = Times({1}, u[e - 1])
  <2>1. \A e \in 0..9 : u[e] = IF e = 0 THEN {0} ELSE Times({1}, u[e - 1])
    BY <1>3, Zenon
  <2> QED BY <2>1
<1>5. \A e \in 0..9 : u[e] = rcon[e + 1]
  <2>1. h[0] = u[0]
    BY <1>1, <1>4
  <2>2. ASSUME NEW e \in 1..9, h[e - 1] = u[e - 1] PROVE h[e] = u[e]
    BY <1>1, <1>4, <2>2
  <2>3. h[1] = u[1] BY <2>1, <2>2
  <2>4. h[2] = u[2] BY <2>3, <2>2
  <2>5. h[3] = u[3] BY <2>4, <2>2
  <2>6. h[4] = u[4] BY <2>5, <2>2
  <2>7. h[5] = u[5] BY <2>6, <2>2
  <2>8. h[6] = u[6] BY <2>7, <2>2
  <2>9. h[7] = u[7] BY <2>8, <2>2
  <2>10. h[8] = u[8] BY <2>9, <2>2
  <2>11. h[9] = u[9] BY <2>10, <2>2
  <2>12. \A e \in 0..9 : e \in {0, 1, 2, 3, 4, 5, 6, 7, 8, 9} /\ h[e] = rcon[e + 1]
    BY DEF h
  <2> QED BY <2>1, <2>3, <2>4, <2>5, <2>6, <2>7, <2>8, <2>9, <2>10, <2>11, <2>12
<1>6. ASSUME NEW r \in 0..3
      PROVE  (IF n % 4 = 0 THEN core(u)[r] ELSE last[r]) = Temp(last, n)[r]
  <2>1. CASE n % 4 # 0
    BY <2>1 DEF Temp
  <2>2. CASE n % 4 = 0
    <3> DEFINE x == subWord(rotWord(last))
               k == (r + 1) % 4
    <3>1. k \in 0..3
      OBVIOUS
    <3>2. rotWord(last)[r] = last[k]
      BY DEF rotWord
    <3>3. x[r] = SBox[last[k]] /\ x = [y \in 0..3 |-> x[y]]
      BY <3>2 DEF subWord
    <3>4. Temp(last, n) = [x EXCEPT ![0] = Xor(@, rcon[n \div 4])]
      BY <2>2 DEF Temp
    <3>5. core(u)[r] = Xor(SBox[last[k]], IF r = 0 THEN u[(n \div 4) - 1] ELSE {})
      BY AddIsXor
    <3>6. (n \div 4) - 1 \in 0..9 /\ (n \div 4) - 1 + 1 = n \div 4
      BY <2>2 DEF KeyWords
    <3>7. u[(n \div 4) - 1] = rcon[n \div 4]
      BY <1>5, <3>6
    <3>8. Xor(SBox[last[k]], {}) = SBox[last[k]]
      BY DEF Xor
    <3> HIDE DEF x, k, core
    <3> QED BY <2>2, <3>3, <3>4, <3>5, <3>7, <3>8
  <2> QED BY <2>1, <2>2
<1> HIDE DEF core
<1> QED BY <1>3, <1>6, AddIsXor

----------------------------------------------------------------------------
(* The expanded key. *)

\* The words that key_Expansion has written so far.
KeyCopied == \A k \in 0..15 : roundKeys[k \div 4 + 1][k % 4] = key[k]
KeyGrown  == \A n \in 4..(Len(roundKeys) - 1) :
  roundKeys[n + 1] = [k \in 0..3 |-> Xor(roundKeys[n - 3][k], Temp(roundKeys[n], n)[k])]
ScheduleInv == Len(roundKeys) >= 4 => KeyCopied /\ KeyGrown

\* CopyKey and ExpandKey write them; nothing changes them later.
LEMMA ScheduleKeeps == ASSUME IInv, ScheduleInv, [Next]_vars PROVE ScheduleInv'
<1>1. roundKeys \in Seq(Word) /\ Len(roundKeys) \in Nat
  BY DEF IInv, PlaceInv
<1>2. CASE CopyKey
  <2>1. key' = key
    BY <1>2 DEF CopyKey, input
  <2> DEFINE word(n) == [k \in 0..3 |-> key[4 * n + k]]
  <2>2. roundKeys' = <<word(0), word(1), word(2), word(3)>>
    BY <1>2 DEF CopyKey
  <2>3. ASSUME NEW k \in 0..15 PROVE roundKeys'[k \div 4 + 1][k % 4] = key[k]
    <3> DEFINE c == k \div 4  r == k % 4
    <3>1. c \in {0, 1, 2, 3} /\ r \in 0..3 /\ 4 * c + r = k
      OBVIOUS
    <3> HIDE DEF c, r
    <3>2. word(c)[r] = key[k]
      BY <3>1
    <3> HIDE DEF word
    <3>3. roundKeys'[c + 1] = word(c)
      BY <2>2, <3>1
    <3> QED BY <3>2, <3>3 DEF c, r
  <2>4. Len(roundKeys') = 4
    <3> HIDE DEF word
    <3> QED BY <2>2
  <2>5. KeyGrown'
    BY <2>4 DEF KeyGrown
  <2> QED BY <2>1, <2>3, <2>5 DEF ScheduleInv, KeyCopied
<1>3. CASE ExpandKey
  <2> DEFINE n == Len(roundKeys)
             new == Temp(roundKeys[n], n)
             v   == [k \in 0..3 |-> Xor(roundKeys[n - 3][k], new[k])]
  <2>1. roundKeys' = Append(roundKeys, v) /\ key' = key
    BY <1>3 DEF ExpandKey, input
  <2>2. n \in 4..(KeyWords - 1)
    BY <1>3 DEF IInv, PlaceInv, ExpandKey
  <2> HIDE DEF v
  <2>3. Len(roundKeys') = n + 1 /\ roundKeys'[n + 1] = v /\ \A j \in 1..n : roundKeys'[j] = roundKeys[j]
    <3> DEFINE W == Word \cup {v}
    <3>1. roundKeys \in Seq(W) /\ v \in W
      BY <1>1
    <3> QED BY <2>1, <3>1
  <2>4. KeyCopied /\ KeyGrown
    BY <2>2 DEF ScheduleInv
  <2>5. KeyCopied'
    <3>1. ASSUME NEW k \in 0..15 PROVE roundKeys'[k \div 4 + 1][k % 4] = key'[k]
      <4>1. k \div 4 + 1 \in 1..n
        <5>1. k \div 4 \in 0..3
          OBVIOUS
        <5> QED BY <2>2, <5>1
      <4> QED BY <2>1, <2>3, <2>4, <4>1 DEF KeyCopied
    <3> QED BY <3>1 DEF KeyCopied
  <2>6. ASSUME NEW m \in 4..(Len(roundKeys') - 1)
        PROVE  roundKeys'[m + 1] = [k \in 0..3 |-> Xor(roundKeys'[m - 3][k], Temp(roundKeys'[m], m)[k])]
    <3> HIDE DEF n
    <3>1. n \in Nat /\ m \in 4..n
      BY <2>2, <2>3
    <3>2. m \in 1..n /\ m - 3 \in 1..n
      BY <3>1
    <3>3. roundKeys'[m] = roundKeys[m] /\ roundKeys'[m - 3] = roundKeys[m - 3]
      BY <2>3, <3>2
    <3>4. CASE m = n
      BY <2>3, <3>3, <3>4 DEF v
    <3>5. CASE m # n
      <4>1. m \in 4..(n - 1) /\ m + 1 \in 1..n
        BY <3>1, <3>5
      <4>2. roundKeys[m + 1] = [k \in 0..3 |-> Xor(roundKeys[m - 3][k], Temp(roundKeys[m], m)[k])]
        BY <2>4, <4>1 DEF KeyGrown, n
      <4>3. roundKeys'[m + 1] = roundKeys[m + 1]
        BY <2>3, <4>1
      <4> QED BY <3>3, <4>2, <4>3
    <3> QED BY <3>4, <3>5
  <2>7. KeyGrown'
    BY <2>6 DEF KeyGrown
  <2> QED BY <2>5, <2>7 DEF ScheduleInv
<1>4. CASE roundKeys' = roundKeys /\ key' = key
  BY <1>4 DEF ScheduleInv, KeyCopied, KeyGrown
<1>5. CopyKey \/ ExpandKey \/ (roundKeys' = roundKeys /\ key' = key)
  BY DEF Next, vars, prepare_Block, aes_Encrypt, EndEncrypt, de_Crypt, EndDecrypt, Recover, NoEnd,
         Terminated, input
<1> QED BY <1>2, <1>3, <1>4, <1>5

\* In every state the words written so far are what key_Expansion makes of the key.
THEOREM KeyIsExpanded == Spec => []ScheduleInv
<1>1. Init => ScheduleInv
  BY DEF Init, ScheduleInv
<1>2. IInv /\ ScheduleInv /\ [Next]_vars => ScheduleInv'
  BY ScheduleKeeps
<1> QED BY <1>1, <1>2, Invariance, PTL DEF Spec

\* aes.c is AES: with a table that is SubByte of FIPS 197, what key_Expansion writes
\* is its key schedule, and what aes_Encrypt makes of any block in any round is what
\* its rounds make of it.
THEOREM CodeIsStandard == Spec => [](SBox = SubByte => MatchesStandard)
<1>1. IInv /\ ScheduleInv => (SBox = SubByte => MatchesStandard)
  <2> DEFINE w == [n \in 0..(KeyWords - 1) |-> roundKeys[n + 1]]
  <2> SUFFICES ASSUME IInv, ScheduleInv, SBox = SubByte, pc = "decrypt", i = 0, round = AES_ROUNDS
               PROVE  /\ \A k \in 0..15 : w[k \div 4][k % 4] = key[k]
                      /\ \A n \in 4..(KeyWords - 1) : w[n] = KeyWord(w, n)
                      /\ \A n \in DOMAIN data :
                           /\ data[n] = stages[n][11]
                           /\ \A r \in 0..10 : stages[n][r + 1] =
                                Round(IF r = 0 THEN Padded(message)[n] ELSE stages[n][r], w, r)
    BY DEF MatchesStandard
  <2>1. Expanded /\ KeyCopied /\ KeyGrown
    <3>1. Expanded
      BY DEF IInv, PlaceInv, Expanded
    <3>2. Len(roundKeys) >= 4
      BY <3>1 DEF Expanded, KeyWords
    <3> QED BY <3>1, <3>2 DEF ScheduleInv
  <2>2. \A n \in 0..(KeyWords - 1) : w[n] = roundKeys[n + 1]
    OBVIOUS
  <2> HIDE DEF w
  <2>3. ASSUME NEW k \in 0..15 PROVE w[k \div 4][k % 4] = key[k]
    <3>1. k \div 4 \in 0..3
      OBVIOUS
    <3>2. k \div 4 \in 0..(KeyWords - 1)
      BY <3>1 DEF KeyWords
    <3> QED BY <2>1, <2>2, <3>2 DEF KeyCopied
  <2>4. ASSUME NEW n \in 4..(KeyWords - 1) PROVE w[n] = KeyWord(w, n)
    <3> DEFINE back == roundKeys[n - 3]
               last == roundKeys[n]
    <3>1. /\ n \in 0..(KeyWords - 1) /\ n - 4 \in 0..(KeyWords - 1) /\ n - 1 \in 0..(KeyWords - 1)
          /\ (n - 4) + 1 = n - 3 /\ (n - 1) + 1 = n /\ n \in 1..KeyWords
      BY DEF KeyWords
    <3>2. back = w[n - 4] /\ last = w[n - 1] /\ last \in Word
      BY <2>1, <2>2, <3>1 DEF Expanded
    <3>3. w[n] = [k \in 0..3 |-> Xor(back[k], Temp(last, n)[k])]
      BY <2>1, <2>2, <3>1 DEF KeyGrown, Expanded
    <3> HIDE DEF back, last
    <3> QED BY <3>2, <3>3, KeyWordIs
  <2>5. DOMAIN data = Indices
    BY DEF IInv, PlaceInv
  <2>6. ASSUME NEW n \in Indices
        PROVE  /\ data[n] = stages[n][11]
               /\ \A r \in 0..10 : stages[n][r + 1] =
                    Round(IF r = 0 THEN Padded(message)[n] ELSE stages[n][r], w, r)
    <3>1. Chained(n, AES_ROUNDS + 1)
      BY DEF IInv, DecryptInv
    <3>2. data[n] = Before(n, AES_ROUNDS + 1)
      <4>1. n > i \/ (n = i /\ round = AES_ROUNDS)
        BY DEF Indices
      <4> QED BY <4>1 DEF IInv, DecryptInv
    <3>3. data[n] = stages[n][11]
      BY <3>2 DEF Before, AES_ROUNDS
    <3>4. ASSUME NEW r \in 0..10 PROVE stages[n][r + 1] = Round(Before(n, r), w, r)
      <4>1. r \in Stage /\ r \in 0..Len(stages[n])
        BY <3>1 DEF Stage, Chained, AES_ROUNDS
      <4>2. stages[n][r + 1] = Encrypted(Before(n, r), r)
        BY <3>1 DEF Chained, AES_ROUNDS
      <4>3. Before(n, r) \in Block
        BY <4>1, BeforeType
      <4> QED BY <2>1, <2>2, <4>1, <4>2, <4>3, RoundIs
    <3> QED BY <3>3, <3>4 DEF Before
  <2> QED BY <2>3, <2>4, <2>5, <2>6
<1> QED BY <1>1, Invariance, KeyIsExpanded, PTL

----------------------------------------------------------------------------
(* The Java version: its operators on what it has of a block and a word. *)

\* A block and a word as the Java version has them: counted from 1.
JBlock(b) == [k \in 1..16 |-> b[k - 1]]
JWord(w)  == [k \in 1..4 |-> w[k - 1]]

\* The same sets of bits, and the same product by 2.
LEMMA JavaBytes ==
  /\ \A a, b : Java!Xor(a, b) = Xor(a, b)
  /\ \A x \in Byte : Java!xtime(x) = xtime(x)
<1>1. \A a, b : Java!Xor(a, b) = Xor(a, b)
  BY DEF Java!Xor, Xor
<1>2. ASSUME NEW x \in Byte PROVE Java!xtime(x) = xtime(x)
  <2> DEFINE res == {k + 1 : k \in x}
             shifted == {k + 1 : k \in x \ {7}}
  <2>1. Bit = {0, 1, 2, 3, 4, 5, 6, 7} /\ x \in SUBSET (0..7)
    BY DEF Bit, Byte
  <2>2. \A k \in 0..7 : k \in res <=> k \in shifted
    <3>1. \A k \in x : k + 1 \in 0..7 => k # 7
      OBVIOUS
    <3> QED BY <3>1
  <2>3. \A k \in shifted : k \in 0..7
    BY <2>1
  <2> HIDE DEF res, shifted
  <2>4. Java!xtime(x) = (IF 7 \in x THEN Xor(res, {0, 1, 3, 4}) ELSE res) \cap (0..7)
    BY <1>1 DEF Java!xtime, res
  <2>5. xtime(x) = IF 7 \in x THEN Xor(shifted, {0, 1, 3, 4}) ELSE shifted
    BY DEF xtime, shifted
  <2>6. \A k \in {0, 1, 3, 4} : k \in 0..7
    OBVIOUS
  <2>7. CASE 7 \in x
    BY <2>2, <2>3, <2>4, <2>5, <2>6, <2>7 DEF Xor
  <2>8. CASE 7 \notin x
    BY <2>2, <2>3, <2>4, <2>5, <2>8
  <2> QED BY <2>7, <2>8
<1> QED BY <1>1, <1>2

\* The products by the factors of mixColumns.
LEMMA JavaProducts ==
  ASSUME NEW x \in Byte
  PROVE  /\ Java!mul(x, 1) = x /\ Java!mul(x, 2) = gmul({1}, x)
         /\ Java!mul(x, 3) = gmul({0, 1}, x)
BY JavaBytes, TimesTwoThree DEF Java!mul

\* The table of the powers of x.
LEMMA JavaRcon ==
  ASSUME NEW e \in 1..10 PROVE Java!Bits(Java!RCON[e]) = rcon[e]
<1> DEFINE W == <<1, 2, 4, 8, 16, 32, 64, 128>>
           In(n, k) == (n \div W[k + 1]) % 2 = 1
<1>1. \A n : \A k \in 0..7 : k \in Java!Bits(n) <=> In(n, k)
  BY DEF Java!Bits
<1>2. \A n : Java!Bits(n) \in Byte
  BY DEF Java!Bits, Byte, Bit
<1>3. Bit = {0, 1, 2, 3, 4, 5, 6, 7} /\ Bit = 0..7
  BY DEF Bit
<1>4. ASSUME NEW n, NEW c \in Byte, \A k \in {0, 1, 2, 3, 4, 5, 6, 7} : In(n, k) <=> k \in c
      PROVE  Java!Bits(n) = c
  BY <1>1, <1>2, <1>3, <1>4, SameBits
<1>5. \A k \in {0, 1, 2, 3, 4, 5, 6, 7} : In(1, k) <=> k \in {0}
  OBVIOUS
<1>6. \A k \in {0, 1, 2, 3, 4, 5, 6, 7} : In(2, k) <=> k \in {1}
  OBVIOUS
<1>7. \A k \in {0, 1, 2, 3, 4, 5, 6, 7} : In(4, k) <=> k \in {2}
  OBVIOUS
<1>8. \A k \in {0, 1, 2, 3, 4, 5, 6, 7} : In(8, k) <=> k \in {3}
  OBVIOUS
<1>9. \A k \in {0, 1, 2, 3, 4, 5, 6, 7} : In(16, k) <=> k \in {4}
  OBVIOUS
<1>10. \A k \in {0, 1, 2, 3, 4, 5, 6, 7} : In(32, k) <=> k \in {5}
  OBVIOUS
<1>11. \A k \in {0, 1, 2, 3, 4, 5, 6, 7} : In(64, k) <=> k \in {6}
  OBVIOUS
<1>12. \A k \in {0, 1, 2, 3, 4, 5, 6, 7} : In(128, k) <=> k \in {7}
  OBVIOUS
<1>13. \A k \in {0, 1, 2, 3, 4, 5, 6, 7} : In(27, k) <=> k \in {0, 1, 3, 4}
  OBVIOUS
<1>14. \A k \in {0, 1, 2, 3, 4, 5, 6, 7} : In(54, k) <=> k \in {1, 2, 4, 5}
  OBVIOUS
<1>15. /\ {0} \in Byte /\ {1} \in Byte /\ {2} \in Byte /\ {3} \in Byte /\ {4} \in Byte /\ {5} \in Byte
       /\ {6} \in Byte /\ {7} \in Byte /\ {0, 1, 3, 4} \in Byte /\ {1, 2, 4, 5} \in Byte
  BY <1>3 DEF Byte
<1> HIDE DEF In
<1>16. /\ Java!Bits(1) = {0} /\ Java!Bits(2) = {1} /\ Java!Bits(4) = {2} /\ Java!Bits(8) = {3}
       /\ Java!Bits(16) = {4} /\ Java!Bits(32) = {5} /\ Java!Bits(64) = {6} /\ Java!Bits(128) = {7}
       /\ Java!Bits(27) = {0, 1, 3, 4} /\ Java!Bits(54) = {1, 2, 4, 5}
  BY <1>4, <1>5, <1>6, <1>7, <1>8, <1>9, <1>10, <1>11, <1>12, <1>13, <1>14, <1>15
<1>17. /\ Java!RCON[1] = 1 /\ Java!RCON[2] = 2 /\ Java!RCON[3] = 4 /\ Java!RCON[4] = 8
       /\ Java!RCON[5] = 16 /\ Java!RCON[6] = 32 /\ Java!RCON[7] = 64 /\ Java!RCON[8] = 128
       /\ Java!RCON[9] = 27 /\ Java!RCON[10] = 54
  BY DEF Java!RCON
<1>18. /\ rcon[1] = {0} /\ rcon[2] = {1} /\ rcon[3] = {2} /\ rcon[4] = {3} /\ rcon[5] = {4}
       /\ rcon[6] = {5} /\ rcon[7] = {6} /\ rcon[8] = {7} /\ rcon[9] = {0, 1, 3, 4}
       /\ rcon[10] = {1, 2, 4, 5}
  BY DEF rcon
<1>19. \A k \in {1, 2, 3, 4, 5, 6, 7, 8, 9, 10} : Java!Bits(Java!RCON[k]) = rcon[k]
  <2>1. /\ Java!Bits(Java!RCON[1]) = rcon[1] /\ Java!Bits(Java!RCON[2]) = rcon[2]
        /\ Java!Bits(Java!RCON[3]) = rcon[3] /\ Java!Bits(Java!RCON[4]) = rcon[4]
        /\ Java!Bits(Java!RCON[5]) = rcon[5] /\ Java!Bits(Java!RCON[6]) = rcon[6]
        /\ Java!Bits(Java!RCON[7]) = rcon[7] /\ Java!Bits(Java!RCON[8]) = rcon[8]
        /\ Java!Bits(Java!RCON[9]) = rcon[9] /\ Java!Bits(Java!RCON[10]) = rcon[10]
    BY <1>16, <1>17, <1>18, Zenon
  <2> QED BY <2>1
<1>20. e \in {1, 2, 3, 4, 5, 6, 7, 8, 9, 10}
  OBVIOUS
<1> QED BY <1>19, <1>20

\* subBytes and shiftRows.
LEMMA JavaMoved ==
  ASSUME SBox = Java!SBOX, NEW b \in Block
  PROVE  Java!shiftRows(Java!subBytes(JBlock(b))) = JBlock(Moved(b))
<1> DEFINE s == Java!subBytes(JBlock(b))
           t == sub_Bytes(b)
<1>1. \A k \in 1..16 : s[k] = t[k - 1]
  BY DEF Java!subBytes, JBlock, sub_Bytes
<1>2. \A k \in 0..15 : Moved(b)[k] = t[(k + 4 * (k % 4)) % 16]
  BY DEF Moved, shift_Rows
<1> HIDE DEF s, t
<1>3. /\ Moved(b)[0] = t[0] /\ Moved(b)[1] = t[5] /\ Moved(b)[2] = t[10] /\ Moved(b)[3] = t[15]
      /\ Moved(b)[4] = t[4] /\ Moved(b)[5] = t[9] /\ Moved(b)[6] = t[14] /\ Moved(b)[7] = t[3]
      /\ Moved(b)[8] = t[8] /\ Moved(b)[9] = t[13] /\ Moved(b)[10] = t[2] /\ Moved(b)[11] = t[7]
      /\ Moved(b)[12] = t[12] /\ Moved(b)[13] = t[1] /\ Moved(b)[14] = t[6] /\ Moved(b)[15] = t[11]
  BY <1>2
<1>4. /\ s[1] = t[0] /\ s[2] = t[1] /\ s[3] = t[2] /\ s[4] = t[3] /\ s[5] = t[4] /\ s[6] = t[5]
      /\ s[7] = t[6] /\ s[8] = t[7] /\ s[9] = t[8] /\ s[10] = t[9] /\ s[11] = t[10] /\ s[12] = t[11]
      /\ s[13] = t[12] /\ s[14] = t[13] /\ s[15] = t[14] /\ s[16] = t[15]
  BY <1>1
<1> DEFINE u == JBlock(Moved(b))
<1>5. /\ u[1] = t[0] /\ u[2] = t[5] /\ u[3] = t[10] /\ u[4] = t[15]
      /\ u[5] = t[4] /\ u[6] = t[9] /\ u[7] = t[14] /\ u[8] = t[3]
      /\ u[9] = t[8] /\ u[10] = t[13] /\ u[11] = t[2] /\ u[12] = t[7]
      /\ u[13] = t[12] /\ u[14] = t[1] /\ u[15] = t[6] /\ u[16] = t[11]
  BY <1>3 DEF JBlock
<1>6. u = [k \in 1..16 |-> u[k]]
  BY DEF JBlock
<1> HIDE DEF u
<1>7. u = <<u[1], u[2], u[3], u[4], u[5], u[6], u[7], u[8], u[9], u[10], u[11], u[12], u[13],
            u[14], u[15], u[16]>>
  BY <1>6
<1>8. Java!shiftRows(s) = <<s[1], s[6], s[11], s[16], s[5], s[10], s[15], s[4],
                            s[9], s[14], s[3], s[8], s[13], s[2], s[7], s[12]>>
  BY DEF Java!shiftRows
<1>9. Java!shiftRows(s) = u
  BY <1>4, <1>5, <1>7, <1>8
<1> QED BY <1>9 DEF s, u

\* addRoundKey.
LEMMA JavaAdded ==
  ASSUME NEW b, NEW q \in Stage, NEW w, \A c \in 1..KeyWords : w[c] = JWord(roundKeys[c])
  PROVE  Java!addRoundKey(JBlock(b), w, q) = JBlock(add_Round(b, RoundKey(q)))
<1>1. ASSUME NEW k \in 1..16
      PROVE  Java!addRoundKey(JBlock(b), w, q)[k] = JBlock(add_Round(b, RoundKey(q)))[k]
  <2> DEFINE c == (k - 1) \div 4  r == (k - 1) % 4
  <2>1. k - 1 \in 0..15 /\ c \in 0..3 /\ r \in 0..3
    OBVIOUS
  <2>2. RoundKey(q)[k - 1] = roundKeys[4 * q + c + 1][r]
    BY <2>1 DEF RoundKey
  <2>3. JBlock(add_Round(b, RoundKey(q)))[k] = Xor(b[k - 1], RoundKey(q)[k - 1])
    BY <2>1 DEF JBlock, add_Round
  <2>4. Java!addRoundKey(JBlock(b), w, q)[k] = Xor(b[k - 1], w[4 * q + c + 1][r + 1])
    BY JavaBytes DEF Java!addRoundKey, JBlock
  <2> HIDE DEF c, r
  <2>5. 4 * q + c + 1 \in 1..KeyWords
    BY <2>1 DEF Stage, AES_ROUNDS, KeyWords
  <2>6. w[4 * q + c + 1] = JWord(roundKeys[4 * q + c + 1])
    BY <2>5
  <2>7. r + 1 \in 1..4 /\ (r + 1) - 1 = r
    BY <2>1
  <2>8. w[4 * q + c + 1][r + 1] = roundKeys[4 * q + c + 1][r]
    BY <2>6, <2>7 DEF JWord
  <2> QED BY <2>2, <2>3, <2>4, <2>8
<1>2. Java!addRoundKey(JBlock(b), w, q) = [k \in 1..16 |-> Java!addRoundKey(JBlock(b), w, q)[k]]
  BY DEF Java!addRoundKey
<1>3. JBlock(add_Round(b, RoundKey(q))) = [k \in 1..16 |-> JBlock(add_Round(b, RoundKey(q)))[k]]
  BY DEF JBlock
<1> QED BY <1>1, <1>2, <1>3

\* mixColumns.
LEMMA JavaMixed ==
  ASSUME NEW b \in Block PROVE Java!mixColumns(JBlock(b)) = JBlock(mix_Column(b))
<1> DEFINE s == JBlock(b)
           factor == <<2, 3, 1, 1>>
<1>1. ASSUME NEW k \in 0..15 PROVE Java!mixColumns(s)[k + 1] = mix_Column(b)[k]
  <2> DEFINE c == k \div 4
             q == k % 4
             m(r) == ((16 + r - (k + 1)) % 4) + 1
             at(e) == b[4 * c + e]
             product(r) == Java!mul(at(r - 1), factor[m(r)])
  <2>1. c \in 0..3 /\ q \in {0, 1, 2, 3} /\ k = 4 * c + q /\ ((k + 1) - 1) \div 4 = c
    OBVIOUS
  <2>2. Java!mixColumns(s)[k + 1] = Xor(Xor(product(1), product(2)), Xor(product(3), product(4)))
    <3> DEFINE p(r) == Java!mul(s[4 * (((k + 1) - 1) \div 4) + r], factor[m(r)])
    <3>1. Java!mixColumns(s)[k + 1] = Xor(Xor(p(1), p(2)), Xor(p(3), p(4)))
      <4>1. k + 1 \in 1..16
        OBVIOUS
      <4> HIDE DEF s
      <4> QED BY <4>1, JavaBytes DEF Java!mixColumns
    <3>2. \A r \in {1, 2, 3, 4} : s[4 * (((k + 1) - 1) \div 4) + r] = at(r - 1)
      <4> TAKE r \in {1, 2, 3, 4}
      <4>1. 4 * c + r \in 1..16 /\ (4 * c + r) - 1 = 4 * c + (r - 1)
        OBVIOUS
      <4> HIDE DEF c
      <4>2. s[4 * c + r] = b[4 * c + (r - 1)]
        BY <4>1 DEF JBlock
      <4> QED BY <2>1, <4>2
    <3> HIDE DEF at, s, factor, m
    <3>3. p(1) = product(1) /\ p(2) = product(2) /\ p(3) = product(3) /\ p(4) = product(4)
      BY <3>2
    <3> QED BY <3>1, <3>3
  <2>3. mix_Column(b)[k] = Xor4(gmul({1}, At(b, k, 0)), gmul({0, 1}, At(b, k, 1)), At(b, k, 2), At(b, k, 3))
    BY DEF mix_Column
  <2>4. \A e \in {0, 1, 2, 3} : At(b, k, e) = at((q + e) % 4) /\ at(e) \in Byte
    <3> TAKE e \in {0, 1, 2, 3}
    <3>1. (k + e) % 4 = (q + e) % 4 /\ 4 * c + e \in 0..15
      OBVIOUS
    <3> QED BY <3>1 DEF At, Block
  <2> DEFINE x0 == at(0)  x1 == at(1)  x2 == at(2)  x3 == at(3)
  <2>5. x0 \in Byte /\ x1 \in Byte /\ x2 \in Byte /\ x3 \in Byte
    BY <2>4
  <2>6. factor[1] = 2 /\ factor[2] = 3 /\ factor[3] = 1 /\ factor[4] = 1
    OBVIOUS
  <2>7. \A x \in Byte : /\ Java!mul(x, 1) = x /\ Java!mul(x, 2) = gmul({1}, x)
                        /\ Java!mul(x, 3) = gmul({0, 1}, x)
    BY JavaProducts
  <2>8. \A w, x, y, z : /\ Xor(Xor(w, x), Xor(y, z)) = Xor4(w, x, y, z)
                        /\ Xor4(w, x, y, z) = Xor4(x, y, z, w)
    <3> TAKE w, x, y, z
    <3>1. \A e : /\ e \in Xor(Xor(w, x), Xor(y, z)) <=> ~(~(e \in w <=> e \in x) <=> ~(e \in y <=> e \in z))
                 /\ e \in Xor4(w, x, y, z) <=> ~(e \in w <=> ~(e \in x <=> ~(e \in y <=> e \in z)))
                 /\ e \in Xor4(x, y, z, w) <=> ~(e \in x <=> ~(e \in y <=> ~(e \in z <=> e \in w)))
      BY XorIn DEF Xor4
    <3> QED BY <3>1
  <2>9. 1 - 1 = 0 /\ 2 - 1 = 1 /\ 3 - 1 = 2 /\ 4 - 1 = 3
    OBVIOUS
  <2>10. ASSUME NEW f1, NEW f2, NEW f3, NEW f4,
                factor[m(1)] = f1, factor[m(2)] = f2, factor[m(3)] = f3, factor[m(4)] = f4
         PROVE  Java!mixColumns(s)[k + 1] = Xor4(Java!mul(x0, f1), Java!mul(x1, f2), Java!mul(x2, f3), Java!mul(x3, f4))
    <3> HIDE DEF at, s, factor, m
    <3>1. /\ product(1) = Java!mul(x0, f1) /\ product(2) = Java!mul(x1, f2)
          /\ product(3) = Java!mul(x2, f3) /\ product(4) = Java!mul(x3, f4)
      BY <2>9, <2>10
    <3> HIDE DEF product
    <3> QED BY <2>2, <2>8, <3>1
  <2>11. m(1) \in 1..4 /\ m(2) \in 1..4 /\ m(3) \in 1..4 /\ m(4) \in 1..4
    OBVIOUS
  <2>12. CASE q = 0
    <3>1. m(1) = 1 /\ m(2) = 2 /\ m(3) = 3 /\ m(4) = 4
      BY <2>12
    <3>2. (0 + 0) % 4 = 0 /\ (0 + 1) % 4 = 1 /\ (0 + 2) % 4 = 2 /\ (0 + 3) % 4 = 3
      OBVIOUS
    <3> HIDE DEF m, at, factor
    <3>3. At(b, k, 0) = x0 /\ At(b, k, 1) = x1 /\ At(b, k, 2) = x2 /\ At(b, k, 3) = x3
      BY <2>4, <2>12, <3>2
    <3> HIDE DEF x0, x1, x2, x3
    <3>4. Java!mixColumns(s)[k + 1] = Xor4(Java!mul(x0, 2), Java!mul(x1, 3), Java!mul(x2, 1), Java!mul(x3, 1))
      BY <2>6, <2>10, <3>1
    <3> QED BY <2>3, <2>5, <2>7, <2>8, <3>3, <3>4
  <2>13. CASE q = 1
    <3>1. m(1) = 4 /\ m(2) = 1 /\ m(3) = 2 /\ m(4) = 3
      BY <2>13
    <3>2. (1 + 0) % 4 = 1 /\ (1 + 1) % 4 = 2 /\ (1 + 2) % 4 = 3 /\ (1 + 3) % 4 = 0
      OBVIOUS
    <3> HIDE DEF m, at, factor
    <3>3. At(b, k, 0) = x1 /\ At(b, k, 1) = x2 /\ At(b, k, 2) = x3 /\ At(b, k, 3) = x0
      BY <2>4, <2>13, <3>2
    <3> HIDE DEF x0, x1, x2, x3
    <3>4. Java!mixColumns(s)[k + 1] = Xor4(Java!mul(x0, 1), Java!mul(x1, 2), Java!mul(x2, 3), Java!mul(x3, 1))
      BY <2>6, <2>10, <3>1
    <3> QED BY <2>3, <2>5, <2>7, <2>8, <3>3, <3>4
  <2>14. CASE q = 2
    <3>1. m(1) = 3 /\ m(2) = 4 /\ m(3) = 1 /\ m(4) = 2
      BY <2>14
    <3>2. (2 + 0) % 4 = 2 /\ (2 + 1) % 4 = 3 /\ (2 + 2) % 4 = 0 /\ (2 + 3) % 4 = 1
      OBVIOUS
    <3> HIDE DEF m, at, factor
    <3>3. At(b, k, 0) = x2 /\ At(b, k, 1) = x3 /\ At(b, k, 2) = x0 /\ At(b, k, 3) = x1
      BY <2>4, <2>14, <3>2
    <3> HIDE DEF x0, x1, x2, x3
    <3>4. Java!mixColumns(s)[k + 1] = Xor4(Java!mul(x0, 1), Java!mul(x1, 1), Java!mul(x2, 2), Java!mul(x3, 3))
      BY <2>6, <2>10, <3>1
    <3> QED BY <2>3, <2>5, <2>7, <2>8, <3>3, <3>4
  <2>15. CASE q = 3
    <3>1. m(1) = 2 /\ m(2) = 3 /\ m(3) = 4 /\ m(4) = 1
      BY <2>15
    <3>2. (3 + 0) % 4 = 3 /\ (3 + 1) % 4 = 0 /\ (3 + 2) % 4 = 1 /\ (3 + 3) % 4 = 2
      OBVIOUS
    <3> HIDE DEF m, at, factor
    <3>3. At(b, k, 0) = x3 /\ At(b, k, 1) = x0 /\ At(b, k, 2) = x1 /\ At(b, k, 3) = x2
      BY <2>4, <2>15, <3>2
    <3> HIDE DEF x0, x1, x2, x3
    <3>4. Java!mixColumns(s)[k + 1] = Xor4(Java!mul(x0, 3), Java!mul(x1, 1), Java!mul(x2, 1), Java!mul(x3, 2))
      BY <2>6, <2>10, <3>1
    <3> QED BY <2>3, <2>5, <2>7, <2>8, <3>3, <3>4
  <2> QED BY <2>1, <2>12, <2>13, <2>14, <2>15
<1>2. \A k \in 1..16 : Java!mixColumns(s)[k] = JBlock(mix_Column(b))[k]
  <2> TAKE k \in 1..16
  <2>1. k - 1 \in 0..15 /\ (k - 1) + 1 = k
    OBVIOUS
  <2> HIDE DEF s
  <2>2. Java!mixColumns(s)[k] = mix_Column(b)[k - 1]
    BY <1>1, <2>1
  <2> QED BY <2>2 DEF JBlock
<1>3. Java!mixColumns(s) = [k \in 1..16 |-> Java!mixColumns(s)[k]]
  BY DEF Java!mixColumns
<1>4. JBlock(mix_Column(b)) = [k \in 1..16 |-> JBlock(mix_Column(b))[k]]
  BY DEF JBlock
<1> HIDE DEF s
<1>5. Java!mixColumns(s) = JBlock(mix_Column(b))
  BY <1>2, <1>3, <1>4
<1> QED BY <1>5 DEF s

----------------------------------------------------------------------------
(* The Java version: its loops. *)

\* The word that keyExpansion adds to the one of 16 bytes before.
LEMMA JavaTemp ==
  ASSUME SBox = Java!SBOX, NEW w \in Word, NEW n \in 4..(KeyWords - 1), NEW t, t = JWord(w)
  PROVE  (IF n % 4 = 0
          THEN <<Java!Xor(Java!SBOX[t[2]], Java!Bits(Java!RCON[n \div 4])), Java!SBOX[t[3]],
                 Java!SBOX[t[4]], Java!SBOX[t[1]]>>
          ELSE t) = JWord(Temp(w, n))
<1>1. t[1] = w[0] /\ t[2] = w[1] /\ t[3] = w[2] /\ t[4] = w[3]
  BY DEF JWord
<1>2. CASE n % 4 # 0
  BY <1>2 DEF Temp
<1>3. CASE n % 4 = 0
  <2> DEFINE x == subWord(rotWord(w))
             y == [x EXCEPT ![0] = Xor(@, rcon[n \div 4])]
  <2>1. Temp(w, n) = y
    BY <1>3 DEF Temp
  <2>2. n \div 4 \in 1..10
    BY <1>3 DEF KeyWords
  <2>3. Java!Bits(Java!RCON[n \div 4]) = rcon[n \div 4]
    BY <2>2, JavaRcon
  <2>4. \A k \in 0..3 : x[k] = SBox[w[(k + 1) % 4]]
    BY DEF subWord, rotWord
  <2>5. x[0] = SBox[w[1]] /\ x[1] = SBox[w[2]] /\ x[2] = SBox[w[3]] /\ x[3] = SBox[w[0]]
    BY <2>4
  <2>6. x = [k \in 0..3 |-> x[k]]
    BY DEF subWord
  <2> HIDE DEF x
  <2>7. y[0] = Xor(x[0], rcon[n \div 4]) /\ y[1] = x[1] /\ y[2] = x[2] /\ y[3] = x[3]
    BY <2>6
  <2> HIDE DEF y
  <2> DEFINE z == JWord(y)
  <2>8. z[1] = y[0] /\ z[2] = y[1] /\ z[3] = y[2] /\ z[4] = y[3] /\ z = [k \in 1..4 |-> z[k]]
    BY DEF JWord
  <2> HIDE DEF z
  <2>9. z = <<z[1], z[2], z[3], z[4]>>
    BY <2>8
  <2>10. Java!Xor(Java!SBOX[t[2]], Java!Bits(Java!RCON[n \div 4])) = z[1]
    BY <1>1, <2>3, <2>5, <2>7, <2>8, JavaBytes
  <2>11. Java!SBOX[t[3]] = z[2] /\ Java!SBOX[t[4]] = z[3] /\ Java!SBOX[t[1]] = z[4]
    BY <1>1, <2>5, <2>7, <2>8
  <2> QED BY <1>3, <2>1, <2>9, <2>10, <2>11 DEF z
<1> QED BY <1>2, <1>3

\* keyExpansion writes the words that key_Expansion writes.
LEMMA JavaKey ==
  ASSUME SBox = Java!SBOX, Expanded, KeyCopied, KeyGrown
  PROVE  \A c \in 1..KeyWords : Java!keyExpansion(JBlock(key))[c] = JWord(roundKeys[c])
<1> DEFINE key1 == JBlock(key)
           Core(t, n) ==
             <<Java!Xor(Java!SBOX[t[2]], Java!Bits(Java!RCON[n \div 4])), Java!SBOX[t[3]],
               Java!SBOX[t[4]], Java!SBOX[t[1]]>>
           Grown(w, n) ==
             LET back == w[n - 3]
                 temp == IF n % 4 = 0 THEN Core(w[n], n) ELSE w[n]
             IN  Append(w, [k \in 1..4 |-> Java!Xor(back[k], temp[k])])
           first == [c \in 1..4 |-> SubSeq(key1, 4 * c - 3, 4 * c)]
           P(u) == u = [pass \in 0..40 |-> IF pass = 0 THEN first ELSE Grown(u[pass - 1], pass + 3)]
           word(c) == JWord(roundKeys[c])
           words(n) == [c \in 1..n |-> word(c)]
           h == [pass \in 0..40 |-> words(pass + 4)]
<1>1. Java!keyExpansion(key1) = (CHOOSE u : P(u))[40]
  BY DEF Java!keyExpansion
<1>2. first = words(4)
  <2>1. ASSUME NEW c \in 1..4 PROVE SubSeq(key1, 4 * c - 3, 4 * c) = word(c)
    <3> DEFINE m == 4 * c - 3
               s == SubSeq(key1, m, 4 * c)
    <3>1. m \in 1..13 /\ 4 * c = m + 3 /\ m \in Int /\ 4 * c \in Int
      OBVIOUS
    <3> DEFINE S == {key1[e] : e \in 1..16}
    <3>2. \A e \in m..4 * c : key1[e] \in S
      <4>1. \A e \in m..4 * c : e \in 1..16
        BY <3>1
      <4> HIDE DEF key1
      <4> QED BY <4>1
    <3> HIDE DEF m, S
    <3>3. s \in Seq(S) /\ Len(s) = 4 /\ \A e \in 1..4 : s[e] = key1[m + e - 1]
      <4>1. m <= 4 * c /\ 4 * c - m + 1 = 4
        BY <3>1
      <4> HIDE DEF key1
      <4> QED BY <3>1, <3>2, <4>1, SubSeqProperties
    <3>4. s = [e \in 1..4 |-> s[e]]
      <4> HIDE DEF s
      <4> QED BY <3>3
    <3>5. ASSUME NEW e \in 1..4 PROVE s[e] = word(c)[e]
      <4> DEFINE k == 4 * (c - 1) + (e - 1)
      <4>1. k \in 0..15 /\ k \div 4 = c - 1 /\ k % 4 = e - 1 /\ (c - 1) + 1 = c /\ m + e - 1 = k + 1
        BY DEF m
      <4> HIDE DEF k, s
      <4>2. key1[m + e - 1] = key[k]
        <5>1. k + 1 \in 1..16 /\ (k + 1) - 1 = k
          BY <4>1
        <5> QED BY <4>1, <5>1 DEF JBlock
      <4>3. roundKeys[c][e - 1] = key[k]
        BY <4>1 DEF KeyCopied
      <4> QED BY <3>3, <4>2, <4>3 DEF JWord
    <3>6. word(c) = [e \in 1..4 |-> word(c)[e]]
      BY DEF JWord
    <3> HIDE DEF s, word
    <3>7. s = word(c)
      BY <3>4, <3>5, <3>6
    <3> QED BY <3>7 DEF s, m
  <2> HIDE DEF key1, word
  <2> QED BY <2>1
<1>3. ASSUME NEW n \in 4..(KeyWords - 1) PROVE Grown(words(n), n) = words(n + 1)
  <2> DEFINE w == words(n)
             v == [k \in 1..4 |-> Java!Xor(w[n - 3][k], (IF n % 4 = 0 THEN Core(w[n], n) ELSE w[n])[k])]
  <2>1. Grown(w, n) = Append(w, v)
    BY DEF Grown
  <2>2. n \in 1..n /\ n - 3 \in 1..n /\ n + 1 \in 1..KeyWords /\ n \in 1..KeyWords /\ n \in 4..(Len(roundKeys) - 1)
    BY DEF Expanded, KeyWords
  <2>3. w[n] = word(n) /\ w[n - 3] = word(n - 3)
    BY <2>2
  <2>4. roundKeys[n] \in Word
    BY <2>2 DEF Expanded
  <2>5. (IF n % 4 = 0 THEN Core(w[n], n) ELSE w[n]) = JWord(Temp(roundKeys[n], n))
    <3> DEFINE t == w[n]
    <3>1. t = JWord(roundKeys[n])
      BY <2>3
    <3> HIDE DEF w, t
    <3>2. (IF n % 4 = 0 THEN Core(t, n) ELSE t) = JWord(Temp(roundKeys[n], n))
      BY <2>4, <3>1, JavaTemp
    <3> QED BY <3>2 DEF t
  <2>6. v = word(n + 1)
    <3> DEFINE x == JWord(Temp(roundKeys[n], n))
    <3>1. v = [k \in 1..4 |-> Xor(word(n - 3)[k], x[k])]
      <4> HIDE DEF Core, w, word
      <4>1. v = [k \in 1..4 |-> Java!Xor(word(n - 3)[k], x[k])]
        BY <2>3, <2>5
      <4> QED BY <4>1, JavaBytes
    <3>2. roundKeys[n + 1] = [k \in 0..3 |-> Xor(roundKeys[n - 3][k], Temp(roundKeys[n], n)[k])]
      BY <2>2 DEF KeyGrown
    <3>3. \A k \in 1..4 : word(n + 1)[k] = Xor(word(n - 3)[k], x[k])
      <4> TAKE k \in 1..4
      <4>1. k - 1 \in 0..3
        OBVIOUS
      <4>2. word(n + 1)[k] = roundKeys[n + 1][k - 1] /\ word(n - 3)[k] = roundKeys[n - 3][k - 1]
            /\ x[k] = Temp(roundKeys[n], n)[k - 1]
        BY DEF JWord
      <4> QED BY <3>2, <4>1, <4>2
    <3>4. word(n + 1) = [k \in 1..4 |-> word(n + 1)[k]]
      BY DEF JWord
    <3> HIDE DEF v, word, x
    <3> QED BY <3>1, <3>3, <3>4
  <2>7. Append(w, word(n + 1)) = words(n + 1)
    <3> DEFINE W == {word(c) : c \in 1..n + 1}
    <3> HIDE DEF word
    <3>1. w \in Seq(W) /\ Len(w) = n /\ \A c \in 1..n : w[c] = word(c)
      <4>1. n \in Nat /\ w \in [1..n -> W]
        BY <2>2
      <4> QED BY <4>1
    <3>2. word(n + 1) \in W
      BY <2>2
    <3> HIDE DEF w, W
    <3> DEFINE a == Append(w, word(n + 1))
    <3>3. a \in Seq(W) /\ Len(a) = n + 1 /\ a[n + 1] = word(n + 1) /\ \A c \in 1..n : a[c] = w[c]
      BY <3>1, <3>2
    <3> HIDE DEF a
    <3>4. a = [c \in 1..n + 1 |-> a[c]]
      BY <3>3
    <3>5. \A c \in 1..n + 1 : c # n + 1 => c \in 1..n
      BY <2>2
    <3>6. \A c \in 1..n + 1 : a[c] = word(c)
      BY <3>1, <3>3, <3>5
    <3>7. a = words(n + 1)
      BY <3>4, <3>6
    <3> QED BY <3>7 DEF a
  <2> HIDE DEF Grown, v, word
  <2> QED BY <2>1, <2>6, <2>7
<1> HIDE DEF Grown, first, words
<1>4. \A pass \in 0..40 : h[pass] = words(pass + 4)
  OBVIOUS
<1>5. ASSUME NEW pass \in 1..40 PROVE h[pass] = Grown(h[pass - 1], pass + 3)
  <2>1. pass \in 0..40 /\ pass - 1 \in 0..40 /\ (pass - 1) + 4 = pass + 3 /\ pass + 4 = (pass + 3) + 1
        /\ pass + 3 \in 4..(KeyWords - 1)
    BY DEF KeyWords
  <2> HIDE DEF h
  <2> QED BY <1>3, <1>4, <2>1
<1>6. P(h)
  <2>1. \A pass \in 0..40 : h[pass] = IF pass = 0 THEN first ELSE Grown(h[pass - 1], pass + 3)
    <3> TAKE pass \in 0..40
    <3>1. pass # 0 => pass \in 1..40
      OBVIOUS
    <3>2. h[0] = first
      <4>1. 0 \in 0..40 /\ 0 + 4 = 4
        OBVIOUS
      <4> HIDE DEF h
      <4> QED BY <1>2, <1>4, <4>1
    <3> HIDE DEF h
    <3> QED BY <1>5, <3>1, <3>2
  <2>2. h = [pass \in 0..40 |-> h[pass]]
    OBVIOUS
  <2> HIDE DEF h
  <2> QED BY <2>1, <2>2
<1> DEFINE g == CHOOSE u : P(u)
<1>7. P(g)
  <2> HIDE DEF P, h
  <2> QED BY <1>6
<1> HIDE DEF g, h
<1>8. \A pass \in 0..40 : g[pass] = h[pass]
  <2> DEFINE T == {pass \in 0..40 : g[pass] = h[pass]}
  <2>1. \A pass \in 0..40 : /\ g[pass] = IF pass = 0 THEN first ELSE Grown(g[pass - 1], pass + 3)
                            /\ h[pass] = IF pass = 0 THEN first ELSE Grown(h[pass - 1], pass + 3)
    BY <1>6, <1>7, Zenon
  <2>2. 0 \in T
    BY <2>1
  <2>3. ASSUME NEW pass \in 0..40 - 1, pass \in T PROVE pass + 1 \in T
    <3>1. pass + 1 \in 0..40 /\ pass + 1 # 0 /\ (pass + 1) - 1 = pass
      OBVIOUS
    <3> QED BY <2>1, <2>3, <3>1
  <2>4. \A pass \in 0..40 : pass \in T
    <3> HIDE DEF T
    <3> QED BY <2>2, <2>3, InductionTo
  <2> QED BY <2>4
<1>9. Java!keyExpansion(key1) = words(KeyWords)
  <2>1. 40 \in 0..40 /\ 40 + 4 = KeyWords
    BY DEF KeyWords
  <2> QED BY <1>1, <1>4, <1>8, <2>1 DEF g
<1> QED BY <1>9 DEF words, key1

\* encryptBlock takes a block through the rounds of aes_Encrypt.
LEMMA JavaRounds ==
  ASSUME SBox = Java!SBOX, IInv, Expanded, pc \notin {"prepare", "failed"},
         NEW n \in Indices, Chained(n, AES_ROUNDS + 1),
         NEW w, \A c \in 1..KeyWords : w[c] = JWord(roundKeys[c])
  PROVE  Java!encryptBlock(JBlock(Padded(message)[n]), w) = JBlock(stages[n][11])
<1> DEFINE block == JBlock(Padded(message)[n])
           Moved1(s) == Java!shiftRows(Java!subBytes(s))
           Inner(s, q) == Java!addRoundKey(Java!mixColumns(Moved1(s)), w, q)
           first == Java!addRoundKey(block, w, 0)
           P(u) == u = [q \in 0..9 |-> IF q = 0 THEN first ELSE Inner(u[q - 1], q)]
           h == [q \in 0..9 |-> JBlock(stages[n][q + 1])]
<1>1. Java!encryptBlock(block, w) = Java!addRoundKey(Moved1((CHOOSE u : P(u))[9]), w, 10)
  BY DEF Java!encryptBlock
<1>2. ASSUME NEW q \in 0..10
      PROVE  stages[n][q + 1] = Encrypted(Before(n, q), q) /\ Before(n, q) \in Block /\ q \in Stage
  <2>1. q \in Stage /\ q \in 0..Len(stages[n]) /\ q \in 0..((AES_ROUNDS + 1) - 1)
    BY DEF Stage, Chained, AES_ROUNDS
  <2> QED BY <2>1, BeforeType DEF Chained
<1>3. first = JBlock(stages[n][1])
  <2>1. 0 \in 0..10 /\ 0 + 1 = 1 /\ 0 # AES_ROUNDS
    BY DEF AES_ROUNDS
  <2>2. stages[n][1] = add_Round(Padded(message)[n], RoundKey(0)) /\ 0 \in Stage
    BY <1>2, <2>1 DEF Before, Encrypted
  <2> QED BY <2>2, JavaAdded
<1>4. ASSUME NEW q \in 1..9 PROVE Inner(JBlock(stages[n][q]), q) = JBlock(stages[n][q + 1])
  <2> DEFINE b == stages[n][q]
  <2>1. q \in 0..10 /\ q # 0 /\ q # AES_ROUNDS
    BY DEF AES_ROUNDS
  <2>2. Before(n, q) = b
    BY <2>1 DEF Before
  <2> HIDE DEF b
  <2>3. b \in Block /\ q \in Stage /\ stages[n][q + 1] = add_Round(mix_Column(Moved(b)), RoundKey(q))
    BY <1>2, <2>1, <2>2 DEF Encrypted, Moved
  <2>4. Moved1(JBlock(b)) = JBlock(Moved(b)) /\ Moved(b) \in Block
    BY <2>3, JavaMoved, MovedBack
  <2>5. Java!mixColumns(JBlock(Moved(b))) = JBlock(mix_Column(Moved(b)))
    BY <2>4, JavaMixed
  <2>6. Java!addRoundKey(JBlock(mix_Column(Moved(b))), w, q) = JBlock(stages[n][q + 1])
    BY <2>3, JavaAdded
  <2> HIDE DEF Moved1
  <2>7. Inner(JBlock(b), q) = JBlock(stages[n][q + 1])
    BY <2>4, <2>5, <2>6
  <2> QED BY <2>7 DEF b
<1>5. Java!addRoundKey(Moved1(JBlock(stages[n][10])), w, 10) = JBlock(stages[n][11])
  <2> DEFINE b == stages[n][10]
  <2>1. 10 \in 0..10 /\ 10 # 0 /\ 10 = AES_ROUNDS /\ 10 + 1 = 11
    BY DEF AES_ROUNDS
  <2>2. Before(n, 10) = b
    BY <2>1 DEF Before
  <2> HIDE DEF b
  <2>3. b \in Block /\ 10 \in Stage /\ stages[n][11] = add_Round(Moved(b), RoundKey(10))
    BY <1>2, <2>1, <2>2 DEF Encrypted, Moved
  <2>4. Moved1(JBlock(b)) = JBlock(Moved(b))
    BY <2>3, JavaMoved
  <2>5. Java!addRoundKey(JBlock(Moved(b)), w, 10) = JBlock(stages[n][11])
    BY <2>3, JavaAdded
  <2> HIDE DEF Moved1
  <2>6. Java!addRoundKey(Moved1(JBlock(b)), w, 10) = JBlock(stages[n][11])
    BY <2>4, <2>5
  <2> QED BY <2>6 DEF b
<1> HIDE DEF first, Inner
<1>6. \A q \in 0..9 : h[q] = JBlock(stages[n][q + 1])
  OBVIOUS
<1>7. P(h)
  <2>1. \A q \in 0..9 : h[q] = IF q = 0 THEN first ELSE Inner(h[q - 1], q)
    <3> TAKE q \in 0..9
    <3>1. q # 0 => q \in 1..9 /\ q - 1 \in 0..9 /\ (q - 1) + 1 = q
      OBVIOUS
    <3>2. 0 \in 0..9 /\ 0 + 1 = 1
      OBVIOUS
    <3> HIDE DEF h
    <3> QED BY <1>3, <1>4, <1>6, <3>1, <3>2
  <2>2. h = [q \in 0..9 |-> h[q]]
    OBVIOUS
  <2> HIDE DEF h
  <2> QED BY <2>1, <2>2
<1> DEFINE g == CHOOSE u : P(u)
<1>8. P(g)
  <2> HIDE DEF P, h
  <2> QED BY <1>7
<1> HIDE DEF g, h
<1>9. \A q \in 0..9 : g[q] = h[q]
  <2> DEFINE T == {q \in 0..9 : g[q] = h[q]}
  <2>1. \A q \in 0..9 : /\ g[q] = IF q = 0 THEN first ELSE Inner(g[q - 1], q)
                        /\ h[q] = IF q = 0 THEN first ELSE Inner(h[q - 1], q)
    BY <1>7, <1>8, Zenon
  <2>2. 0 \in T
    BY <2>1
  <2>3. ASSUME NEW q \in 0..9 - 1, q \in T PROVE q + 1 \in T
    <3>1. q + 1 \in 0..9 /\ q + 1 # 0 /\ (q + 1) - 1 = q
      OBVIOUS
    <3> QED BY <2>1, <2>3, <3>1
  <2>4. \A q \in 0..9 : q \in T
    <3> HIDE DEF T
    <3> QED BY <2>2, <2>3, InductionTo
  <2> QED BY <2>4
<1>10. g[9] = JBlock(stages[n][10])
  <2>1. 9 \in 0..9 /\ 9 + 1 = 10
    OBVIOUS
  <2> QED BY <1>6, <1>9, <2>1
<1>11. Java!encryptBlock(block, w) = Java!addRoundKey(Moved1(g[9]), w, 10)
  BY <1>1 DEF g
<1> HIDE DEF block, Moved1
<1>12. Java!encryptBlock(block, w) = JBlock(stages[n][11])
  BY <1>5, <1>10, <1>11
<1> QED BY <1>12 DEF block

\* pkcs7Pad makes whole blocks of a text, and prepare_Block's where it has some.
LEMMA JavaPad ==
  ASSUME NEW m \in Seq(Byte)
  PROVE  LET padded == Java!pkcs7Pad(m)
         IN  /\ Len(padded) \div 16 = Len(m) \div 16 + 1
             /\ \A n \in 0..(numBlocks(m) - 1) :
                  /\ n + 1 \in 1..(Len(padded) \div 16)
                  /\ SubSeq(padded, 16 * (n + 1) - 15, 16 * (n + 1)) = JBlock(Padded(m)[n])
<1> DEFINE len == Len(m)
           padLen == 16 - (len % 16)
           pad == [k \in 1..padLen |-> Java!Bits(padLen)]
           padded == m \o pad
<1>1. len \in Nat /\ padLen \in 1..16
  OBVIOUS
<1>2. \A k : Java!Bits(k) \in Byte /\ Java!Bits(k) = ByteOf(k)
  BY DEF Java!Bits, ByteOf, Byte, Bit, Weight
<1>3. Java!pkcs7Pad(m) = padded
  BY DEF Java!pkcs7Pad
<1> HIDE DEF padLen
<1>4. pad \in Seq(Byte) /\ Len(pad) = padLen /\ \A k \in 1..padLen : pad[k] = ByteOf(padLen)
  <2>1. padLen \in Nat /\ pad \in [1..padLen -> Byte]
    BY <1>1, <1>2
  <2> QED BY <1>2, <2>1
<1> HIDE DEF pad
<1>5. /\ padded \in Seq(Byte) /\ Len(padded) = len + padLen
      /\ \A k \in 1..(len + padLen) : padded[k] = IF k <= len THEN m[k] ELSE ByteOf(padLen)
  <2>1. padded \in Seq(Byte) /\ Len(padded) = len + padLen
    BY <1>1, <1>4
  <2>2. ASSUME NEW k \in 1..(len + padLen) PROVE padded[k] = IF k <= len THEN m[k] ELSE ByteOf(padLen)
    <3>1. CASE k <= len
      <4>1. k \in 1..len
        BY <1>1, <3>1
      <4> QED BY <1>4, <3>1, <4>1
    <3>2. CASE ~(k <= len)
      <4>1. k - len \in 1..padLen /\ k \in 1..(len + padLen)
        BY <1>1, <3>2
      <4>2. padded[k] = pad[k - len]
        BY <1>1, <1>4, <3>2, <4>1
      <4> QED BY <1>4, <3>2, <4>1, <4>2
    <3> QED BY <3>1, <3>2
  <2> QED BY <2>1, <2>2
<1> HIDE DEF padded
<1>6. (len + padLen) \div 16 = len \div 16 + 1
  BY <1>1 DEF padLen
<1>7. ASSUME NEW n \in 0..(numBlocks(m) - 1)
      PROVE  /\ n + 1 \in 1..(Len(padded) \div 16)
             /\ SubSeq(padded, 16 * (n + 1) - 15, 16 * (n + 1)) = JBlock(Padded(m)[n])
  <2>1. numBlocks(m) = (len + 15) \div 16
    BY <1>1 DEF numBlocks, AES_BLOCK_SIZE
  <2>2. n \in Nat /\ n + 1 \in 1..(len \div 16 + 1)
    BY <1>1, <2>1
  <2>3. 16 * (n + 1) <= len + padLen
    BY <1>1, <2>2 DEF padLen
  <2>4. 16 * (n + 1) > len => padLen = 16 * numBlocks(m) - len
    BY <1>1, <2>1, <2>2 DEF padLen
  <2> DEFINE a == 16 * (n + 1) - 15
             z == 16 * (n + 1)
             s == SubSeq(padded, a, z)
  <2>5. a \in Int /\ z \in Int /\ a <= z /\ z - a + 1 = 16 /\ \A k \in a..z : k \in 1..(len + padLen)
    BY <1>1, <2>2, <2>3
  <2>6. \A k \in a..z : padded[k] \in Byte
    BY <1>5, <2>5
  <2>7. \A k \in 1..16 : a + k - 1 = 16 * n + k /\ 16 * n + k \in 1..(len + padLen) /\ 16 * n + k \in Nat
    BY <2>2, <2>5
  <2> HIDE DEF a, z
  <2>8. s \in Seq(Byte) /\ Len(s) = 16 /\ \A k \in 1..16 : s[k] = padded[a + k - 1]
    BY <2>5, <2>6, SubSeqProperties
  <2>9. ASSUME NEW k \in 1..16 PROVE s[k] = JBlock(Padded(m)[n])[k]
    <3>1. k - 1 \in 0..15 /\ AES_BLOCK_SIZE * n + (k - 1) + 1 = 16 * n + k
          /\ (AES_BLOCK_SIZE * n + (k - 1) < len <=> 16 * n + k <= len)
      BY <1>1, <2>2 DEF AES_BLOCK_SIZE
    <3>2. Padded(m)[n][k - 1] = IF 16 * n + k <= len THEN m[16 * n + k]
                                ELSE ByteOf(AES_BLOCK_SIZE * numBlocks(m) - len)
      BY <3>1, PaddedBytes
    <3>3. s[k] = IF 16 * n + k <= len THEN m[16 * n + k] ELSE ByteOf(padLen)
      BY <1>5, <2>7, <2>8
    <3>4. ~(16 * n + k <= len) => padLen = AES_BLOCK_SIZE * numBlocks(m) - len
      <4>1. ~(16 * n + k <= len) => 16 * (n + 1) > len
        BY <1>1, <2>2
      <4> QED BY <2>4, <4>1 DEF AES_BLOCK_SIZE
    <3> QED BY <3>2, <3>3, <3>4 DEF JBlock
  <2>10. JBlock(Padded(m)[n]) = [k \in 1..16 |-> JBlock(Padded(m)[n])[k]]
    BY DEF JBlock
  <2> HIDE DEF s
  <2>11. s = [k \in 1..16 |-> s[k]]
    BY <2>8
  <2>12. s = JBlock(Padded(m)[n])
    BY <2>9, <2>10, <2>11
  <2> QED BY <1>5, <1>6, <2>2, <2>12 DEF s, a, z
<1> QED BY <1>3, <1>5, <1>6, <1>7

\* The table of the Java version is that of sbox.h.
LEMMA SameTable == SBoxTable = Java!SBOX
<1>1. \A n : Java!Bits(n) = Bits(n)
  BY DEF Java!Bits, Bits
<1>2. Java!s_box = s_box
  BY DEF Java!s_box, s_box
<1>3. ASSUME NEW t PROVE AsTable(t) = Java!AsTable(t)
  <2> DEFINE number(b) == CHOOSE n \in 0..255 : Bits(n) = b
             jnumber(b) == CHOOSE n \in 0..255 : Java!Bits(n) = b
  <2>1. \A b : number(b) = jnumber(b)
    BY <1>1
  <2>2. AsTable(t) = [b \in SUBSET (0..7) |-> Bits(t[number(b) + 1])]
    BY DEF AsTable
  <2>3. Java!AsTable(t) = [b \in SUBSET (0..7) |-> Java!Bits(t[jnumber(b) + 1])]
    BY DEF Java!AsTable
  <2> HIDE DEF number, jnumber
  <2>4. Java!AsTable(t) = [b \in SUBSET (0..7) |-> Bits(t[number(b) + 1])]
    BY <1>1, <2>1, <2>3
  <2> QED BY <2>2, <2>4
<1> QED BY <1>2, <1>3 DEF SBoxTable, Java!SBOX

\* The two versions give the same blocks: for every text and every key, with the
\* table of sbox.h, aes128.encrypt makes of a text what prepare_Block, key_Expansion and
\* aes_Encrypt make of it, and one block more if the text fills its last block.
THEOREM VersionsAgree == Spec => [](SBox = SBoxTable => JavaAgrees)
<1>1. IInv /\ ScheduleInv => (SBox = SBoxTable => JavaAgrees)
  <2> DEFINE padded == Java!pkcs7Pad(message)
             w == Java!keyExpansion(JBlock(key))
             part(n) == SubSeq(padded, 16 * n - 15, 16 * n)
             blocks == [n \in 1..(Len(padded) \div 16) |-> Java!encryptBlock(part(n), w)]
  <2> SUFFICES ASSUME IInv, ScheduleInv, SBox = Java!SBOX, pc = "decrypt", i = 0, round = AES_ROUNDS
               PROVE  /\ Len(blocks) = Len(message) \div 16 + 1
                      /\ \A n \in DOMAIN data, k \in 0..15 : blocks[n + 1][k + 1] = data[n][k]
    BY SameTable DEF JavaAgrees, Java!encrypt, JBlock
  <2>1. Expanded /\ KeyCopied /\ KeyGrown
    <3>1. Expanded
      BY DEF IInv, PlaceInv, Expanded
    <3>2. Len(roundKeys) >= 4
      BY <3>1 DEF Expanded, KeyWords
    <3> QED BY <3>1, <3>2 DEF ScheduleInv
  <2>2. \A c \in 1..KeyWords : w[c] = JWord(roundKeys[c])
    BY <2>1, JavaKey
  <2>3. message \in Seq(Byte)
    BY InputAssumption DEF IInv, PlaceInv
  <2>4. Len(padded) \div 16 = Len(message) \div 16 + 1
    BY <2>3, JavaPad
  <2>5. \A n \in Indices : n + 1 \in 1..(Len(padded) \div 16) /\ part(n + 1) = JBlock(Padded(message)[n])
    BY <2>3, JavaPad DEF Indices
  <2> HIDE DEF padded, w, part
  <2>6. Len(blocks) = Len(message) \div 16 + 1
    <3>1. Len(padded) \div 16 \in Nat
      BY <2>3, <2>4
    <3> QED BY <2>4, <3>1
  <2>7. DOMAIN data = Indices
    BY DEF IInv, PlaceInv
  <2>8. ASSUME NEW n \in Indices, NEW k \in 0..15 PROVE blocks[n + 1][k + 1] = data[n][k]
    <3>1. Chained(n, AES_ROUNDS + 1)
      BY DEF IInv, DecryptInv
    <3>2. data[n] = Before(n, AES_ROUNDS + 1)
      <4>1. n > i \/ (n = i /\ round = AES_ROUNDS)
        BY DEF Indices
      <4> QED BY <4>1 DEF IInv, DecryptInv
    <3>3. data[n] = stages[n][11]
      BY <3>2 DEF Before, AES_ROUNDS
    <3>4. blocks[n + 1] = Java!encryptBlock(part(n + 1), w)
      BY <2>5
    <3>5. blocks[n + 1] = JBlock(stages[n][11])
      BY <2>1, <2>2, <2>5, <3>1, <3>4, JavaRounds
    <3>6. k + 1 \in 1..16 /\ (k + 1) - 1 = k
      OBVIOUS
    <3> HIDE DEF blocks
    <3> QED BY <3>3, <3>5, <3>6 DEF JBlock
  <2> HIDE DEF blocks
  <2> QED BY <2>6, <2>7, <2>8
<1> QED BY <1>1, Invariance, KeyIsExpanded, PTL

=============================================================================
