------------------------------- MODULE MCAes -------------------------------
(* Texts of all lengths of interest, and the comparison with the standard. *)
EXTENDS Aes, AesTables, AesStandard

SBoxTable    == AsTable(s_box)
InvSBoxTable == AsTable(inv_s_box)

\* The numbers of s_box are those that the standard computes.
ASSUME StandardTable == SBoxTable = SubByte

\* A text of printable characters, and one in which each byte that stands at a
\* place of "marks" has the value of a padding.
Letters(n) == [at \in 1..n |-> ByteOf(33 + ((7 * at) % 90))]
Marked(n, marks, v) == [at \in 1..n |-> IF at \in marks THEN ByteOf(v) ELSE ByteOf(97)]

SomeTexts ==
  {Letters(n) : n \in {0, 1, 16, 25, 31, 33}}
    \cup {Marked(20, {16}, 1), Marked(20, {15, 16}, 3), Marked(31, 7..16, 10),
          Marked(16, 13..16, 4)}

\* "123456789012345" with its terminating 0, and a key with high bits.
SomeKeys ==
  {[k \in 0..15 |-> IF k = 15 THEN {} ELSE ByteOf(48 + ((k + 1) % 10))],
   [k \in 0..15 |-> ByteOf((43 + 59 * k) % 256)]}

\* A byte of a string that stands behind the buffer, or none.
SomeBytes == {<<>>, <<ByteOf(97)>>}

\* The code is AES ("not matching online cipher encryption" was the problem that
\* aes.c solved): the key is expanded and every block is encrypted, round by round,
\* as FIPS 197 has it.
MatchesStandard ==
  pc = "decrypt" /\ i = 0 /\ round = AES_ROUNDS =>
    LET w == [n \in 0..(KeyWords - 1) |-> roundKeys[n + 1]]
    IN  /\ \A k \in 0..15 : w[k \div 4][k % 4] = key[k]
        /\ \A n \in 4..(KeyWords - 1) : w[n] = KeyWord(w, n)
        /\ \A n \in DOMAIN data :
             /\ data[n] = stages[n][11]
             /\ \A r \in 0..10 : stages[n][r + 1] =
                  Round(IF r = 0 THEN Padded(message)[n] ELSE stages[n][r], w, r)

\* The two versions of aes-128 agree: for every text and key, aes128.encrypt gives
\* the blocks that aes.c gives, and one more if the text fills its last block, since
\* only pkcs7Pad pads such a text.
Java == INSTANCE AesJava
JavaAgrees ==
  pc = "decrypt" /\ i = 0 /\ round = AES_ROUNDS =>
    LET blocks == Java!encrypt(message, [k \in 1..16 |-> key[k - 1]])
    IN  /\ Len(blocks) = Len(message) \div 16 + 1
        /\ \A n \in DOMAIN data, k \in 0..15 : blocks[n + 1][k + 1] = data[n][k]

=============================================================================
