------------------------------ MODULE AesJava ------------------------------
(***************************************************************************)
(* The Java version of aes-128: what aes128.encrypt makes of a text and a  *)
(* key of 16 bytes.  Bytes are sets of bits, as in Aes; that they are      *)
(* printed as hexadecimal digits is left out.                              *)
(***************************************************************************)
EXTENDS Integers, Sequences, AesTables

Xor(a, b) == (a \ b) \cup (b \ a)

\* SBOX has the numbers of s_box.
SBOX == AsTable(s_box)
RCON == <<1, 2, 4, 8, 16, 32, 64, 128, 27, 54>>

\* res is an int: bit 8 goes when it becomes a byte.
xtime(x) ==
  LET res == {k + 1 : k \in x}
  IN  (IF 7 \in x THEN Xor(res, {0, 1, 3, 4}) ELSE res) \cap (0..7)

mul(x, by) ==
  CASE by = 1 -> x
    [] by = 2 -> xtime(x)
    [] by = 3 -> Xor(xtime(x), x)

\* The words of w; the index of RCON goes up with every fourth word.
keyExpansion(key) ==
  LET Core(t, n) ==
        <<Xor(SBOX[t[2]], Bits(RCON[n \div 4])), SBOX[t[3]], SBOX[t[4]], SBOX[t[1]]>>
      Grown(w, n) ==
        LET back == w[n - 3]
            temp == IF n % 4 = 0 THEN Core(w[n], n) ELSE w[n]
        IN  Append(w, [k \in 1..4 |-> Xor(back[k], temp[k])])
      grown[pass \in 0..40] ==
        IF pass = 0 THEN [c \in 1..4 |-> SubSeq(key, 4 * c - 3, 4 * c)]
        ELSE Grown(grown[pass - 1], pass + 3)
  IN  grown[40]

subBytes(s) == [k \in 1..16 |-> SBOX[s[k]]]

\* The columns of a state follow each other; row r moves r columns to the left.
\* Mutant: row 3 moves one column to the left.
shiftRowsThird(s) ==
  <<s[1], s[6], s[11], s[8], s[5], s[10], s[15], s[12],
    s[9], s[14], s[3], s[16], s[13], s[2], s[7], s[4]>>
shiftRows(s) ==
  <<s[1], s[6], s[11], s[16], s[5], s[10], s[15], s[4],
    s[9], s[14], s[3], s[8], s[13], s[2], s[7], s[12]>>

\* The bytes of a column times 2, 3, 1, 1, which move on from row to row.
mixColumns(s) == [k \in 1..16 |->
  LET factor == <<2, 3, 1, 1>>
      product(r) == mul(s[4 * ((k - 1) \div 4) + r], factor[((16 + r - k) % 4) + 1])
  IN  Xor(Xor(product(1), product(2)), Xor(product(3), product(4)))]

addRoundKey(s, w, round) ==
  [k \in 1..16 |-> Xor(s[k], w[4 * round + (k - 1) \div 4 + 1][((k - 1) % 4) + 1])]

encryptBlock(block, w) ==
  LET Moved(s) == shiftRows(subBytes(s))
      Inner(s, round) == addRoundKey(mixColumns(Moved(s)), w, round)
      state[round \in 0..9] ==
        IF round = 0 THEN addRoundKey(block, w, 0) ELSE Inner(state[round - 1], round)
  IN  addRoundKey(Moved(state[9]), w, 10)

\* padLen is never 0: a text that fills its last block gets one more.
pkcs7Pad(data) ==
  LET padLen == 16 - (Len(data) % 16)
  IN  data \o [k \in 1..padLen |-> Bits(padLen)]

\* The blocks of cipherT.
encrypt(plainT, key) ==
  LET padded    == pkcs7Pad(plainT)
      roundKeys == keyExpansion(key)
  IN  [n \in 1..(Len(padded) \div 16) |->
         encryptBlock(SubSeq(padded, 16 * n - 15, 16 * n), roundKeys)]

=============================================================================
