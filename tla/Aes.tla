-------------------------------- MODULE Aes --------------------------------
(***************************************************************************)
(* aes-128: aesMain.c encrypts a text, decrypts it again and looks for its *)
(* end; aes.c pads the text, expands the key and has the cipher.           *)
(*                                                                         *)
(* A byte is the set of its bits that are 1, so that ^= is the symmetric   *)
(* difference.  A step is one pass of a loop: one word of the expanded     *)
(* key, one round of the cipher.  What is printed is left out, but for the *)
(* text that is recovered.                                                 *)
(***************************************************************************)
EXTENDS Integers, Sequences

CONSTANTS
  SBox, InvSBox,  \* s_box and inv_s_box of sbox.h
  Texts,          \* what message may be: no byte is 0
  Keys,           \* what SECRET_KEY may be
  MAX_BYTES,      \* how far revert_Hex looks for a padding
  Behind          \* what may be printed of the bytes behind the buffer

Bit   == 0..7
Byte  == SUBSET Bit
Word  == [0..3 -> Byte]
Block == [0..15 -> Byte]

AES_BLOCK_SIZE == 16
AES_ROUNDS     == 10
KeyWords       == 44    \* AES_ROUND_KEYS_SIZE / 4

ASSUME TablesAssumption ==
  /\ SBox \in [Byte -> Byte] /\ InvSBox \in [Byte -> Byte]
  /\ \A x \in Byte : InvSBox[SBox[x]] = x

ASSUME InputAssumption ==
  /\ Texts \subseteq Seq(Byte) /\ Keys \subseteq Block
  /\ MAX_BYTES \in Nat /\ Behind \subseteq Seq(Byte)

VARIABLES
  pc,         \* where main is: "prepare", "key", "expand", "encrypt", "decrypt",
              \* "revert", or at its end: "failed", "shown", "exited",
              \* "unknown", "overread"
  message, key,
  data,       \* *pMessageHex: the blocks 0, 1, ... of the buffer
  roundKeys,  \* the words of the expanded key that are written
  i, round,   \* of the loops over blocks and rounds
  text,       \* what revert_Hex prints
  stages      \* history: what each block was after every round of its encryption

vars == <<pc, message, key, data, roundKeys, i, round, text, stages>>

input == <<message, key>>

----------------------------------------------------------------------------
(* Bytes *)

Xor(a, b) == (a \ b) \cup (b \ a)

Weight == <<1, 2, 4, 8, 16, 32, 64, 128>>
ByteOf(n) == {k \in Bit : (n \div Weight[k + 1]) % 2 = 1}

\* a <<= 1, and a ^= 0x1b if a bit was lost.
xtime(a) ==
  LET shifted == {k + 1 : k \in a \ {7}}
  IN  IF 7 \in a THEN Xor(shifted, {0, 1, 3, 4}) ELSE shifted

\* The loop adds xtime^k(a) to p for every bit k of b.
gmul(a, b) ==
  LET term(k, x) == IF k \in b THEN x ELSE {}
      a1 == xtime(a)   a2 == xtime(a1)  a3 == xtime(a2)  a4 == xtime(a3)
      a5 == xtime(a4)  a6 == xtime(a5)  a7 == xtime(a6)
  IN  Xor(term(0, a), Xor(term(1, a1), Xor(term(2, a2), Xor(term(3, a3),
      Xor(term(4, a4), Xor(term(5, a5), Xor(term(6, a6), term(7, a7))))))))

Xor4(a, b, c, d) == Xor(a, Xor(b, Xor(c, d)))

----------------------------------------------------------------------------
(* Blocks.  Byte k of a block is in row k % 4 and column k \div 4. *)

\* The row of byte k of column c, counted from the byte the row starts with.
At(b, k, c) == b[4 * (k \div 4) + ((k + c) % 4)]

add_Round(b, w) == [k \in 0..15 |-> Xor(b[k], w[k])]
sub_Bytes(b) == [k \in 0..15 |-> SBox[b[k]]]
inv_Bytes(b) == [k \in 0..15 |-> InvSBox[b[k]]]

\* Row r moves r columns to the left, and back again.
shift_Rows(b) == [k \in 0..15 |-> b[(k + 4 * (k % 4)) % 16]]

\* Mutant: row 3 moves to the left once more.
inv_RowsThird(b) == [k \in 0..15 |-> b[(k + (IF k % 4 = 3 THEN 4 ELSE 12) * (k % 4)) % 16]]
inv_Rows(b) == [k \in 0..15 |-> b[(k + 12 * (k % 4)) % 16]]

mix_Column(b) == [k \in 0..15 |->
  Xor4(gmul({1}, At(b, k, 0)), gmul({0, 1}, At(b, k, 1)), At(b, k, 2), At(b, k, 3))]

inv_Column(b) == [k \in 0..15 |->
  Xor4(gmul(At(b, k, 0), {1, 2, 3}), gmul(At(b, k, 1), {0, 1, 3}),
       gmul(At(b, k, 2), {0, 2, 3}), gmul(At(b, k, 3), {0, 3}))]

----------------------------------------------------------------------------
(* The padding *)

numBlocks(m) == (Len(m) + AES_BLOCK_SIZE - 1) \div AES_BLOCK_SIZE

\* A text that fills its last block gets no padding.
Padded(m) ==
  [n \in 0..(numBlocks(m) - 1) |-> [k \in 0..15 |->
     LET at == AES_BLOCK_SIZE * n + k
     IN  IF at < Len(m) THEN m[at + 1]
         ELSE ByteOf(AES_BLOCK_SIZE * numBlocks(m) - Len(m))]]

\* v is a valid padding at the end of block b.
ValidPad(b, v) ==
  /\ v \in 1..AES_BLOCK_SIZE
  /\ \A k \in (AES_BLOCK_SIZE - v)..15 : b[k] = ByteOf(v)

----------------------------------------------------------------------------
(* The key schedule *)

rcon == <<{0}, {1}, {2}, {3}, {4}, {5}, {6}, {7}, {0, 1, 3, 4}, {1, 2, 4, 5}>>

rotWord(w) == [k \in 0..3 |-> w[(k + 1) % 4]]
subWord(w) == [k \in 0..3 |-> SBox[w[k]]]

\* The word that is added to the one of 16 bytes before; n words are written.
Temp(w, n) ==
  IF n % 4 = 0 THEN [subWord(rotWord(w)) EXCEPT ![0] = Xor(@, rcon[n \div 4])]
  ELSE w

\* roundKeys + r * AES_BLOCK_SIZE
RoundKey(r) == [k \in 0..15 |-> roundKeys[4 * r + k \div 4 + 1][k % 4]]

----------------------------------------------------------------------------
(* Steps *)

Init ==
  /\ pc = "prepare" /\ message \in Texts /\ key \in Keys
  /\ data = <<>> /\ roundKeys = <<>> /\ i = 0 /\ round = 0
  /\ text = <<>> /\ stages = <<>>

\* prepare_Block: calloc may fail, and may do so for 0 bytes in particular.
prepare_Block ==
  /\ pc = "prepare"
  /\ \/ /\ pc' = "key" /\ data' = Padded(message)
        /\ stages' = [n \in 0..(numBlocks(message) - 1) |-> <<>>]
     \/ pc' = "failed" /\ UNCHANGED <<data, stages>>
  /\ UNCHANGED <<input, roundKeys, i, round, text>>

\* key_Expansion: the key itself, then a word in each pass.
CopyKey ==
  /\ pc = "key" /\ pc' = "expand"
  /\ LET word(n) == [k \in 0..3 |-> key[4 * n + k]]
     IN  roundKeys' = <<word(0), word(1), word(2), word(3)>>
  /\ UNCHANGED <<input, data, i, round, text, stages>>

ExpandKey ==
  LET n   == Len(roundKeys)
      new == Temp(roundKeys[n], n)
  IN  /\ pc = "expand"
      /\ roundKeys' = Append(roundKeys, [k \in 0..3 |-> Xor(roundKeys[n - 3][k], new[k])])
      /\ pc' = IF n + 1 < KeyWords THEN "expand" ELSE "encrypt"
      /\ UNCHANGED <<input, data, i, round, text, stages>>

\* Mutant: the loop over the rounds takes the key of the round before.
EncryptedFromZero(b, r) ==
  LET moved == shift_Rows(sub_Bytes(b))
  IN  CASE r = 0             -> add_Round(b, RoundKey(0))
        [] r = AES_ROUNDS    -> add_Round(moved, RoundKey(r))
        [] OTHER             -> add_Round(mix_Column(moved), RoundKey(r - 1))

\* Round r of aes_Encrypt.
Encrypted(b, r) ==
  LET moved == shift_Rows(sub_Bytes(b))
      w     == RoundKey(r)
  IN  CASE r = 0             -> add_Round(b, w)
        [] r = AES_ROUNDS    -> add_Round(moved, w)
        [] OTHER             -> add_Round(mix_Column(moved), w)

\* Round r of de_Crypt.
Decrypted(b, r) ==
  LET w == RoundKey(r)
      moved == inv_Bytes(inv_Rows(b))
  IN  CASE r = AES_ROUNDS -> add_Round(b, w)
        [] r = 0          -> add_Round(moved, w)
        [] OTHER          -> inv_Column(add_Round(moved, w))

aes_Encrypt ==
  /\ pc = "encrypt" /\ i \in DOMAIN data
  /\ data' = [data EXCEPT ![i] = Encrypted(@, round)]
  /\ stages' = [stages EXCEPT ![i] = Append(@, data'[i])]
  /\ IF round < AES_ROUNDS THEN round' = round + 1 /\ UNCHANGED i
     ELSE round' = 0 /\ i' = i + 1
  /\ UNCHANGED <<pc, input, roundKeys, text>>

EndEncrypt ==
  /\ pc = "encrypt" /\ i \notin DOMAIN data
  /\ pc' = "decrypt" /\ i' = 0 /\ round' = AES_ROUNDS
  /\ UNCHANGED <<input, data, roundKeys, text, stages>>

de_Crypt ==
  /\ pc = "decrypt" /\ i \in DOMAIN data
  /\ data' = [data EXCEPT ![i] = Decrypted(@, round)]
  /\ IF round > 0 THEN round' = round - 1 /\ UNCHANGED i
     ELSE round' = AES_ROUNDS /\ i' = i + 1
  /\ UNCHANGED <<pc, input, roundKeys, text, stages>>

EndDecrypt ==
  /\ pc = "decrypt" /\ i \notin DOMAIN data
  /\ pc' = "revert" /\ i' = 0 /\ round' = 0
  /\ UNCHANGED <<input, data, roundKeys, text, stages>>

\* The ends of blocks at which revert_Hex finds a padding.
Ends == {n \in DOMAIN data : /\ AES_BLOCK_SIZE * (n + 1) <= MAX_BYTES
                             /\ \E v \in 1..AES_BLOCK_SIZE : ValidPad(data[n], v)}

\* The first bytes of the buffer.
Bytes(len) ==
  [at \in 1..len |-> data[(at - 1) \div AES_BLOCK_SIZE][(at - 1) % AES_BLOCK_SIZE]]

\* Mutant: the padding is printed as well.
ShownWhole(n, v) == Bytes(AES_BLOCK_SIZE * (n + 1))

\* The text before a padding v at the end of block n.
Shown(n, v) == Bytes(AES_BLOCK_SIZE * (n + 1) - v)

\* revert_Hex stops at the first end it finds; malloc may fail.
Recover ==
  /\ pc = "revert"
  /\ \E n \in Ends, v \in 1..AES_BLOCK_SIZE :
       /\ \A e \in Ends : n <= e
       /\ ValidPad(data[n], v)
       /\ \/ pc' = "shown" /\ text' = Shown(n, v)
          \/ pc' = "exited" /\ UNCHANGED text
  /\ UNCHANGED <<input, data, roundKeys, i, round, stages>>

\* It finds none and gives up, or reads on behind the buffer.  If it comes to what
\* looks like a padding there, it prints the buffer and what stands before that,
\* up to a 0; or it gives up later, or the program is killed.
NoEnd ==
  LET length == AES_BLOCK_SIZE * numBlocks(message) IN
  /\ pc = "revert" /\ Ends = {}
  /\ IF length + AES_BLOCK_SIZE > MAX_BYTES THEN pc' = "unknown" /\ UNCHANGED text
     ELSE pc' = "overread" /\ text' \in {<<>>} \cup {Bytes(length) \o more : more \in Behind}
  /\ UNCHANGED <<input, data, roundKeys, i, round, stages>>

Terminated ==
  pc \in {"failed", "shown", "exited", "unknown", "overread"} /\ UNCHANGED vars

Next ==
  \/ prepare_Block \/ CopyKey \/ ExpandKey
  \/ aes_Encrypt \/ EndEncrypt \/ de_Crypt \/ EndDecrypt
  \/ Recover \/ NoEnd \/ Terminated

Spec == Init /\ [][Next]_vars

----------------------------------------------------------------------------
(* Properties *)

Stage == 0..AES_ROUNDS

TypeOK ==
  /\ pc \in {"prepare", "key", "expand", "encrypt", "decrypt", "revert",
              "failed", "shown", "exited", "unknown", "overread"}
  /\ message \in Texts /\ key \in Keys
  /\ data \in [DOMAIN data -> Block]
  /\ DOMAIN data \in {{}, 0..(numBlocks(message) - 1)}
  /\ roundKeys \in Seq(Word) /\ Len(roundKeys) <= KeyWords
  /\ i \in 0..numBlocks(message) /\ round \in Stage
  /\ text \in Seq(Byte)
  /\ stages \in [DOMAIN stages -> Seq(Block)]

\* Decryption undoes encryption (de_Crypt after aes_Encrypt, with the rounds, the
\* round keys and the four steps in the opposite order): when all blocks are
\* through, the buffer holds the padded text again, whatever text and key are.
BlocksRestored ==
  pc \in {"revert", "shown", "exited", "unknown", "overread"} => data = Padded(message)

\* revert_Hex finds the end of the text: it prints the whole text, and reads
\* nothing behind the buffer, if the text was padded, has no byte that is itself
\* the value of a padding, and lies within MAX_BYTES.
TextRecovered ==
  /\ Len(message) % AES_BLOCK_SIZE # 0
  /\ AES_BLOCK_SIZE * numBlocks(message) <= MAX_BYTES
  /\ \A at \in DOMAIN message : \A v \in 1..AES_BLOCK_SIZE : message[at] # ByteOf(v)
  => pc \notin {"unknown", "overread"} /\ (pc = "shown" => text = message)

\* Where these conditions do not hold, revert_Hex may stop too early, and print a
\* beginning of the text, without a byte of padding.  It reads on behind the buffer
\* only if the text fills its last block, and what it prints then is the whole
\* text, whatever follows.
PrefixShown ==
  /\ pc = "shown" =>
       /\ Len(text) <= Len(message)
       /\ \A at \in 1..Len(text) : text[at] = message[at]
  /\ pc = "overread" =>
       /\ Len(message) % AES_BLOCK_SIZE = 0
       /\ text # <<>> =>
            /\ Len(message) <= Len(text)
            /\ \A at \in 1..Len(message) : text[at] = message[at]

\* What is printed is the text, as far as its end can be found.
TextShown == TextRecovered /\ PrefixShown

=============================================================================
