------------------------------- MODULE Sponge -------------------------------
(***************************************************************************)
(* The data of the Keccak sponge of hash/keccak/fips202.c: blocks of R     *)
(* bytes, the XOR of bytes into the current block, the permutation, and    *)
(* the padded message FIPS 202 asks for, as a reference.                   *)
(*                                                                         *)
(* The 25 lanes are kept as the history that determines them: a sequence   *)
(* of blocks, one per permutation so far, the last being what has been     *)
(* XORed since.  Two states of the code are equal exactly when their       *)
(* histories are, as for a permutation without collisions.                 *)
(***************************************************************************)
EXTENDS Integers, Sequences

CONSTANT R            \* the rate in bytes: SHAKE128_RATE, SHA3_256_RATE, ...

ASSUME RateAssumption == R \in Nat \ {0}

(* A byte of a message is its number in the message, from 1; the two       *)
(* domain bytes and the final bit 0x80 are items of their own.             *)
SHAKE == 0            \* 0x1F
SHA3  == -1           \* 0x06
LAST  == -2           \* 0x80 in byte r-1

Domain == {SHAKE, SHA3}
Item   == Nat \cup Domain \cup {LAST}
Offset == 0..R-1

(* What has been XORed into each byte of a block; XOR is symmetric         *)
(* difference, so XORing an item twice removes it.                         *)
Block == [Offset -> SUBSET Item]
Zero  == [j \in Offset |-> {}]

Xor(a, b) == (a \ b) \cup (b \ a)

\* s[i/8] ^= ...: the items of `bytes` (a function on offsets) into the current block
XorInto(s, bytes) ==
  [s EXCEPT ![Len(s)] = [j \in Offset |->
      IF j \in DOMAIN bytes THEN Xor(@[j], bytes[j]) ELSE @[j]]]

\* KeccakF1600_StatePermute: the history so far, and a block with nothing XORed yet
Permute(s) == Append(s, Zero)

\* keccak_init: all lanes zero
ZeroState == <<Zero>>

\* n message bytes starting with number first, at offsets pos, pos+1, ...
Bytes(first, pos, n) == [j \in pos..(pos + n - 1) |-> {first + j - pos}]

\* the output byte the code reads at offset i: determined by the whole history
OutByte(s, i) == <<s, i>>
-----------------------------------------------------------------------------
(* The reference.  PaddedBlock(d, m, b) is block b of the padded message   *)
(* of m bytes: message, domain byte, zeros, final bit.                     *)
BlocksOf(m) == m \div R + 1

PaddedBlock(d, m, b) ==
  [j \in Offset |->
     LET i == (b - 1) * R + j
     IN  {n \in {i + 1} : i < m} \cup {n \in {d} : i = m}
           \cup {n \in {LAST} : b = BlocksOf(m) /\ j = R - 1}]

\* the state after the padded message and q further permutations
PaddedState(d, m, q) ==
  [b \in 1..(BlocksOf(m) + q) |->
     IF b <= BlocksOf(m) THEN PaddedBlock(d, m, b) ELSE Zero]

\* output byte k (from 0) of the extendable-output function
XofByte(d, m, k) == OutByte(PaddedState(d, m, k \div R + 1), k % R)
=============================================================================
