--------------------------------- MODULE SM3 ---------------------------------
(***************************************************************************)
(* SM3 as a stream, its HMAC, and the two ways of making longer output of  *)
(* it: sm3.c, sm3_extended.c and mgf_sm3.c.  The compression function is   *)
(* ideal: a digest stands for the blocks that were compressed.             *)
(*                                                                         *)
(* Bytes are tuples that name them.  Sizes scale together: a block has     *)
(* 2^BlockBits bits, a word of the bit count WordBits.  Lengths of data    *)
(* stay below a word: update keeps them in one.                            *)
(***************************************************************************)
EXTENDS Integers, Sequences

CONSTANTS BlockBits,    \* 9
          WordBits,     \* 32
          LenBytes,     \* 8, the bit count at the end of the padding
          DigestLen,    \* SM3_DIGEST_LENGTH
          MaxMsg,       \* bound: bytes of a message
          MaxKey,       \* bound: bytes of a key
          MaxOut        \* bound: bytes of longer output

(* A block holds more than a mark and a bit count, which has two halves;   *)
(* data is counted in a word.                                              *)
SizesAssumption ==
    /\ BlockBits \in Nat /\ WordBits \in Nat /\ 3 <= BlockBits /\ BlockBits <= WordBits
    /\ \E half \in 1 .. LenBytes : LenBytes = 2 * half
    /\ LenBytes < 2^(BlockBits - 3)
    /\ DigestLen \in Nat \ {0} /\ MaxMsg \in Nat /\ MaxKey \in Nat /\ MaxOut \in Nat
    /\ 2^(BlockBits - 3) + MaxMsg < 2^WordBits /\ 2^(BlockBits - 3) + DigestLen < 2^WordBits
    /\ MaxKey < 2^WordBits

(* Powers of two, stated of the widths. *)
PowerAssumption ==
    /\ \A w \in {BlockBits - 3, BlockBits, WordBits - BlockBits, WordBits} : 2^w \in Nat \ {0}
    /\ 2^BlockBits = 8 * 2^(BlockBits - 3)
    /\ 2^WordBits = 2^(WordBits - BlockBits) * 2^BlockBits

BlockSize == 2^(BlockBits - 3)
Word == 2^WordBits
Offset == 0 .. BlockSize - 1

Text(i) == <<"text", i>>
KeyByte(i) == <<"key", i>>
Counter(i) == <<"counter", i>>
Zero == <<"zero">>
Mark == <<"0x80">>
Stale == <<"stale">>
High(n) == <<"high", n>>
Low(n) == <<"low", n>>

Digest(blocks) == [j \in 1 .. DigestLen |-> <<"digest", blocks, j>>]

(* The reference: a message with its mark, zeros and bit count, in blocks. *)
PaddedByte(msg, end, i) ==
    LET bits == 8 * Len(msg)
    IN  IF i < Len(msg) THEN msg[i + 1]
        ELSE IF i = Len(msg) THEN Mark
        ELSE IF i < end - LenBytes THEN Zero
        ELSE IF i < end - (LenBytes \div 2) THEN High(bits \div Word)
        ELSE Low(bits % Word)

Blocks(msg) ==
    LET n == (Len(msg) + LenBytes) \div BlockSize + 1
    IN  [b \in 1 .. n |->
            [j \in Offset |-> PaddedByte(msg, n * BlockSize, (b - 1) * BlockSize + j)]]

Hash(msg) == Digest(Blocks(msg))

-----------------------------------------------------------------------------
(* The context: blocks compressed into the digest and how many, the bytes  *)
(* of the partial block and how many.                                      *)
NewCtx(block) == [digest |-> << >>, nblocks |-> 0, block |-> block, num |-> 0]

StaleBlock == [j \in Offset |-> Stale]

CopyTo(block, at, bytes) ==
    [j \in Offset |-> IF j \in at .. at + Len(bytes) - 1 THEN bytes[j - at + 1] ELSE block[j]]

Fill(block, from, to) == [j \in Offset |-> IF j \in from .. to THEN Zero ELSE block[j]]

Compress(digest, blocks) == digest \o blocks

Cut(data, n) ==
    [b \in 1 .. n |-> [j \in Offset |-> data[(b - 1) * BlockSize + j + 1]]]

(* Whole blocks straight from the data, the rest into the partial block.   *)
UpdateWhole(c, data) ==
    LET nblock == Len(data) \div BlockSize
        left == Len(data) % BlockSize
        offset == (Len(data) - left) % Word
    IN  [digest |-> Compress(c.digest, Cut(data, nblock)),
         nblocks |-> (c.nblocks + nblock) % Word,
         block |-> CopyTo(c.block, 0, SubSeq(data, offset + 1, offset + left)),
         num |-> left]

Update(c, data) ==
    LET left == BlockSize - c.num
        filled == CopyTo(c.block, c.num, SubSeq(data, 1, left))
    IN  IF c.num = 0 THEN UpdateWhole(c, data)
        ELSE IF Len(data) < left
        THEN [digest |-> c.digest, nblocks |-> c.nblocks,
              block |-> CopyTo(c.block, c.num, data), num |-> c.num + Len(data)]
        ELSE UpdateWhole([digest |-> Compress(c.digest, <<filled>>),
                          nblocks |-> (c.nblocks + 1) % Word, block |-> filled, num |-> 0],
                         SubSeq(data, left + 1, Len(data)))

Fits(num) == num + LenBytes + 1 <= BlockSize

(* sm3_final: the digest, and the context it leaves. *)
Final(c) ==
    LET end == BlockSize - LenBytes
        marked == CopyTo(c.block, c.num, <<Mark>>)
        full == Fill(marked, c.num + 1, BlockSize - 1)
        padded == IF Fits(c.num) THEN Fill(marked, c.num + 1, end - 1) ELSE Fill(full, 0, end - 1)
        high == c.nblocks \div 2^(WordBits - BlockBits)
        low == (c.nblocks * 2^BlockBits + c.num * 8) % Word
        last == [j \in Offset |-> IF j < end THEN padded[j]
                                  ELSE IF j < end + (LenBytes \div 2) THEN High(high)
                                  ELSE Low(low)]
    IN  [digest |-> Compress(IF Fits(c.num) THEN c.digest ELSE Compress(c.digest, <<full>>), <<last>>),
         nblocks |-> c.nblocks, block |-> last, num |-> c.num]

OneShot(data) == Digest(Final(Update(NewCtx(StaleBlock), data)).digest)

-----------------------------------------------------------------------------
VARIABLES ctx,
          key,          \* of the HMAC context: bytes and what they are XORed with
          state,        \* "raw"; in the middle of "hash", "hmac", "longer"; "done"
          message, keyGiven,    \* ghosts: what was fed; the HMAC key, in a set
          result,
          longer        \* a call that makes longer output: how far it is

vars == <<ctx, key, state, message, keyGiven, result, longer>>

NoKey == {}
Calls == {"sm3_extended", "mgf1_sm3"}
NoCall == [op |-> "none", outlen |-> 0, i |-> 0, out |-> << >>]

Init ==
    /\ ctx = NewCtx(StaleBlock)
    /\ key = [j \in Offset |-> [byte |-> Stale, pads |-> {}]]
    /\ state = "raw" /\ message = << >> /\ keyGiven = NoKey /\ result = << >>
    /\ longer = NoCall

(* sm3_init leaves the block as it was, whatever that is. *)
SM3Init ==
    /\ state # "longer"
    /\ ctx' = NewCtx(StaleBlock)
    /\ state' = "hash" /\ message' = << >> /\ keyGiven' = NoKey
    /\ result' = << >> /\ longer' = NoCall
    /\ UNCHANGED key

More(n) == [i \in 1 .. n |-> Text(Len(message) + i)]

(* sm3_update and sm3_hmac_update *)
SM3Update(n) ==
    /\ state \in {"hash", "hmac"} /\ Len(message) + n <= MaxMsg
    /\ ctx' = Update(ctx, More(n))
    /\ message' = message \o More(n)
    /\ UNCHANGED <<key, state, keyGiven, result, longer>>

SM3Final ==
    /\ state = "hash"
    /\ ctx' = Final(ctx)
    /\ result' = Digest(ctx'.digest)
    /\ state' = "done"
    /\ UNCHANGED <<key, message, keyGiven, longer>>

-----------------------------------------------------------------------------
IPAD == "0x36"
OPAD == "0x5C"

XorEach(block, pads) ==
    [j \in Offset |-> [block[j] EXCEPT !.pads = (@ \ pads) \cup (pads \ @)]]

(* Bytes to be hashed. *)
AsBytes(block) == [i \in 1 .. BlockSize |-> <<"xor", block[i - 1].byte, block[i - 1].pads>>]

(* A key as a block: the bytes themselves, or their digest, and zeros.     *)
KeyBlock(bytes) ==
    LET short == IF Len(bytes) <= BlockSize THEN bytes ELSE OneShot(bytes)
    IN  [j \in Offset |-> [byte |-> IF j < Len(short) THEN short[j + 1] ELSE Zero, pads |-> {}]]

HmacInit(n) ==
    LET bytes == [i \in 1 .. n |-> KeyByte(i)]
    IN  /\ state # "longer"
        /\ key' = XorEach(KeyBlock(bytes), {IPAD})
        /\ ctx' = Update(NewCtx(StaleBlock), AsBytes(key'))
        /\ state' = "hmac" /\ message' = << >> /\ keyGiven' = {bytes}
        /\ result' = << >> /\ longer' = NoCall

(* The outer pad on top of the inner one. *)
OuterPadOnly == {OPAD}

OuterPad == {IPAD, OPAD}

HmacFinal ==
    /\ state = "hmac"
    /\ key' = XorEach(key, OuterPad)
    /\ LET inner == Final(ctx)
           outer == Update(Update(NewCtx(inner.block), AsBytes(key')), Digest(inner.digest))
       IN  ctx' = Final(outer)
    /\ result' = Digest(ctx'.digest)
    /\ state' = "done"
    /\ UNCHANGED <<message, keyGiven, longer>>

-----------------------------------------------------------------------------
(* sm3_extended counts in front of its input, mgf1_sm3 behind it.          *)
Seed == <<Text(1)>>
Numbered(op, i) == IF op = "mgf1_sm3" THEN Seed \o <<Counter(i)>> ELSE <<Counter(i)>> \o Seed

Longer(op, outlen) ==
    /\ state = "raw"
    /\ longer' = [op |-> op, outlen |-> outlen, i |-> 0, out |-> << >>]
    /\ state' = "longer"
    /\ UNCHANGED <<ctx, key, message, keyGiven, result>>

(* sm3_extended goes on while anything is missing and then copies what was *)
(* asked for; mgf1_sm3 goes on while a whole digest fits.                  *)
WholeDigestFits(i, outlen) == (i + 1) * DigestLen <= outlen

Another ==
    IF longer.op = "mgf1_sm3" THEN WholeDigestFits(longer.i, longer.outlen)
    ELSE longer.outlen - longer.i * DigestLen > 0

LongerMore ==
    /\ state = "longer" /\ Another
    /\ longer' = [op |-> longer.op, outlen |-> longer.outlen, i |-> longer.i + 1,
                  out |-> longer.out \o OneShot(Numbered(longer.op, longer.i))]
    /\ UNCHANGED <<ctx, key, state, message, keyGiven, result>>

LongerEnd ==
    /\ state = "longer" /\ ~Another
    /\ LET rest == longer.outlen - longer.i * DigestLen
           last == OneShot(Numbered(longer.op, longer.i))
       IN  result' = IF longer.op = "sm3_extended" THEN SubSeq(longer.out, 1, longer.outlen)
                     ELSE IF rest > 0 THEN longer.out \o SubSeq(last, 1, rest) ELSE longer.out
    /\ state' = "done"
    /\ UNCHANGED <<ctx, key, message, keyGiven, longer>>

Next ==
    \/ SM3Init \/ SM3Final \/ HmacFinal \/ LongerMore \/ LongerEnd
    \/ \E n \in 0 .. MaxMsg : SM3Update(n)
    \/ \E n \in 0 .. MaxKey : HmacInit(n)
    \/ \E op \in Calls, n \in 0 .. MaxOut : Longer(op, n)

Spec == Init /\ [][Next]_vars

-----------------------------------------------------------------------------
(* Whatever the calls and their sizes, the digest is that of the padded    *)
(* message: the partial block, the second padding block, the bit count put *)
(* together from blocks and bytes, and what the block still holds.         *)
DigestIsHash ==
    state = "done" /\ longer = NoCall /\ keyGiven = NoKey => result = Hash(message)

(* HMAC by its definition, for keys shorter than, as long as and longer    *)
(* than a block; the key is XORed in place, twice.                         *)
KeyXor(bytes, pad) ==
    LET short == IF Len(bytes) <= BlockSize THEN bytes ELSE Hash(bytes)
    IN  [i \in 1 .. BlockSize |->
            <<"xor", IF i <= Len(short) THEN short[i] ELSE Zero, {pad}>>]

MacIsHmac ==
    state = "done" /\ longer = NoCall =>
        \A bytes \in keyGiven :
            result = Hash(KeyXor(bytes, OPAD) \o Hash(KeyXor(bytes, IPAD) \o message))

(* Longer output is exactly as long as asked for, and byte k of it is from *)
(* the digest with number k div DigestLen, for lengths at the edge of a    *)
(* digest as well.                                                         *)
LongerIsCounterMode ==
    state = "done" /\ longer # NoCall =>
        result = [k \in 1 .. longer.outlen |->
                     Hash(Numbered(longer.op, (k - 1) \div DigestLen))[((k - 1) % DigestLen) + 1]]

=============================================================================
