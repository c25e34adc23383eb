------------------------------- MODULE Layouts -------------------------------
(***************************************************************************)
(* What the packing functions put where.                                   *)
(*                                                                         *)
(* The tables: how every polynomial is turned into bytes.  poly.c of       *)
(* Dilithium has the same functions as that of ML-DSA, each with the       *)
(* widths of its mode, ML-KEM and Kyber have the same ones under two       *)
(* names; Aigis-sig and Aigis-enc unroll their own, with other masks and   *)
(* widths.  Only the bits are of this module, not the division that        *)
(* compresses a coefficient to a code of d bits.                           *)
(*                                                                         *)
(* The layouts.  A layout is the sequence of the pieces in the order of    *)
(* the code: a name, the offset the pointer has reached when it is written *)
(* or read, and the bytes that the function called for it touches, which   *)
(* for a polynomial its table of shifts says.  Every parameter set comes   *)
(* with the functions that make and read its byte strings, and with the    *)
(* prototypes its sources are compiled against.                            *)
(*                                                                         *)
(* Last, what a caller does with them.  He allocates a buffer of the size  *)
(* the public header declares and hands it to the function that fills it;  *)
(* another function, and in most uses another process, takes it apart      *)
(* again.  The sizes stand in three places that nothing compares: literals *)
(* in the public header, macros in the parameter headers, and what the     *)
(* packing code in fact writes.                                            *)
(***************************************************************************)
EXTENDS Integers, FiniteSetsExt, SequencesExt, Parameters

(* A table: the bits of a coefficient and the numbers they stand for, the   *)
(* bytes of one group, its coefficients, and for each of the latter how     *)
(* many bits the code keeps at the end (32: it has no such mask).  Where    *)
(* nothing reads the bytes back there are no coefficients.                  *)
Format(width, coded, pack, unpack, keep) ==
  [width |-> width, coded |-> coded, pack |-> pack, unpack |-> unpack,
   keep |-> keep, n |-> (8 * Len(pack)) \div width]

All(bits) == [c \in 1 .. 8 |-> bits]

(* Coefficients from -lo to hi, stored as their distance below top. *)
Below(top, lo, hi) == {top - hi, top + lo}

(* One operand of an `|': a word, the low bits of it that are kept first,  *)
(* and how far it is moved, to the left when positive.                     *)
R(word, shift)       == <<word, 32, -shift>>
L(word, shift)       == <<word, 32, shift>>
LM(word, low, shift) == <<word, low, shift>>
-----------------------------------------------------------------------------

D == 13
(* Small coefficients, three bits for ETA = 2. *)
polyeta_pack_2 ==
  << {R(0,0), L(1,3), L(2,6)},
     {R(2,2), L(3,1), L(4,4), L(5,7)},
     {R(5,1), L(6,2), L(7,5)} >>

polyeta_unpack_2 ==
  << {R(0,0)}, {R(0,3)}, {R(0,6), L(1,2)}, {R(1,1)},
     {R(1,4)}, {R(1,7), L(2,1)}, {R(2,2)}, {R(2,5)} >>

(* Two to a byte. *)
Nibbles    == << {R(0,0), L(1,4)} >>
FromNibbles == << {LM(0,4,0)}, {R(0,4)} >>

polyeta == [eta2 |-> Format(3, Below(2, 2, 2), polyeta_pack_2, polyeta_unpack_2, All(3)),
            eta4 |-> Format(4, Below(4, 4, 4), Nibbles, FromNibbles, All(32))]

polyt1_pack ==
  << {R(0,0)}, {R(0,8), L(1,2)}, {R(1,6), L(2,4)}, {R(2,4), L(3,6)}, {R(3,2)} >>

polyt1_unpack ==
  << {R(0,0), L(1,8)}, {R(1,2), L(2,6)}, {R(2,4), L(3,4)}, {R(3,6), L(4,2)} >>

polyt1 == [t1 |-> Format(10, {0, 1023}, polyt1_pack, polyt1_unpack, All(10))]

polyt0_pack ==
  << {R(0,0)}, {R(0,8), L(1,5)}, {R(1,3)}, {R(1,11), L(2,2)}, {R(2,6), L(3,7)},
     {R(3,1)}, {R(3,9), L(4,4)}, {R(4,4)}, {R(4,12), L(5,1)}, {R(5,7), L(6,6)},
     {R(6,2)}, {R(6,10), L(7,3)}, {R(7,5)} >>

polyt0_unpack ==
  << {R(0,0), L(1,8)}, {R(1,5), L(2,3), L(3,11)}, {R(3,2), L(4,6)},
     {R(4,7), L(5,1), L(6,9)}, {R(6,4), L(7,4), L(8,12)}, {R(8,1), L(9,7)},
     {R(9,6), L(10,2), L(11,10)}, {R(11,3), L(12,5)} >>

T0(pack, unpack) ==
  [t0 |-> Format(D, Below(2 ^ (D-1), 2 ^ (D-1) - 1, 2 ^ (D-1)), pack, unpack, All(13))]
polyt0 == T0(polyt0_pack, polyt0_unpack)

polyz_pack_17 ==
  << {R(0,0)}, {R(0,8)}, {R(0,16), L(1,2)}, {R(1,6)}, {R(1,14), L(2,4)}, {R(2,4)},
     {R(2,12), L(3,6)}, {R(3,2)}, {R(3,10)} >>

polyz_unpack_17 ==
  << {R(0,0), L(1,8), L(2,16)}, {R(2,2), L(3,6), L(4,14)},
     {R(4,4), L(5,4), L(6,12)}, {R(6,6), L(7,2), L(8,10)} >>

polyz_pack_19 ==
  << {R(0,0)}, {R(0,8)}, {R(0,16), L(1,4)}, {R(1,4)}, {R(1,12)} >>

polyz_unpack_19 == << {R(0,0), L(1,8), L(2,16)}, {R(2,4), L(3,4), L(4,12)} >>

(* With GAMMA1 = 2^19 the second mask is applied to the first coefficient   *)
(* once more; the second one has no bits above its width to lose.           *)
polyz ==
  [z17 |-> Format(18, Below(2^17, 2^17 - 1, 2^17), polyz_pack_17, polyz_unpack_17, All(18)),
   z19 |-> Format(20, Below(2^19, 2^19 - 1, 2^19), polyz_pack_19, polyz_unpack_19, <<20, 32>>)]

(* The high bits of w go into the hash and are never read back. *)
polyw1_pack_88 ==
  << {R(0,0), L(1,6)}, {R(1,2), L(2,4)}, {R(2,4), L(3,2)} >>

polyw1 == [w88 |-> Format(6, {0, 43}, polyw1_pack_88, <<>>, <<>>),
           w32 |-> Format(4, {0, 15}, Nibbles, <<>>, <<>>)]
-----------------------------------------------------------------------------
(* Dilithium: the same functions. *)
dilithium_polyeta == polyeta
dilithium_polyt1  == polyt1
dilithium_polyt0  == T0(polyt0_pack, polyt0_unpack)
dilithium_polyz   == polyz
dilithium_polyw1  == polyw1
-----------------------------------------------------------------------------
(* Aigis-sig stores PARAM_Q + ETA - x of an x that is itself PARAM_Q plus a *)
(* small number, and masks while it reads instead of afterwards.            *)
aigis_polyeta1_pack ==
  [eta1 |-> << {R(0,0), L(1,2), L(2,4), L(3,6)} >>,
   eta2 |-> << {R(0,0), L(1,3), L(2,6)},
               {R(2,2), L(3,1), L(4,4), L(5,7)},
               {R(5,1), L(6,2), L(7,5)} >>]

aigis_polyeta2_pack ==
  [eta3 |-> aigis_polyeta1_pack.eta2,
   eta5 |-> << {R(0,0), L(1,4)} >>]

Eight3 ==
  << {LM(0,3,0)}, {R(0,3)}, {R(0,6), LM(1,1,2)}, {R(1,1)},
     {R(1,4)}, {R(1,7), LM(2,2,1)}, {R(2,2)}, {R(2,5)} >>
Keep3 == <<32, 3, 32, 3, 3, 32, 3, 32>>

aigis_polyeta1_unpack ==
  [eta1 |-> << {LM(0,2,0)}, {R(0,2)}, {R(0,4)}, {R(0,6)} >>, eta2 |-> Eight3]
aigis_polyeta2_unpack == [eta3 |-> Eight3, eta5 |-> FromNibbles]

aigis_polyt1_pack == << {R(0,0)} >>

aigis_polyt0_pack ==
  [d13 |-> << {R(0,0)}, {R(0,8), L(1,5)}, {R(1,3)}, {R(1,11), L(2,2)}, {R(2,6), L(3,7)},
              {R(3,1)}, {R(3,9), L(4,4)}, {R(4,4)}, {R(4,12), L(5,1)}, {R(5,7), L(6,6)},
              {R(6,2)}, {R(6,10), L(7,3)}, {R(7,5)} >>,
   d14 |-> << {R(0,0)}, {R(0,8), L(1,6)}, {R(1,2)}, {R(1,10), L(2,4)}, {R(2,4)},
              {R(2,12), L(3,2)}, {R(3,6)} >>]

aigis_polyt0_unpack ==
  [d13 |-> << {R(0,0), LM(1,5,8)}, {R(1,5), L(2,3), LM(3,2,11)}, {R(3,2), LM(4,7,6)},
              {R(4,7), L(5,1), LM(6,4,9)}, {R(6,4), L(7,4), LM(8,1,12)},
              {R(8,1), LM(9,6,7)}, {R(9,6), L(10,2), LM(11,3,10)}, {R(11,3), L(12,5)} >>,
   d14 |-> << {R(0,0), LM(1,6,8)}, {R(1,6), L(2,2), LM(3,4,10)},
              {R(3,4), L(4,4), LM(5,2,12)}, {R(5,2), L(6,6)} >>]

aigis_polyz_pack ==
  << {R(0,0)}, {R(0,8)}, {R(0,16), L(1,2)}, {R(1,6)}, {R(1,14), L(2,4)}, {R(2,4)},
     {R(2,12), L(3,6)}, {R(3,2)}, {R(3,10)} >>

aigis_polyz_unpack ==
  << {R(0,0), L(1,8), LM(2,2,16)}, {R(2,2), L(3,6), LM(4,4,14)},
     {R(4,4), L(5,4), LM(6,6,12)}, {R(6,6), L(7,2), L(8,10)} >>

aigis_polyw1_pack ==
  << {R(0,0), L(1,3), L(2,6)}, {R(2,2), L(3,1), L(4,4), L(5,7)},
     {R(5,1), L(6,2), L(7,5)} >>

(* Responses are below GAMMA1 - BETA1 in absolute value, BETA1 at least 60. *)
aigis ==
  [eta1 |-> Format(2, Below(1, 1, 1), aigis_polyeta1_pack.eta1, aigis_polyeta1_unpack.eta1, <<32, 2, 2, 2>>),
   eta2 |-> Format(3, Below(2, 2, 2), aigis_polyeta1_pack.eta2, aigis_polyeta1_unpack.eta2, Keep3),
   eta3 |-> Format(3, Below(3, 3, 3), aigis_polyeta2_pack.eta3, aigis_polyeta2_unpack.eta3, Keep3),
   eta5 |-> Format(4, Below(5, 5, 5), aigis_polyeta2_pack.eta5, aigis_polyeta2_unpack.eta5, All(32)),
   t1   |-> Format(8, {0, 255}, aigis_polyt1_pack, << {R(0,0)} >>, All(32)),
   d13  |-> Format(13, Below(2^12, 2^12 - 1, 2^12), aigis_polyt0_pack.d13, aigis_polyt0_unpack.d13, All(32)),
   d14  |-> Format(14, Below(2^13, 2^13 - 1, 2^13), aigis_polyt0_pack.d14, aigis_polyt0_unpack.d14, All(32)),
   z    |-> Format(18, Below(2^17 - 1, 2^17 - 61, 2^17 - 61), aigis_polyz_pack, aigis_polyz_unpack, All(32)),
   w1   |-> Format(3, {0, 5}, aigis_polyw1_pack, <<>>, <<>>)]
-----------------------------------------------------------------------------

Codes(d, pack, unpack, keep) == Format(d, {0, 2 ^ d - 1}, pack, unpack, keep)

poly_compress_4   == << {R(0,0), L(1,4)} >>
poly_decompress_4 == << {LM(0,4,0)}, {R(0,4)} >>

poly_compress_5 ==
  << {R(0,0), L(1,5)}, {R(1,3), L(2,2), L(3,7)}, {R(3,1), L(4,4)},
     {R(4,4), L(5,1), L(6,6)}, {R(6,2), L(7,3)} >>

poly_decompress_5 ==
  << {R(0,0)}, {R(0,5), L(1,3)}, {R(1,2)}, {R(1,7), L(2,1)},
     {R(2,4), L(3,4)}, {R(3,1)}, {R(3,6), L(4,2)}, {R(4,3)} >>

polyvec_compress_11 ==
  << {R(0,0)}, {R(0,8), L(1,3)}, {R(1,5), L(2,6)}, {R(2,2)}, {R(2,10), L(3,1)},
     {R(3,7), L(4,4)}, {R(4,4), L(5,7)}, {R(5,1)}, {R(5,9), L(6,2)},
     {R(6,6), L(7,5)}, {R(7,3)} >>

polyvec_decompress_11 ==
  << {R(0,0), L(1,8)}, {R(1,3), L(2,5)}, {R(2,6), L(3,2), L(4,10)}, {R(4,1), L(5,7)},
     {R(5,4), L(6,4)}, {R(6,7), L(7,1), L(8,9)}, {R(8,2), L(9,6)}, {R(9,5), L(10,3)} >>

polyvec_compress_10 ==
  << {R(0,0)}, {R(0,8), L(1,2)}, {R(1,6), L(2,4)}, {R(2,4), L(3,6)}, {R(3,2)} >>

polyvec_decompress_10 ==
  << {R(0,0), L(1,8)}, {R(1,2), L(2,6)}, {R(2,4), L(3,4)}, {R(3,6), L(4,2)} >>

(* Two coefficients of the modulus 3329 to three bytes. *)
poly_tobytes   == << {R(0,0)}, {R(0,8), L(1,4)}, {R(1,4)} >>
poly_frombytes == << {R(0,0), L(1,8)}, {R(1,4), L(2,4)} >>

ml_kem ==
  [v4  |-> Codes(4, poly_compress_4, poly_decompress_4, All(32)),
   v5  |-> Codes(5, poly_compress_5, poly_decompress_5, All(5)),
   u10 |-> Codes(10, polyvec_compress_10, polyvec_decompress_10, All(10)),
   u11 |-> Codes(11, polyvec_compress_11, polyvec_decompress_11, All(11)),
   s12 |-> Format(12, {0, 3328}, poly_tobytes, poly_frombytes, All(12))]
-----------------------------------------------------------------------------
(* Kyber: poly.c and polyvec.c as above. *)
kyber_poly_compress == [v4 |-> poly_compress_4, v5 |-> poly_compress_5]
kyber_poly_decompress == [v4 |-> poly_decompress_4, v5 |-> poly_decompress_5]
kyber_polyvec_compress == [u10 |-> polyvec_compress_10, u11 |-> polyvec_compress_11]
kyber_polyvec_decompress == [u10 |-> polyvec_decompress_10, u11 |-> polyvec_decompress_11]
kyber_poly_tobytes == poly_tobytes
kyber_poly_frombytes == poly_frombytes

kyber ==
  [v4  |-> Codes(4, kyber_poly_compress.v4, kyber_poly_decompress.v4, All(32)),
   v5  |-> Codes(5, kyber_poly_compress.v5, kyber_poly_decompress.v5, All(5)),
   u10 |-> Codes(10, kyber_polyvec_compress.u10, kyber_polyvec_decompress.u10, All(10)),
   u11 |-> Codes(11, kyber_polyvec_compress.u11, kyber_polyvec_decompress.u11, All(11)),
   s12 |-> Format(12, {0, 3328}, kyber_poly_tobytes, kyber_poly_frombytes, All(12))]
-----------------------------------------------------------------------------
(* Aigis-enc masks its operands before they are moved, and has 32-bit words *)
(* while it packs.                                                          *)
aigis_poly_compress ==
  [v3 |-> << {R(0,0), L(1,3), L(2,6)}, {R(2,2), L(3,1), L(4,4), L(5,7)},
             {R(5,1), L(6,2), L(7,5)} >>,
   v4 |-> << {R(0,0), L(1,4)} >>,
   v5 |-> << {R(0,0), L(1,5)}, {R(1,3), L(2,2), L(3,7)}, {R(3,1), L(4,4)},
             {R(4,4), L(5,1), L(6,6)}, {R(6,2), L(7,3)} >>,
   v7 |-> << {R(0,0), L(1,7)}, {R(1,1), L(2,6)}, {R(2,2), L(3,5)}, {R(3,3), L(4,4)},
             {R(4,4), L(5,3)}, {R(5,5), L(6,2)}, {R(6,6), L(7,1)} >>]

(* (a[1] << 2) & 4 keeps the lowest bit of a[1], (a[2] << 1) & 6 two. *)
aigis_poly_decompress ==
  [v3 |-> << {LM(0,3,0)}, {R(0,3)}, {R(0,6), LM(1,1,2)}, {R(1,1)},
             {R(1,4)}, {R(1,7), LM(2,2,1)}, {R(2,2)}, {R(2,5)} >>,
   v4 |-> << {LM(0,4,0)}, {R(0,4)} >>,
   v5 |-> << {LM(0,5,0)}, {R(0,5), LM(1,2,3)}, {R(1,2)}, {R(1,7), LM(2,4,1)},
             {R(2,4), LM(3,1,4)}, {R(3,1)}, {R(3,6), LM(4,3,2)}, {R(4,3)} >>,
   v7 |-> << {LM(0,7,0)}, {R(0,7), LM(1,6,1)}, {R(1,6), LM(2,5,2)}, {R(2,5), LM(3,4,3)},
             {R(3,4), LM(4,3,4)}, {R(4,3), LM(5,2,5)}, {R(5,2), LM(6,1,6)}, {R(6,1)} >>]

aigis_polyvec_compress9 ==
  << {LM(0,8,0)}, {R(0,8), LM(1,7,1)}, {R(1,7), LM(2,6,2)}, {R(2,6), LM(3,5,3)},
     {R(3,5), LM(4,4,4)}, {R(4,4), LM(5,3,5)}, {R(5,3), LM(6,2,6)},
     {R(6,2), LM(7,1,7)}, {R(7,1)} >>

aigis_polyvec_compress10 ==
  << {LM(0,8,0)}, {R(0,8), LM(1,6,2)}, {R(1,6), LM(2,4,4)}, {R(2,4), LM(3,2,6)}, {R(3,2)} >>

aigis_polyvec_compress11 ==
  << {LM(0,8,0)}, {R(0,8), LM(1,5,3)}, {R(1,5), LM(2,2,6)}, {R(2,2)}, {R(2,10), LM(3,7,1)},
     {R(3,7), LM(4,4,4)}, {R(4,4), LM(5,1,7)}, {R(5,1)}, {R(5,9), LM(6,6,2)},
     {R(6,6), LM(7,3,5)}, {R(7,3)} >>

aigis_polyvec_decompress9 ==
  << {R(0,0), LM(1,1,8)}, {R(1,1), LM(2,2,7)}, {R(2,2), LM(3,3,6)}, {R(3,3), LM(4,4,5)},
     {R(4,4), LM(5,5,4)}, {R(5,5), LM(6,6,3)}, {R(6,6), LM(7,7,2)}, {R(7,7), L(8,1)} >>

aigis_polyvec_decompress10 ==
  << {R(0,0), LM(1,2,8)}, {R(1,2), LM(2,4,6)}, {R(2,4), LM(3,6,4)}, {R(3,6), L(4,2)} >>

aigis_polyvec_decompress11 ==
  << {R(0,0), LM(1,3,8)}, {R(1,3), LM(2,6,5)}, {R(2,6), LM(3,8,2), LM(4,1,10)},
     {R(4,1), LM(5,4,7)}, {R(5,4), LM(6,7,4)}, {R(6,7), LM(7,8,1), LM(8,2,9)},
     {R(8,2), LM(9,5,6)}, {R(9,5), LM(10,8,3)} >>

aigis_poly_tobytes ==
  << {LM(0,8,0)}, {R(0,8), LM(1,3,5)}, {R(1,3)}, {R(1,11), LM(2,6,2)}, {R(2,6), LM(3,1,7)},
     {R(3,1)}, {R(3,9), LM(4,4,4)}, {R(4,4)}, {R(4,12), LM(5,7,1)}, {R(5,7), LM(6,2,6)},
     {R(6,2)}, {R(6,10), LM(7,5,3)}, {R(7,5)} >>

aigis_poly_frombytes ==
  << {R(0,0), LM(1,5,8)}, {R(1,5), L(2,3), LM(3,2,11)}, {R(3,2), LM(4,7,6)},
     {R(4,7), L(5,1), LM(6,4,9)}, {R(6,4), L(7,4), LM(8,1,12)}, {R(8,1), LM(9,6,7)},
     {R(9,6), L(10,2), LM(11,3,10)}, {R(11,3), L(12,5)} >>

(* What the mask after the shift keeps of v3 and v5; v7 has no such mask. *)
aigis_enc ==
  [v3  |-> Codes(3, aigis_poly_compress.v3, aigis_poly_decompress.v3, <<32,3,32,3,3,32,3,32>>),
   v4  |-> Codes(4, aigis_poly_compress.v4, aigis_poly_decompress.v4, All(32)),
   v5  |-> Codes(5, aigis_poly_compress.v5, aigis_poly_decompress.v5, <<32,32,5,32,32,5,32,32>>),
   v7  |-> Codes(7, aigis_poly_compress.v7, aigis_poly_decompress.v7, All(32)),
   u9  |-> Codes(9, aigis_polyvec_compress9, aigis_polyvec_decompress9, All(32)),
   u10 |-> Codes(10, aigis_polyvec_compress10, aigis_polyvec_decompress10, All(32)),
   u11 |-> Codes(11, aigis_polyvec_compress11, aigis_polyvec_decompress11, All(32)),
   s13 |-> Format(13, {0, 7680}, aigis_poly_tobytes, aigis_poly_frombytes, All(32))]
-----------------------------------------------------------------------------
(* n pieces of one kind, stride bytes apart. *)
Group(name, n, stride, width) ==
  [name |-> name, n |-> n, stride |-> stride, width |-> width]
Bytes(name, width) == Group(name, 1, width, width)

Pieces(at, g) ==
  [i \in 1 .. g.n |->
     [name |-> <<g.name, i>>, at |-> at + (i - 1) * g.stride, width |-> g.width]]

(* A pointer that is moved past every group. *)
Walk(groups) ==
  FoldLeft(LAMBDA w, g : [at |-> w.at + g.n * g.stride,
                          pieces |-> w.pieces \o Pieces(w.at, g)],
           [at |-> 0, pieces |-> <<>>], groups).pieces

Piece(name, at, width) == <<[name |-> <<name, 1>>, at |-> at, width |-> width]>>

(* The bytes a packing function writes, and those an unpacking one reads.  *)
Packed(f) == (256 \div f.n) * Len(f.pack)
Unpacked(f) ==
  (256 \div f.n) * (1 + Max(UNION {{o[1] : o \in f.unpack[c]} : c \in DOMAIN f.unpack}))
-----------------------------------------------------------------------------
(* ML-DSA and Dilithium. *)
Eta(p) == polyeta[IF p.mode.eta = 2 THEN "eta2" ELSE "eta4"]
Z(p)   == polyz[IF p.mode.gamma1 = 2^17 THEN "z17" ELSE "z19"]

pack_pk(p) ==
  Walk(<<Bytes("rho", 32), Group("t1", p.mode.k, p.mode.polyt1, Packed(polyt1.t1))>>)
unpack_pk(p) ==
  Walk(<<Bytes("rho", 32), Group("t1", p.mode.k, p.mode.polyt1, Unpacked(polyt1.t1))>>)

(* Mutant: the order of the comment above the function. *)
pack_sk_as_described(p) ==
  LET m == p.mode IN
  Walk(<<Bytes("rho", 32), Bytes("tr", p.tr), Bytes("key", 32),
         Group("t0", m.k, m.polyt0, Packed(polyt0.t0)),
         Group("s1", m.l, m.polyeta, Packed(Eta(p))),
         Group("s2", m.k, m.polyeta, Packed(Eta(p)))>>)

pack_sk(p) ==
  LET m == p.mode IN
  Walk(<<Bytes("rho", 32), Bytes("key", 32), Bytes("tr", p.tr),
         Group("s1", m.l, m.polyeta, Packed(Eta(p))),
         Group("s2", m.k, m.polyeta, Packed(Eta(p))),
         Group("t0", m.k, m.polyt0, Packed(polyt0.t0))>>)
unpack_sk(p) ==
  LET m == p.mode IN
  Walk(<<Bytes("rho", 32), Bytes("key", 32), Bytes("tr", p.tr),
         Group("s1", m.l, m.polyeta, Unpacked(Eta(p))),
         Group("s2", m.k, m.polyeta, Unpacked(Eta(p))),
         Group("t0", m.k, m.polyt0, Unpacked(polyt0.t0))>>)

(* The hints are written by HintCodec: positions and row ends. *)
pack_sig(p) ==
  LET m == p.mode IN
  Walk(<<Bytes("c", p.ctilde), Group("z", m.l, m.polyz, Packed(Z(p))),
         Bytes("h", m.omega + m.k)>>)
unpack_sig(p) ==
  LET m == p.mode IN
  Walk(<<Bytes("c", p.ctilde), Group("z", m.l, m.polyz, Unpacked(Z(p))),
         Bytes("h", m.omega + m.k)>>)

dilithium_pack_pk(p)    == pack_pk(p)
dilithium_unpack_pk(p)  == unpack_pk(p)
dilithium_pack_sk(p)    == pack_sk(p)
dilithium_unpack_sk(p)  == unpack_sk(p)
dilithium_pack_sig(p)   == pack_sig(p)
dilithium_unpack_sig(p) == unpack_sig(p)
-----------------------------------------------------------------------------
(* Aigis-sig: rho, key and the digest of pk in one piece, challenge last.  *)
Eta1(p) == aigis[IF p.eta1 = 1 THEN "eta1" ELSE "eta2"]
Eta2(p) == aigis[IF p.eta2 = 3 THEN "eta3" ELSE "eta5"]
T0of(p) == aigis[IF p.d = 13 THEN "d13" ELSE "d14"]

aigis_pack_pk(p) ==
  Walk(<<Bytes("rho", 32), Group("t1", p.k, p.polt1, Packed(aigis.t1))>>)
aigis_unpack_pk(p) ==
  Walk(<<Bytes("rho", 32), Group("t1", p.k, p.polt1, Unpacked(aigis.t1))>>)

aigis_pack_sk(p) ==
  Walk(<<Bytes("buf", 2 * 32 + 48), Group("s1", p.l, p.poleta1, Packed(Eta1(p))),
         Group("s2", p.k, p.poleta2, Packed(Eta2(p))),
         Group("t0", p.k, p.polt0, Packed(T0of(p)))>>)
aigis_unpack_sk(p) ==
  Walk(<<Bytes("buf", 2 * 32 + 48), Group("s1", p.l, p.poleta1, Unpacked(Eta1(p))),
         Group("s2", p.k, p.poleta2, Unpacked(Eta2(p))),
         Group("t0", p.k, p.polt0, Unpacked(T0of(p)))>>)

aigis_pack_sig(p) ==
  Walk(<<Group("z", p.l, p.polz, Packed(aigis.z)), Bytes("h", p.omega + p.k),
         Bytes("c", 256 \div 8), Bytes("signs", 8)>>)
(* The signs are read first, from behind the positions of the challenge.   *)
aigis_unpack_sig(p) ==
  LET c == p.l * p.polz + p.omega + p.k IN
  Walk(<<Group("z", p.l, p.polz, Unpacked(aigis.z)), Bytes("h", p.omega + p.k)>>) \o
  Piece("signs", c + 256 \div 8, 8) \o Piece("c", c, 256 \div 8)
-----------------------------------------------------------------------------
(* ML-KEM and Kyber: vectors with a stride of their own, everything else at *)
(* an offset from the start or, in the secret key, from the end.            *)
CodeU(p) == ml_kem[IF p.polyveccompressed = p.k * 352 THEN "u11" ELSE "u10"]
CodeV(p) == ml_kem[IF p.polycompressed = 128 THEN "v4" ELSE "v5"]

polyvec_tobytes(p)   == Pieces(0, Group("vec", p.k, p.polybytes, Packed(ml_kem.s12)))
polyvec_frombytes(p) == Pieces(0, Group("vec", p.k, p.polybytes, Unpacked(ml_kem.s12)))

indcpa_pack_pk(p)   == polyvec_tobytes(p) \o Piece("seed", p.polyvecbytes, 32)
indcpa_unpack_pk(p) == polyvec_frombytes(p) \o Piece("seed", p.polyvecbytes, 32)

pack_ciphertext(p) ==
  Walk(<<Group("u", p.k, Packed(CodeU(p)), Packed(CodeU(p)))>>) \o
  Piece("v", p.polyveccompressed, Packed(CodeV(p)))
unpack_ciphertext(p) ==
  Walk(<<Group("u", p.k, Packed(CodeU(p)), Unpacked(CodeU(p)))>>) \o
  Piece("v", p.polyveccompressed, Unpacked(CodeV(p)))

crypto_kem_keypair_sk(p) ==
  polyvec_tobytes(p) \o Piece("pk", p.polyvecbytes, p.pk) \o
  Piece("H(pk)", p.sk - 2 * 32, 32) \o Piece("z", p.sk - 32, 32)
crypto_kem_dec_sk(p) ==
  polyvec_frombytes(p) \o Piece("H(pk)", p.sk - 2 * 32, 32) \o
  Piece("pk", p.polyvecbytes, p.pk) \o Piece("z", p.sk - 32, 32)

kyber_pack_pk(p)           == indcpa_pack_pk(p)
kyber_unpack_pk(p)         == indcpa_unpack_pk(p)
kyber_pack_ciphertext(p)   == pack_ciphertext(p)
kyber_unpack_ciphertext(p) == unpack_ciphertext(p)
kyber_keypair_sk(p)        == crypto_kem_keypair_sk(p)
kyber_dec_sk(p)            == crypto_kem_dec_sk(p)
-----------------------------------------------------------------------------
(* Aigis-enc compresses its public key as well. *)
polyvec_pk_compress(p)   == aigis_enc[CASE p.bits_pk = 9 -> "u9" [] p.bits_pk = 10 -> "u10"
                                        [] OTHER -> "u11"]
polyvec_ct_compress(p)   == aigis_enc[CASE p.bits_c1 = 9 -> "u9" [] p.bits_c1 = 10 -> "u10"
                                        [] OTHER -> "u11"]
poly_code(p) == aigis_enc[CASE p.bits_c2 = 3 -> "v3" [] p.bits_c2 = 4 -> "v4"
                            [] OTHER -> "v5"]

owcpa_pack_pk(p) ==
  LET f == polyvec_pk_compress(p) IN
  Walk(<<Group("vec", p.k, Packed(f), Packed(f))>>) \o Piece("seed", p.pkvec, 32)
owcpa_unpack_pk(p) ==
  LET f == polyvec_pk_compress(p) IN
  Piece("seed", p.pkvec, 32) \o Walk(<<Group("vec", p.k, Packed(f), Unpacked(f))>>)

owcpa_pack_ciphertext(p) ==
  LET f == polyvec_ct_compress(p) IN
  Walk(<<Group("u", p.k, Packed(f), Packed(f))>>) \o Piece("v", p.ctvec, Packed(poly_code(p)))
owcpa_unpack_ciphertext(p) ==
  LET f == polyvec_ct_compress(p) IN
  Walk(<<Group("u", p.k, Packed(f), Unpacked(f))>>) \o
  Piece("v", p.ctvec, Unpacked(poly_code(p)))

aigis_keypair_sk(p) ==
  Pieces(0, Group("vec", p.k, p.polybytes, Packed(aigis_enc.s13))) \o
  Piece("pk", p.polyvecbytes, p.pk) \o
  Piece("H(pk)", p.sk - 2 * 32, 32) \o Piece("z", p.sk - 32, 32)
aigis_dec_sk(p) ==
  Pieces(0, Group("vec", p.k, p.polybytes, Unpacked(aigis_enc.s13))) \o
  Piece("H(pk)", p.sk - 2 * 32, 32) \o Piece("pk", p.polyvecbytes, p.pk) \o
  Piece("z", p.sk - 32, 32)
-----------------------------------------------------------------------------
(* The SPHINCS schemes.  The seed of three hashes is copied whole into the  *)
(* secret key, the root is computed behind it.                              *)
seed_keypair_pk(p) == Piece("pub_seed", 0, p.n) \o Piece("root", p.n, p.n)
seed_keypair_sk(p) ==
  Piece("sk_seed", 0, p.n) \o Piece("sk_prf", p.n, p.n) \o
  Piece("pub_seed", 2 * p.n, p.n) \o Piece("root", 3 * p.n, p.n)

(* The signer's pk is the second half of its secret key. *)
signature_sk(p) ==
  Piece("sk_prf", p.n, p.n) \o Piece("sk_seed", 0, p.n) \o
  Piece("pub_seed", 2 * p.n, p.n) \o Piece("root", 2 * p.n + p.n, p.n)
verify_pk(p) == Piece("root", p.n, p.n) \o Piece("pub_seed", 0, p.n)

(* One layer of the hypertree: chains, then the path behind WOTS_BYTES.    *)
fors_sign(p, at) ==
  FlattenSeq([t \in 1 .. p.k |->
    LET tree == at + (t - 1) * (p.n + p.n * p.a) IN
    <<[name |-> <<"fors_sk", t>>, at |-> tree, width |-> p.n],
      [name |-> <<"fors_path", t>>, at |-> tree + p.n, width |-> p.n * p.a]>>])
merkle_sign(p, layer, at) ==
  <<[name |-> <<"path", layer>>, at |-> at + p.wots_bytes, width |-> p.tree_height * p.n],
    [name |-> <<"wots", layer>>, at |-> at, width |-> p.len * p.n]>>

signature_sig(p) ==
  Piece("R", 0, p.n) \o fors_sign(p, p.n) \o
  FlattenSeq([i \in 1 .. p.d |->
    merkle_sign(p, i, p.n + p.fors_bytes + (i - 1) * (p.wots_bytes + p.tree_height * p.n))])

(* The verifier's pointer is moved past every part as it is used. *)
verify_sig(p) ==
  Walk(<<Bytes("R", p.n)>>) \o fors_sign(p, p.n) \o
  FlattenSeq([i \in 1 .. p.d |->
    LET at == p.n + p.fors_bytes + (i - 1) * (p.wots_bytes + p.tree_height * p.n)
    IN  <<[name |-> <<"wots", i>>, at |-> at, width |-> p.len * p.n],
          [name |-> <<"path", i>>, at |-> at + p.wots_bytes,
           width |-> p.tree_height * p.n]>>])
-----------------------------------------------------------------------------

Object(write, read) == [write |-> write, read |-> read]

(* The byte strings of a parameter set and the functions that make them.   *)
ml_dsa_objects(p) ==
  [pk |-> Object(pack_pk(p), unpack_pk(p)), sk |-> Object(pack_sk(p), unpack_sk(p)),
   sig |-> Object(pack_sig(p), unpack_sig(p))]
dilithium_objects(p) ==
  [pk |-> Object(dilithium_pack_pk(p), dilithium_unpack_pk(p)),
   sk |-> Object(dilithium_pack_sk(p), dilithium_unpack_sk(p)),
   sig |-> Object(dilithium_pack_sig(p), dilithium_unpack_sig(p))]
aigis_sig_objects(p) ==
  [pk |-> Object(aigis_pack_pk(p), aigis_unpack_pk(p)),
   sk |-> Object(aigis_pack_sk(p), aigis_unpack_sk(p)),
   sig |-> Object(aigis_pack_sig(p), aigis_unpack_sig(p))]
sphincs_objects(p) ==
  [pk |-> Object(seed_keypair_pk(p), verify_pk(p)),
   sk |-> Object(seed_keypair_sk(p), signature_sk(p)),
   sig |-> Object(signature_sig(p), verify_sig(p))]
ml_kem_objects(p) ==
  [pk |-> Object(indcpa_pack_pk(p), indcpa_unpack_pk(p)),
   sk |-> Object(crypto_kem_keypair_sk(p), crypto_kem_dec_sk(p)),
   ct |-> Object(pack_ciphertext(p), unpack_ciphertext(p))]
kyber_objects(p) ==
  [pk |-> Object(kyber_pack_pk(p), kyber_unpack_pk(p)),
   sk |-> Object(kyber_keypair_sk(p), kyber_dec_sk(p)),
   ct |-> Object(kyber_pack_ciphertext(p), kyber_unpack_ciphertext(p))]
aigis_enc_objects(p) ==
  [pk |-> Object(owcpa_pack_pk(p), owcpa_unpack_pk(p)),
   sk |-> Object(aigis_keypair_sk(p), aigis_dec_sk(p)),
   ct |-> Object(owcpa_pack_ciphertext(p), owcpa_unpack_ciphertext(p))]

(* The schemes: their parameter sets, byte strings and prototypes. *)
Scheme(params, Objects(_), calls) ==
  [a \in DOMAIN params |->
     [params |-> params[a], objects |-> Objects(params[a]), calls |-> calls]]

-----------------------------------------------------------------------------
(* The prototypes in the headers of the schemes, which their sources see.  *)
ml_dsa_sign_h ==
  [keypair |-> <<"pk", "sk">>,
   keypair_internal |-> <<"pk", "sk", "coins">>,
   signature |-> <<"sig", "siglen", "m", "mlen", "ctx", "ctx_len", "sk">>,
   signature_internal |-> <<"sig", "siglen", "m", "mlen", "coins", "sk">>,
   verify |-> <<"sig", "siglen", "m", "mlen", "ctx", "ctx_len", "pk">>,
   verify_internal |-> <<"sig", "siglen", "m", "mlen", "pk">>,
   sign |-> <<"sm", "smlen", "m", "mlen", "ctx", "ctx_len", "sk">>,
   open |-> <<"m", "mlen", "sm", "smlen", "ctx", "ctx_len", "pk">>]

aigis_sign_h ==
  [ml_dsa_sign_h EXCEPT !.signature_internal = <<"sig", "siglen", "m", "mlen", "sk">>]

dilithium_sign_h ==
  [keypair |-> <<"pk", "sk">>,
   keypair_internal |-> <<"pk", "sk", "coins">>,
   signature |-> <<"sig", "siglen", "m", "mlen", "sk">>,
   signature_internal |-> <<"sig", "siglen", "m", "mlen", "coins", "sk">>,
   verify |-> <<"sig", "siglen", "m", "mlen", "pk">>,
   sign |-> <<"sm", "smlen", "m", "mlen", "sk">>,
   open |-> <<"m", "mlen", "sm", "smlen", "pk">>]

(* seed_keypair and the functions that return sizes have no public name.   *)
slh_dsa_api_h ==
  [keypair |-> <<"pk", "sk">>,
   signature |-> <<"sig", "siglen", "m", "mlen", "sk">>,
   verify |-> <<"sig", "siglen", "m", "mlen", "pk">>,
   sign |-> <<"sm", "smlen", "m", "mlen", "sk">>,
   open |-> <<"m", "mlen", "sm", "smlen", "pk">>]
sphincs_a_api_h == slh_dsa_api_h

ml_kem_kem_h ==
  [keypair |-> <<"pk", "sk">>,
   keypair_internal |-> <<"pk", "sk", "coins">>,
   enc |-> <<"ct", "ss", "pk">>,
   enc_internal |-> <<"ct", "ss", "pk", "coins">>,
   dec |-> <<"ss", "ct", "sk">>]
kyber_kem_h     == ml_kem_kem_h
aigis_enc_api_h == ml_kem_kem_h

AllSchemes ==
  Scheme(ml_dsa, ml_dsa_objects, ml_dsa_sign_h) @@
  Scheme(dilithium, dilithium_objects, dilithium_sign_h) @@
  Scheme(aigis_sig, aigis_sig_objects, aigis_sign_h) @@
  Scheme(slh_dsa, sphincs_objects, slh_dsa_api_h) @@
  Scheme(sphincs_a, sphincs_objects, sphincs_a_api_h) @@
  Scheme(ml_kem_params, ml_kem_objects, ml_kem_kem_h) @@
  Scheme(kyber_params, kyber_objects, kyber_kem_h) @@
  Scheme(aigis_enc_params, aigis_enc_objects, aigis_enc_api_h)
-----------------------------------------------------------------------------
(* All tables of all schemes.                                              *)
Tables ==
  [ml_dsa    |-> polyeta @@ polyt1 @@ polyt0 @@ polyz @@ polyw1,
   dilithium |-> dilithium_polyeta @@ dilithium_polyt1 @@
                 dilithium_polyt0 @@ dilithium_polyz @@ dilithium_polyw1,
   aigis_sig |-> aigis, ml_kem |-> ml_kem, kyber |-> kyber,
   aigis_enc |-> aigis_enc]

AllFormats ==
  [x \in UNION {{s} \X DOMAIN Tables[s] : s \in DOMAIN Tables} |-> Tables[x[1]][x[2]]]
-----------------------------------------------------------------------------
(* The size the caller knows; parameter sets that are not in the public    *)
(* header are used with their own macros.                                  *)
Declared(a, o) ==
  IF a \in DOMAIN pqmagic_api THEN pqmagic_api[a].size[o] ELSE AllSchemes[a].params[o]

VARIABLES alg, object,
          size,             \* bytes the caller has allocated
          todo,             \* the pieces the writer puts, and the reader takes
          phase,
          step,             \* pieces done in this phase
          slots             \* where the writer has put what

vars == <<alg, object, size, todo, phase, step, slots>>

Slot(p) == [first |-> p.at, last |-> p.at + p.width - 1]

Init == /\ alg \in DOMAIN AllSchemes
        /\ object \in DOMAIN AllSchemes[alg].objects
        /\ size = Declared(alg, object)
        /\ todo = AllSchemes[alg].objects[object]
        /\ phase = "write" /\ step = 0 /\ slots = <<>>

Write == /\ phase = "write" /\ step < Len(todo.write)
         /\ LET p == todo.write[step + 1] IN slots' = slots @@ (p.name :> Slot(p))
         /\ step' = step + 1
         /\ UNCHANGED <<alg, object, size, todo, phase>>

HandOver == /\ phase = "write" /\ step = Len(todo.write)
            /\ phase' = "read" /\ step' = 0
            /\ UNCHANGED <<alg, object, size, todo, slots>>

Read == /\ phase = "read" /\ step < Len(todo.read)
        /\ step' = step + 1
        /\ UNCHANGED <<alg, object, size, todo, phase, slots>>

Next == Write \/ HandOver \/ Read

Spec == Init /\ [][Next]_vars
-----------------------------------------------------------------------------
Size(s) == s.last - s.first + 1
Apart(s, t) == s.last < t.first \/ t.last < s.first

(* Whatever is packed lands inside the buffer a caller of the public header *)
(* has allocated, and two pieces never share a byte.                        *)
StaysInBuffer ==
  /\ \A x \in DOMAIN slots : slots[x].first >= 0 /\ slots[x].last < size
  /\ phase = "write" /\ step > 0 =>
       LET new == todo.write[step].name IN
       \A x \in DOMAIN slots \ {new} : Apart(slots[x], slots[new])

(* No byte is left as the caller had it, and what is read under a name is   *)
(* what was written under it, to the last byte.                             *)
ReadsWhatWasWritten ==
  phase = "read" =>
    /\ step = 0 => MapThenSumSet(LAMBDA x : Size(slots[x]), DOMAIN slots)
                     = size
    /\ step > 0 => LET p == todo.read[step] IN
                   p.name \in DOMAIN slots /\ Slot(p) = slots[p.name]

(* A call through the public header puts every argument where the function *)
(* expects it, and sizes agree with the macros the function is built with. *)
DeclaredAsDefined ==
  alg \in DOMAIN pqmagic_api /\ phase = "write" /\ step = 0 =>
    /\ pqmagic_api[alg].calls = AllSchemes[alg].calls
    /\ \A o \in DOMAIN pqmagic_api[alg].size :
         pqmagic_api[alg].size[o] = AllSchemes[alg].params[o]

(* pack_pk, pack_sk, pack_sig and their readers: writer, reader and the      *)
(* caller's allocation agree.                                              *)
LayoutsAgree == StaysInBuffer /\ ReadsWhatWasWritten
=============================================================================
