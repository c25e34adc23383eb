----------------------------- MODULE BitPacking -----------------------------
(***************************************************************************)
(* The loops that turn a polynomial into bytes and back.  Every scheme     *)
(* unrolls them by hand for each width of a coefficient: a table says      *)
(* which coefficients are or-ed into which byte, by which shifts, and      *)
(* another which bytes are or-ed into which coefficient.                   *)
(*                                                                         *)
(* A word is the set of its bits, a bit a pair: its place in the word and  *)
(* its name.  Names are places in the polynomial, so that a bit that is    *)
(* lost, moved, or or-ed on top of another one can be seen.                *)
(***************************************************************************)
EXTENDS Integers, Sequences

CONSTANTS N,          \* coefficients of a polynomial, a multiple of 8
          Formats     \* the tables, by name

Moved(word, operand) ==
  {<<b[1] + operand[3], b[2]>> :
     b \in {x \in word : x[1] < operand[2] /\ x[1] + operand[3] >= 0}}

Or(words, operands, base) ==
  UNION {Moved(words[base + o[1]], o) : o \in operands}

Low(word, bits) == {b \in word : b[1] < bits}

PackedBytes(f) == (N \div f.n) * Len(f.pack)
Coefficient(f, c) == {<<p, <<c, p>>>> : p \in 0 .. f.width - 1}
-----------------------------------------------------------------------------
VARIABLES format, phase,
          i,                \* the group, counter of both loops
          r,                \* the bytes written
          coeffs            \* the coefficients read back

vars == <<format, phase, i, r, coeffs>>

Stale == {<<p, <<"stale", p>>>> : p \in 0 .. 31}   \* the buffer of the caller

Init == /\ format \in DOMAIN Formats
        /\ phase = "pack"
        /\ i = 0
        /\ r = [k \in 0 .. PackedBytes(Formats[format]) - 1 |-> Stale]
        /\ coeffs = [c \in 0 .. N - 1 |-> Stale]

(* Mutant: the counter not multiplied by the size of a group. *)
PackGroup_counter ==
  LET f == Formats[format]
      words == [c \in 0 .. N - 1 |-> Coefficient(f, c)]
      m == Len(f.pack)
  IN  /\ phase = "pack" /\ i < N \div f.n
      /\ r' = [k \in DOMAIN r |->
                 IF k \div m = i
                 THEN Low(Or(words, f.pack[(k % m) + 1], i), 8)
                 ELSE r[k]]
      /\ i' = i + 1
      /\ UNCHANGED <<format, phase, coeffs>>

(* One iteration of poly*_pack. *)
PackGroup ==
  LET f == Formats[format]
      words == [c \in 0 .. N - 1 |-> Coefficient(f, c)]
      m == Len(f.pack)
  IN  /\ phase = "pack" /\ i < N \div f.n
      /\ r' = [k \in DOMAIN r |->
                 IF k \div m = i
                 THEN Low(Or(words, f.pack[(k % m) + 1], i * f.n), 8)
                 ELSE r[k]]
      /\ i' = i + 1
      /\ UNCHANGED <<format, phase, coeffs>>

Turn == /\ phase = "pack" /\ i = N \div Formats[format].n
        /\ phase' = "unpack" /\ i' = 0
        /\ UNCHANGED <<format, r, coeffs>>

(* One iteration of poly*_unpack. *)
UnpackGroup ==
  LET f == Formats[format]
      n == f.n
  IN  /\ phase = "unpack" /\ f.unpack /= <<>> /\ i < N \div n
      /\ coeffs' = [c \in DOMAIN coeffs |->
                      IF c \div n = i
                      THEN Low(Or(r, f.unpack[(c % n) + 1], i * Len(f.pack)),
                               f.keep[(c % n) + 1])
                      ELSE coeffs[c]]
      /\ i' = i + 1
      /\ UNCHANGED <<format, phase, r>>

Next == PackGroup \/ Turn \/ UnpackGroup

Spec == Init /\ [][Next]_vars
-----------------------------------------------------------------------------
(* What a scheme's definition of the format says: bit p of coefficient c    *)
(* is bit width * c + p of the byte string.                                 *)
StreamBit(f, k, b) ==
  LET bit == 8 * k + b IN <<bit \div f.width, bit % f.width>>

(* The bytes written by the unrolled shifts are the bit string of the      *)
(* coefficients: no bit is lost at a byte boundary, none is or-ed onto     *)
(* another, and no byte of the buffer keeps what the caller had in it.     *)
PackedIsStream ==
  LET f == Formats[format] IN
  phase = "unpack" =>
    \A k \in DOMAIN r : r[k] = {<<b, StreamBit(f, k, b)>> : b \in 0 .. 7}

(* What is read back is what was written, whole and with nothing above it: *)
(* a missing or a short mask leaves bits of the next coefficient there.    *)
ReadBack ==
  LET f == Formats[format] IN
  phase = "unpack" /\ i = N \div f.n =>
    \A c \in DOMAIN coeffs : coeffs[c] = Coefficient(f, c)

(* Every number a coefficient may stand for has a code of that width. *)
CodesFit == \A x \in Formats[format].coded : x \in 0 .. 2 ^ Formats[format].width - 1

(* A table by itself: the bytes of its first group are the bit string of   *)
(* its coefficients, and read back as them; groups share no byte, and its  *)
(* width holds every number a coefficient stands for.                      *)
GroupWorks(f) ==
  LET m     == Len(f.pack)
      words == [c \in 0 .. f.n - 1 |-> Coefficient(f, c)]
      bytes == [k \in 0 .. m - 1 |-> {<<b, StreamBit(f, k, b)>> : b \in 0 .. 7}]
  IN  /\ f.n \in Nat \ {0} /\ f.width \in Nat \ {0} /\ 8 * m = f.n * f.width
      /\ \A k \in 0 .. m - 1 :
           /\ \A o \in f.pack[k + 1] : o[1] \in 0 .. f.n - 1
           /\ Low(Or(words, f.pack[k + 1], 0), 8) = bytes[k]
      /\ f.unpack /= <<>> => \A c \in 0 .. f.n - 1 :
           /\ \A o \in f.unpack[c + 1] : o[1] \in 0 .. m - 1
           /\ Low(Or(bytes, f.unpack[c + 1], 0), f.keep[c + 1]) = words[c]
      /\ \A x \in f.coded : x \in 0 .. 2 ^ f.width - 1

(* All tables work, and all loops end with the polynomial.                 *)
TablesWork ==
  /\ N \in Nat \ {0}
  /\ \A name \in DOMAIN Formats :
       GroupWorks(Formats[name]) /\ N % Formats[name].n = 0

PackingIsLossless == PackedIsStream /\ ReadBack /\ CodesFit
=============================================================================
