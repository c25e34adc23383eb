------------------------------- MODULE Growth -------------------------------
(***************************************************************************)
(* How far the coefficients of a polynomial can grow while the schemes     *)
(* multiply and add polynomials.  No loop of ntt.c reduces more than it    *)
(* must: whether a sum fits its word, and whether a function is given what *)
(* its comment asks for, depends on everything done to the polynomial      *)
(* before, in other files.                                                 *)
(*                                                                         *)
(* A state holds, for each polynomial or vector of polynomials, a range    *)
(* <<lo, hi>>: every coefficient x has lo <= x < hi.  A step is one level  *)
(* of a transform or one call, in the order of the source, and takes the   *)
(* ranges of its arguments to the smallest one its arithmetic guarantees.  *)
(*                                                                         *)
(* The unit is 1 for the KEMs (int16_t coefficients) and Q/256 for the     *)
(* signature schemes, where 32-bit values do not fit TLC's integers; each  *)
(* bound is rounded outwards to a whole unit.                              *)
(***************************************************************************)
EXTENDS Integers, Sequences, FiniteSets, FiniteSetsExt, TLC

-----------------------------------------------------------------------------
(* Ranges *)

Hull(S) == <<Min({i[1] : i \in S}), Max({i[2] : i \in S})>>
Plus(i, j) == <<i[1] + j[1], i[2] + j[2]>>
Minus(i, j) == <<i[1] - j[2], i[2] - j[1]>>
Times(n, i) == <<n * i[1], n * i[2]>>
Size(i) == Max({-i[1], i[2]})
Within(i, j) == j[1] <= i[1] /\ i[2] <= j[2]
Around(n) == <<-n, n + 1>>

-----------------------------------------------------------------------------
(* The arithmetic of the four kinds of reduce.c and ntt.c.                 *)
(*   word      what a coefficient can hold                                 *)
(*   factor    bound of the product montgomery_reduce may be given         *)
(*   zeta      bound of the entries of zetas and zetas_inv                 *)
(*   barrett   what the other reduction may be given                       *)
(*   bias      what is added before t is subtracted, in ntt and in invntt  *)
(*   scale     the last factor of invntt                                   *)
(*   ntt, invntt   what each level does to a sum; "all" is a pass over     *)
(*             the whole polynomial after the levels, "last" a level whose *)
(*             sum is multiplied by the last factor instead                *)
(*   given, gives  what the comment above invntt asks for and promises     *)
(*   enters, leaves   the same of ntt; only Aigis-sig has such a comment   *)

Kyber == [name |-> "kyber", q |-> 3329, word |-> <<-32768, 32768>>,
          factor |-> 32768 * 3329, zeta |-> 3321, barrett |-> <<-32768, 32768>>,
          bias |-> 0, unbias |-> 0, scale |-> 1441,
          ntt |-> <<"plain", "plain", "plain", "plain", "plain", "plain", "plain", "all">>,
          invntt |-> <<"barrett", "barrett", "barrett", "barrett", "barrett",
                       "barrett", "barrett", "all">>,
          given |-> <<-32768, 32768>>, gives |-> <<-32768, 32768>>,
          enters |-> <<-32768, 32768>>, leaves |-> <<-32768, 32768>>]

(* Mutant: the loop with step 8 reduces nothing. *)
LazyAigisLevels ==
    <<"plain", "barrett", "plain", "plain", "plain", "plain", "plain", "barrett">>

(* Every sum and difference of the second, fifth and last level is reduced. *)
AigisLevels ==
    <<"plain", "barrett", "plain", "plain", "barrett", "plain", "plain", "barrett">>

AigisEnc == [name |-> "aigis_enc", q |-> 7681, word |-> <<-32768, 32768>>,
             factor |-> 32768 * 7681, zeta |-> 3831, barrett |-> <<-32768, 32768>>,
             bias |-> 0, unbias |-> 0, scale |-> 256,
             ntt |-> AigisLevels,
             invntt |-> <<"plain", "barrett", "plain", "barrett", "plain", "barrett",
                          "plain", "last">>,
             given |-> <<-32768, 32768>>, gives |-> <<-7681, 7681>>,
             enters |-> <<-32768, 32768>>, leaves |-> <<-32768, 32768>>]

(* Q < 2^23; 65599 units are below 2^31, the argument of reduce32 must be  *)
(* below 2^31 - 2^22, a product below 2^31 * Q.                            *)
MLDSA == [name |-> "ml_dsa", q |-> 256, word |-> <<-65599, 65599>>,
          factor |-> 16777216, zeta |-> 128, barrett |-> <<-65599, 65471>>,
          bias |-> 0, unbias |-> 0, scale |-> 2,
          ntt |-> [i \in 1 .. 8 |-> "plain"],
          invntt |-> Append([i \in 1 .. 8 |-> "plain"], "all"),
          given |-> <<-256, 256>>, gives |-> <<-256, 256>>,
          enters |-> <<-65599, 65599>>, leaves |-> <<-65599, 65599>>]

(* uint32_t.  q = 2021377 < 2^21 or 3870721 < 2^22: the smaller word and   *)
(* the looser reduction of the two.  invntt multiplies only the lower half *)
(* of its result, the sums of its last level, by the last factor.          *)
AigisSig(works) ==
         [name |-> "aigis_sig", q |-> 256, word |-> <<0, 284057>>,
          factor |-> 284057 * 256, zeta |-> 256, barrett |-> <<0, works * 256>>,
          bias |-> 2 * 256, unbias |-> 512 * 256, scale |-> 256,
          ntt |-> [i \in 1 .. 8 |-> "plain"],
          invntt |-> Append([i \in 1 .. 7 |-> "plain"], "last"),
          given |-> <<0, 4 * 256>>, gives |-> <<0, 2 * 256>>,
          enters |-> <<0, 2 * 256>>, leaves |-> <<0, 18 * 256>>]

(* montgomery_reduce of a product bounded by p.  16 bits: (p - u*Q) >> 16  *)
(* with an int16_t u.  ML-DSA: the same with 32, p in squared units.       *)
(* Aigis-sig: (p + u*Q) >> 32 with an unsigned u.                          *)
Montgomery(A, p) ==
    CASE A.name \in {"kyber", "aigis_enc"} -> Around((p + 32768 * A.q) \div 65536 + 1)
      [] A.name = "ml_dsa"    -> <<-(p \div 131072 + 129), p \div 131072 + 129>>
      [] A.name = "aigis_sig" -> <<0, p \div 262144 + 257>>

(* barrett_reduce of the KEMs, reduce32, barrat_reduce.  Aigis-enc takes   *)
(* away the nearest multiple of 2^13, but 7681 for each; barrat_reduce     *)
(* keeps the low 21 or 22 bits and adds the rest for each it took away.    *)
Reduced(A, i) ==
    CASE A.name = "kyber"     -> Around((A.q - 1) \div 2)
      [] A.name = "aigis_enc" -> <<511 * ((i[1] + 4096) \div 8192) - 4096,
                                   511 * ((i[2] + 4095) \div 8192) + 4096>>
      [] A.name = "ml_dsa"    -> <<-192, 192>>
      [] A.name = "aigis_sig" -> <<0, 278 + 22 * (i[2] \div 265)>>

(* x + (Q if x < 0) and x - (Q if x >= Q), applied to a range. *)
AddIfNegative(i, q) ==
    <<IF i[1] >= 0 THEN i[1] ELSE Min({i[1] + q, 0}),
      IF i[1] >= 0 THEN i[2] ELSE Max({i[2], Min({i[2], 0}) + q})>>

SubtractUnlessLess(i, q) == AddIfNegative(Minus(i, <<q, q>>), q)

-----------------------------------------------------------------------------
(* A program: calls on named polynomials, in the order of the source.      *)
(*   Get     unpacked or sampled, with the range that gives                *)
(*   Mul     products of n pairs, summed (pointwise, basemul)              *)
(*   Scale   the product with a constant below n (poly_tomont)             *)
(*   Use     a call that is given the polynomial and relies on the range   *)

Get(x, lo, hi)   == [op |-> "get", x |-> x, range |-> <<lo, hi>>]
Copy(x, a)       == [op |-> "copy", x |-> x, a |-> a]
Ntt(x)           == [op |-> "ntt", x |-> x]
InvNtt(x)        == [op |-> "invntt", x |-> x]
Mul(x, a, b, n)  == [op |-> "mul", x |-> x, a |-> a, b |-> b, n |-> n]
Scale(x, n)      == [op |-> "scale", x |-> x, n |-> n]
Add(x, a, b)     == [op |-> "add", x |-> x, a |-> a, b |-> b]
Sub(x, a, b)     == [op |-> "sub", x |-> x, a |-> a, b |-> b]
Neg(x)           == [op |-> "neg", x |-> x]
Reduce(x)        == [op |-> "reduce", x |-> x]
CAddQ(x)         == [op |-> "caddq", x |-> x]

(* Mutant: Q is added at most once. *)
CAddQOnce(x)     == [op |-> "caddq", x |-> x]

CAddQ2(x)        == [op |-> "caddq2", x |-> x]
Freeze4Q(x)      == [op |-> "freeze4q", x |-> x]
Use(x, lo, hi)   == [op |-> "use", x |-> x, range |-> <<lo, hi>>]

KyberKeypair(k) == <<
    Get("a", 0, 3329), Get("skpv", -3, 4), Get("e", -3, 4),
    Ntt("skpv"), Ntt("e"),
    Mul("pkpv", "a", "skpv", k), Scale("pkpv", 1353),
    Add("pkpv", "pkpv", "e"), Reduce("pkpv"),
    Use("skpv", -3329, 3329), Use("pkpv", -3329, 3329)>>

KyberEncrypt(k) == <<
    Get("pkpv", 0, 4096), Get("k", 0, 1666), Get("at", 0, 3329),
    Get("sp", -3, 4), Get("ep", -3, 4), Get("epp", -3, 4),
    Ntt("sp"),
    Mul("bp", "at", "sp", k), Mul("v", "pkpv", "sp", k),
    InvNtt("bp"), InvNtt("v"),
    Add("bp", "bp", "ep"), Add("v", "v", "epp"), Add("v", "v", "k"),
    Reduce("bp"), Reduce("v"),
    Use("bp", -3329, 3329), Use("v", -3329, 3329)>>

KyberDecrypt(k) == <<
    Get("bp", 0, 3329), Get("v", 0, 3329), Get("skpv", 0, 4096),
    Ntt("bp"), Mul("mp", "skpv", "bp", k), InvNtt("mp"),
    Sub("mp", "v", "mp"), Reduce("mp"),
    Use("mp", -3329, 3329)>>

AigisKeypair(k) == <<
    Get("a", 0, 7681), Get("skpv", -4, 5), Ntt("skpv"), Get("e", -8, 9),
    Mul("pkpv", "skpv", "a", k), InvNtt("pkpv"), Add("pkpv", "pkpv", "e"),
    CAddQ("pkpv"), CAddQ("skpv"),
    Use("skpv", 0, 7681), Use("pkpv", 0, 7681)>>

AigisEncrypt(k) == <<
    Get("pkpv", 0, 7681), Get("k", 0, 3842), Ntt("pkpv"), Get("at", 0, 7681),
    Get("sp", -4, 5), Get("ep", -8, 9), Get("epp", -8, 9),
    Ntt("sp"),
    Mul("bp", "sp", "at", k), InvNtt("bp"), Add("bp", "bp", "ep"),
    Mul("v", "pkpv", "sp", k), InvNtt("v"), Add("v", "v", "epp"), Sub("v", "v", "k"),
    CAddQ2("v"), CAddQ("bp"),
    Use("bp", 0, 7681), Use("v", 0, 7681)>>

AigisDecrypt(k) == <<
    Get("bp", 0, 7681), Get("v", 0, 7681), Get("skpv", 0, 8192),
    Ntt("bp"), Mul("mp", "skpv", "bp", k), InvNtt("mp"),
    Sub("mp", "mp", "v"), CAddQ2("mp"),
    Use("mp", 0, 7681)>>

(* s1, s2, t0 and the challenge are below a unit, y is below 2^19. *)
DSAKeypair(l) == <<
    Get("mat", 0, 256), Get("s1", -1, 1), Get("s2", -1, 1),
    Copy("s1hat", "s1"), Ntt("s1hat"), Mul("t1", "mat", "s1hat", l),
    Reduce("t1"), InvNtt("t1"), Add("t1", "t1", "s2"), CAddQ("t1"),
    Use("t1", 0, 256)>>

DSASign(l) == <<
    Get("s1", -1, 1), Get("s2", -1, 1), Get("t0", -1, 1), Get("mat", 0, 256),
    Ntt("s1"), Ntt("s2"), Ntt("t0"),
    Get("y", -17, 17), Copy("z", "y"), Ntt("z"), Mul("w1", "mat", "z", l),
    Reduce("w1"), InvNtt("w1"), CAddQ("w1"), Use("w1", 0, 256), Get("w0", -9, 9),
    Get("cp", -1, 1), Ntt("cp"),
    Mul("z", "cp", "s1", 1), InvNtt("z"), Add("z", "z", "y"), Reduce("z"),
    Use("z", -32799, 32799),
    Mul("h", "cp", "s2", 1), InvNtt("h"), Sub("w0", "w0", "h"), Reduce("w0"),
    Use("w0", -32799, 32799),
    Mul("h", "cp", "t0", 1), InvNtt("h"), Reduce("h"), Use("h", -32799, 32799),
    Add("w0", "w0", "h")>>

(* t1 << D is at most 1023 * 8192 = Q - 1. *)
DSAVerify(l) == <<
    Get("z", -17, 17), Get("cp", -1, 1), Get("mat", 0, 256), Ntt("z"),
    Mul("w1", "mat", "z", l), Ntt("cp"), Get("t1", 0, 256), Ntt("t1"),
    Mul("t1", "cp", "t1", 1), Sub("w1", "w1", "t1"),
    Reduce("w1"), InvNtt("w1"), CAddQ("w1"), Use("w1", 0, 256)>>

(* Small values are kept as Q + x.  poly_freeze2q calls freeze4q, as       *)
(* poly_freeze4q does.                                                     *)
SigKeypair(l) == <<
    Get("mat", 0, 256), Get("s1", 255, 257), Get("s2", 255, 257),
    Copy("s1hat", "s1"), Ntt("s1hat"), Mul("t", "mat", "s1hat", l), InvNtt("t"),
    Add("t", "t", "s2"), Freeze4Q("t"), Use("t", 0, 256)>>

SigSign(l) == <<
    Get("s1", 255, 257), Get("s2", 255, 257), Get("t0", 254, 258), Get("mat", 0, 256),
    Ntt("s1"), Ntt("s2"), Ntt("t0"),
    Get("y", 239, 273), Copy("yhat", "y"), Ntt("yhat"), Mul("w", "mat", "yhat", l),
    InvNtt("w"), Freeze4Q("w"), Use("w", 0, 256), Get("c", 0, 256),
    Copy("chat", "c"), Ntt("chat"),
    Mul("z", "chat", "s1", 1), InvNtt("z"), Add("z", "z", "y"), Freeze4Q("z"),
    Use("z", 0, 256),
    Mul("wcs2", "chat", "s2", 1), InvNtt("wcs2"), Sub("wcs2", "w", "wcs2"),
    Freeze4Q("wcs2"), Use("wcs2", 0, 256), Get("wcs20", 234, 279), Freeze4Q("wcs20"),
    Use("wcs20", 0, 256),
    Mul("ct0", "chat", "t0", 1), InvNtt("ct0"), Freeze4Q("ct0"), Use("ct0", 0, 256),
    Add("tmp", "wcs2", "ct0"), Neg("ct0"), Freeze4Q("tmp"), Use("tmp", 0, 256),
    Add("sum", "tmp", "ct0"), Freeze4Q("sum"), Use("sum", 0, 256)>>

(* t1 << D is at most 255 << 13 or 255 << 14, above Q. *)
SigVerify(l) == <<
    Get("z", 0, 256), Get("mat", 0, 256), Ntt("z"), Mul("tmp1", "mat", "z", l),
    Get("chat", 0, 256), Ntt("chat"), Get("t1", 0, 277), Ntt("t1"),
    Mul("tmp2", "chat", "t1", 1), Sub("tmp1", "tmp1", "tmp2"), InvNtt("tmp1"),
    Freeze4Q("tmp1"), Use("tmp1", 0, 256)>>

(* The vectors' lengths that params.h can choose. *)
Programs ==
         {[of |-> "kyber", call |-> c, n |-> n] : c \in {"keypair", "enc", "dec"}, n \in 2 .. 4}
    \cup {[of |-> "aigis_enc", call |-> c, n |-> n] : c \in {"keypair", "enc", "dec"}, n \in 2 .. 4}
    \cup {[of |-> "ml_dsa", call |-> c, n |-> n] : c \in {"keypair", "sign", "verify"}, n \in {4, 5, 7}}
    \cup {[of |-> "aigis_sig", call |-> c, n |-> n] : c \in {"keypair", "sign", "verify"}, n \in 3 .. 5}

Arithmetic(p) == CASE p.of = "kyber" -> Kyber
                   [] p.of = "aigis_enc" -> AigisEnc
                   [] p.of = "ml_dsa" -> MLDSA
                   [] p.of = "aigis_sig" -> AigisSig(IF p.n = 3 THEN 27 ELSE 12)

Code(p) ==
    LET is == <<p.of, p.call>>
    IN  CASE is = <<"kyber", "keypair">> -> KyberKeypair(p.n)
          [] is = <<"kyber", "enc">> -> KyberEncrypt(p.n)
          [] is = <<"kyber", "dec">> -> KyberDecrypt(p.n)
          [] is = <<"aigis_enc", "keypair">> -> AigisKeypair(p.n)
          [] is = <<"aigis_enc", "enc">> -> AigisEncrypt(p.n)
          [] is = <<"aigis_enc", "dec">> -> AigisDecrypt(p.n)
          [] is = <<"ml_dsa", "keypair">> -> DSAKeypair(p.n)
          [] is = <<"ml_dsa", "sign">> -> DSASign(p.n)
          [] is = <<"ml_dsa", "verify">> -> DSAVerify(p.n)
          [] is = <<"aigis_sig", "keypair">> -> SigKeypair(p.n)
          [] is = <<"aigis_sig", "sign">> -> SigSign(p.n)
          [] is = <<"aigis_sig", "verify">> -> SigVerify(p.n)

-----------------------------------------------------------------------------
VARIABLES
    prog,       \* the call being followed
    at,         \* how many of its calls have returned
    level,      \* how many levels of the transform at hand are done
    range,      \* of each polynomial that has a value
    stored,     \* pairs of a range and the one it must fit, last step
    relied      \* pairs of a range and the one its user relies on, last step

vars == <<prog, at, level, range, stored, relied>>

Arith == Arithmetic(prog)
Now == Code(prog)[at + 1]
Running(op) == at < Len(Code(prog)) /\ Now.op = op

Assign(r) == range' = (Now.x :> r) @@ range
Fits(i) == <<i, Arith.word>>
Multiplies(i, j) == <<<<0, Size(i) * Size(j)>>, <<0, Arith.factor + 1>>>>
Product(i, j) == Montgomery(Arith, Size(i) * Size(j))
Const(n) == <<-n, n>>

Init ==
    /\ prog \in Programs
    /\ at = 0 /\ level = 0
    /\ range = <<>> /\ stored = {} /\ relied = {}

Return == at' = at + 1 /\ level' = 0 /\ UNCHANGED prog

(* unpack, sample or copy *)
Obtain ==
    /\ Running("get") \/ Running("copy")
    /\ LET r == IF Now.op = "get" THEN Now.range ELSE range[Now.a]
       IN  Assign(r) /\ stored' = {Fits(r)}
    /\ relied' = {}
    /\ Return

(* The loop over one len of ntt, or the pass after the last one. *)
NttLevel ==
    /\ Running("ntt")
    /\ LET x    == range[Now.x]
           step == Arith.ntt[level + 1]
           t    == Product(Const(Arith.zeta), x)
           sum  == Plus(x, t)
           diff == Minus(Plus(x, <<Arith.bias, Arith.bias>>), t)
           r    == CASE step = "plain"   -> Hull({sum, diff})
                     [] step = "barrett" -> Hull({Reduced(Arith, sum), Reduced(Arith, diff)})
                     [] step = "all"     -> Reduced(Arith, x)
           last == level + 1 = Len(Arith.ntt)
       IN  /\ Assign(r)
           /\ stored' = {Fits(x)} \cup
                  IF step = "all" THEN {}
                  ELSE {Fits(sum), Fits(diff), Multiplies(Const(Arith.zeta), x)}
           /\ relied' = (IF level = 0 THEN {<<x, Arith.enters>>} ELSE {})
                        \cup (IF last THEN {<<r, Arith.leaves>>} ELSE {})
           /\ IF last THEN Return ELSE level' = level + 1 /\ UNCHANGED <<prog, at>>

(* The loop over one len of invntt, or the multiplication after the last.  *)
(* Aigis-enc has the difference in an int32_t.                             *)
InvNttLevel ==
    /\ Running("invntt")
    /\ LET x    == range[Now.x]
           step == Arith.invntt[level + 1]
           last == level + 1 = Len(Arith.invntt)
           sum  == Plus(x, x)
           diff == Minus(Plus(x, <<Arith.unbias, Arith.unbias>>), x)
           prod == Product(Const(Arith.zeta), diff)
           r    == CASE step = "plain"   -> Hull({sum, prod})
                     [] step = "barrett" -> Hull({Reduced(Arith, sum), prod})
                     [] step = "last"    -> Hull({Product(Const(Arith.scale), sum), prod})
                     [] step = "all"     -> Product(Const(Arith.scale), x)
       IN  /\ Assign(r)
           /\ stored' = IF step = "all" THEN {Multiplies(Const(Arith.scale), x)}
                        ELSE {Fits(sum), Multiplies(Const(Arith.zeta), diff)}
                             \cup IF prog.of = "aigis_enc" THEN {} ELSE {Fits(diff)}
           /\ relied' = (IF level = 0 THEN {<<x, Arith.given>>} ELSE {})
                        \cup (IF last THEN {<<r, Arith.gives>>} ELSE {})
           /\ IF last THEN Return ELSE level' = level + 1 /\ UNCHANGED <<prog, at>>

(* A sum of n products.  basemul of Kyber multiplies the odd coefficients  *)
(* by a root as well and adds two products; pointwise_acc of Aigis-enc     *)
(* brings b to Montgomery's domain first.  The KEMs and Aigis-sig reduce   *)
(* the accumulated sum, a single pointwise product is left as it is.       *)
Multiply ==
    /\ Running("mul")
    /\ LET a   == range[Now.a]
           b   == IF prog.of = "aigis_enc" THEN Product(Const(5569), range[Now.b])
                                           ELSE range[Now.b]
           p   == Product(a, b)
           one == IF prog.of = "kyber"
                  THEN Hull({Plus(Product(p, Const(Arith.zeta)), p), Plus(p, p)})
                  ELSE p
           sum == Times(Now.n, one)
       IN  /\ Assign(IF prog.of = "ml_dsa" \/ Now.n = 1 THEN sum ELSE Reduced(Arith, sum))
           /\ stored' = {Fits(b), Fits(sum), Multiplies(a, b)}
           /\ relied' = IF Now.n = 1 THEN {} ELSE {<<sum, Arith.barrett>>}
    /\ Return

ScaleBy ==
    /\ Running("scale")
    /\ Assign(Product(range[Now.x], Const(Now.n)))
    /\ stored' = {Multiplies(range[Now.x], Const(Now.n))}
    /\ relied' = {}
    /\ Return

(* poly_add, poly_sub and poly_neg; the unsigned ones add 2*Q to subtract. *)
AddOrSubtract ==
    /\ Running("add") \/ Running("sub") \/ Running("neg")
    /\ LET bias == <<Arith.bias, Arith.bias>>
           r == CASE Now.op = "add" -> Plus(range[Now.a], range[Now.b])
                  [] Now.op = "sub" -> Minus(Plus(range[Now.a], bias), range[Now.b])
                  [] Now.op = "neg" -> Minus(<<Arith.bias, Arith.bias + 1>>, range[Now.x])
       IN  Assign(r) /\ stored' = {Fits(r)}
    /\ relied' = {}
    /\ Return

ReduceAll ==
    /\ Running("reduce")
    /\ Assign(Reduced(Arith, range[Now.x]))
    /\ stored' = {}
    /\ relied' = {<<range[Now.x], Arith.barrett>>}
    /\ Return

(* caddq, caddq2 and freeze4q: each comment names the range it is for. *)
Standardise ==
    /\ Running("caddq") \/ Running("caddq2") \/ Running("freeze4q")
    /\ LET x == range[Now.x]
       IN  /\ Assign(CASE Now.op = "caddq"  -> AddIfNegative(x, Arith.q)
                       [] Now.op = "caddq2" -> AddIfNegative(AddIfNegative(x, Arith.q), Arith.q)
                       [] Now.op = "freeze4q" ->
                              SubtractUnlessLess(SubtractUnlessLess(x, 2 * Arith.q), Arith.q))
           /\ relied' = {<<x, CASE Now.op = "caddq"  -> <<-Arith.q, Arith.q>>
                               [] Now.op = "caddq2" -> <<-2 * Arith.q, Arith.q>>
                               [] Now.op = "freeze4q" -> <<0, 4 * Arith.q>>>>}
    /\ stored' = {}
    /\ Return

UseValue ==
    /\ Running("use")
    /\ relied' = {<<range[Now.x], Now.range>>}
    /\ stored' = {}
    /\ Return
    /\ UNCHANGED range

Next == \/ Obtain \/ NttLevel \/ InvNttLevel \/ Multiply \/ ScaleBy
        \/ AddOrSubtract \/ ReduceAll \/ Standardise \/ UseValue

Spec == Init /\ [][Next]_vars

-----------------------------------------------------------------------------
(* No call, for any input, stores a coefficient outside its word or gives  *)
(* montgomery_reduce a product outside the range it is correct for.        *)
NothingOverflows == \A p \in stored : Within(p[1], p[2])

(* Every function that relies on the range of its argument (the packing    *)
(* and rounding functions, the conditional additions, the other reductions,*)
(* the inverse transform) gets what its comment asks for, and the inverse  *)
(* transform returns what its comment promises.                            *)
StandardWhenRead == \A p \in relied : Within(p[1], p[2])

=============================================================================
