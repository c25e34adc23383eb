-------------------------------- MODULE NTT --------------------------------
(***************************************************************************)
(* The number-theoretic transforms of ML-KEM and Kyber, of Aigis-enc and   *)
(* of ML-DSA and Dilithium, with the tables of ntt.c: two polynomials are  *)
(* transformed, multiplied point by point and transformed back, one loop   *)
(* over len at a time.  What makes it right is spread over the tables, the *)
(* running index into them and the places of the reductions.               *)
(*                                                                         *)
(* The KEMs are computed bit by bit, with int16_t stores.  The products of *)
(* ML-DSA take 64 bits: a coefficient stands for its residue here, and     *)
(* Growth follows its size.                                                *)
(***************************************************************************)
EXTENDS Integers, Sequences

CONSTANTS
    Schemes,        \* a subset of {"kyber", "aigis_enc", "ml_dsa"}
    Exponents,      \* one factor is X^i with i in this set
    Factors         \* the other one, of each scheme

KyberZetas == <<
    2285, 2571, 2970, 1812, 1493, 1422, 287, 202, 3158, 622, 1577, 182, 962,
    2127, 1855, 1468, 573, 2004, 264, 383, 2500, 1458, 1727, 3199, 2648, 1017,
    732, 608, 1787, 411, 3124, 1758, 1223, 652, 2777, 1015, 2036, 1491, 3047,
    1785, 516, 3321, 3009, 2663, 1711, 2167, 126, 1469, 2476, 3239, 3058, 830,
    107, 1908, 3082, 2378, 2931, 961, 1821, 2604, 448, 2264, 677, 2054, 2226,
    430, 555, 843, 2078, 871, 1550, 105, 422, 587, 177, 3094, 3038, 2869, 1574,
    1653, 3083, 778, 1159, 3182, 2552, 1483, 2727, 1119, 1739, 644, 2457, 349,
    418, 329, 3173, 3254, 817, 1097, 603, 610, 1322, 2044, 1864, 384, 2114,
    3193, 1218, 1994, 2455, 220, 2142, 1670, 2144, 1799, 2051, 794, 1819, 2475,
    2459, 478, 3221, 3021, 996, 991, 958, 1869, 1522, 1628 >>

KyberZetasInv == <<
    1701, 1807, 1460, 2371, 2338, 2333, 308, 108, 2851, 870, 854, 1510, 2535,
    1278, 1530, 1185, 1659, 1187, 3109, 874, 1335, 2111, 136, 1215, 2945, 1465,
    1285, 2007, 2719, 2726, 2232, 2512, 75, 156, 3000, 2911, 2980, 872, 2685,
    1590, 2210, 602, 1846, 777, 147, 2170, 2551, 246, 1676, 1755, 460, 291,
    235, 3152, 2742, 2907, 3224, 1779, 2458, 1251, 2486, 2774, 2899, 1103,
    1275, 2652, 1065, 2881, 725, 1508, 2368, 398, 951, 247, 1421, 3222, 2499,
    271, 90, 853, 1860, 3203, 1162, 1618, 666, 320, 8, 2813, 1544, 282, 1838,
    1293, 2314, 552, 2677, 2106, 1571, 205, 2918, 1542, 2721, 2597, 2312, 681,
    130, 1602, 1871, 829, 2946, 3065, 1325, 2756, 1861, 1474, 1202, 2367, 3147,
    1752, 2707, 171, 3127, 3042, 1907, 1836, 1517, 359, 758, 1441 >>

AigisZetas == <<
    0, 3777, -3182, 3625, -3696, -1100, 2456, 2194, 121, -2250, 834, -2495,
    -2319, 2876, -1701, 1414, 2816, -2088, -2237, 1986, -1599, 1993, 3706,
    -2006, -1525, -2557, 1296, 1483, -2830, 3364, 617, 1921, -3689, -1738,
    3266, -3600, 810, 1887, -638, -7, -438, -679, -1305, -1760, 396, -3174,
    -3555, -1881, 3772, -2535, -2440, -2555, 1535, -549, 3153, 2310, -1399,
    1321, 514, -2956, -103, 2804, -2043, -1431, -1054, 1698, -3456, 1166, 2426,
    3831, 915, -2, -3417, -194, 2919, 2789, 3405, 2385, -2113, -2732, 2175,
    373, 3692, -730, -1756, 3135, -2391, 660, -1497, 2572, -3145, 1350, -2224,
    -3588, -1681, 2883, -1390, 1598, 3750, 2762, 2835, 2764, -2233, 3816,
    -1533, 1464, -727, 1521, 1386, -3428, -921, -2743, -2160, 2649, -859, 2579,
    1532, 1919, -486, 404, -1056, 783, 1799, -2665, 3480, 2133, -3310, -1168,
    -17, 3744, 2422, 2001, 1278, 929, -1348, -2230, -179, -1242, -2059, -1070,
    2161, 1649, 2072, 3177, -2071, 1121, -436, 236, 715, 670, -658, -1476,
    -2378, 2767, 3542, -226, 1203, 1181, -151, -3794, 1712, -222, 2786, -451,
    -3547, 1779, -1151, -434, 3568, -3693, 3581, -1586, 1509, 2918, 2339,
    -1407, 3434, -3550, 2340, 2891, 2998, -3314, 3461, -2719, -2247, -2589,
    1144, 1072, 1295, -2815, -3770, 3450, 3781, -2258, 796, 3163, -3208, -589,
    2963, -124, 3214, 3334, -3366, -3745, 3723, 1931, -429, -402, -3408, 83,
    -1526, 826, -1338, 2345, -2303, 2515, -642, -1837, -2965, -791, 370, 293,
    3312, 2083, -1689, -777, 2070, 2262, -893, 2386, -188, -1519, -2874, -1404,
    1012, 2130, 1441, 2532, -3335, -1084, -3343, 2937, 509, -1403, 2812, 3763,
    592, 2005, 3657, 2460, -3677, 3752, 692, 1669, 2167, -3287 >>

AigisZetasInv == <<
    3287, -2167, -1669, -692, -3752, 3677, -2460, -3657, -2005, -592, -3763,
    -2812, 1403, -509, -2937, 3343, 1084, 3335, -2532, -1441, -2130, -1012,
    1404, 2874, 1519, 188, -2386, 893, -2262, -2070, 777, 1689, -2083, -3312,
    -293, -370, 791, 2965, 1837, 642, -2515, 2303, -2345, 1338, -826, 1526,
    -83, 3408, 402, 429, -1931, -3723, 3745, 3366, -3334, -3214, 124, -2963,
    589, 3208, -3163, -796, 2258, -3781, -3450, 3770, 2815, -1295, -1072,
    -1144, 2589, 2247, 2719, -3461, 3314, -2998, -2891, -2340, 3550, -3434,
    1407, -2339, -2918, -1509, 1586, -3581, 3693, -3568, 434, 1151, -1779,
    3547, 451, -2786, 222, -1712, 3794, 151, -1181, -1203, 226, -3542, -2767,
    2378, 1476, 658, -670, -715, -236, 436, -1121, 2071, -3177, -2072, -1649,
    -2161, 1070, 2059, 1242, 179, 2230, 1348, -929, -1278, -2001, -2422, -3744,
    17, 1168, 3310, -2133, -3480, 2665, -1799, -783, 1056, -404, 486, -1919,
    -1532, -2579, 859, -2649, 2160, 2743, 921, 3428, -1386, -1521, 727, -1464,
    1533, -3816, 2233, -2764, -2835, -2762, -3750, -1598, 1390, -2883, 1681,
    3588, 2224, -1350, 3145, -2572, 1497, -660, 2391, -3135, 1756, 730, -3692,
    -373, -2175, 2732, 2113, -2385, -3405, -2789, -2919, 194, 3417, 2, -915,
    -3831, -2426, -1166, 3456, -1698, 1054, 1431, 2043, -2804, 103, 2956, -514,
    -1321, 1399, -2310, -3153, 549, -1535, 2555, 2440, 2535, -3772, 1881, 3555,
    3174, -396, 1760, 1305, 679, 438, 7, 638, -1887, -810, 3600, -3266, 1738,
    3689, -1921, -617, -3364, 2830, -1483, -1296, 2557, 1525, 2006, -3706,
    -1993, 1599, -1986, 2237, 2088, -2816, -1414, 1701, -2876, 2319, 2495,
    -834, 2250, -121, -2194, -2456, 1100, 3696, -3625, 3182, -1905 >>

DSAZetas == <<
    0, 25847, -2608894, -518909, 237124, -777960, -876248, 466468, 1826347,
    2353451, -359251, -2091905, 3119733, -2884855, 3111497, 2680103, 2725464,
    1024112, -1079900, 3585928, -549488, -1119584, 2619752, -2108549, -2118186,
    -3859737, -1399561, -3277672, 1757237, -19422, 4010497, 280005, 2706023,
    95776, 3077325, 3530437, -1661693, -3592148, -2537516, 3915439, -3861115,
    -3043716, 3574422, -2867647, 3539968, -300467, 2348700, -539299, -1699267,
    -1643818, 3505694, -3821735, 3507263, -2140649, -1600420, 3699596, 811944,
    531354, 954230, 3881043, 3900724, -2556880, 2071892, -2797779, -3930395,
    -1528703, -3677745, -3041255, -1452451, 3475950, 2176455, -1585221,
    -1257611, 1939314, -4083598, -1000202, -3190144, -3157330, -3632928,
    126922, 3412210, -983419, 2147896, 2715295, -2967645, -3693493, -411027,
    -2477047, -671102, -1228525, -22981, -1308169, -381987, 1349076, 1852771,
    -1430430, -3343383, 264944, 508951, 3097992, 44288, -1100098, 904516,
    3958618, -3724342, -8578, 1653064, -3249728, 2389356, -210977, 759969,
    -1316856, 189548, -3553272, 3159746, -1851402, -2409325, -177440, 1315589,
    1341330, 1285669, -1584928, -812732, -1439742, -3019102, -3881060,
    -3628969, 3839961, 2091667, 3407706, 2316500, 3817976, -3342478, 2244091,
    -2446433, -3562462, 266997, 2434439, -1235728, 3513181, -3520352, -3759364,
    -1197226, -3193378, 900702, 1859098, 909542, 819034, 495491, -1613174,
    -43260, -522500, -655327, -3122442, 2031748, 3207046, -3556995, -525098,
    -768622, -3595838, 342297, 286988, -2437823, 4108315, 3437287, -3342277,
    1735879, 203044, 2842341, 2691481, -2590150, 1265009, 4055324, 1247620,
    2486353, 1595974, -3767016, 1250494, 2635921, -3548272, -2994039, 1869119,
    1903435, -1050970, -1333058, 1237275, -3318210, -1430225, -451100, 1312455,
    3306115, -1962642, -1279661, 1917081, -2546312, -1374803, 1500165, 777191,
    2235880, 3406031, -542412, -2831860, -1671176, -1846953, -2584293,
    -3724270, 594136, -3776993, -2013608, 2432395, 2454455, -164721, 1957272,
    3369112, 185531, -1207385, -3183426, 162844, 1616392, 3014001, 810149,
    1652634, -3694233, -1799107, -3038916, 3523897, 3866901, 269760, 2213111,
    -975884, 1717735, 472078, -426683, 1723600, -1803090, 1910376, -1667432,
    -1104333, -260646, -3833893, -2939036, -2235985, -420899, -2286327, 183443,
    -976891, 1612842, -3545687, -554416, 3919660, -48306, -1362209, 3937738,
    1400424, -846154, 1976782 >>

-----------------------------------------------------------------------------
Int16(x) == ((x + 32768) % 65536) - 32768

Modulus(s) == CASE s = "kyber" -> 3329 [] s = "aigis_enc" -> 7681 [] s = "ml_dsa" -> 8380417

(* QINV, 62209 and 57857, less 2^16: the product only counts modulo 2^16.  *)
QInv(s) == IF s = "kyber" THEN -3327 ELSE -7679

(* a * b modulo the Q of ML-DSA, seven bits of b at a time. *)
TimesMod(a, b) ==
    LET q == 8380417
        Next7(r, bits) == ((r % q) * 128 + (a % q) * bits) % q
        c == b % q
    IN  Next7(Next7(Next7(Next7(0, c \div 2097152), (c \div 16384) % 128),
                    (c \div 128) % 128), c % 128)

(* montgomery_reduce of a product.  8265825 is the inverse of 2^32. *)
FqMul(s, a, b) ==
    IF s = "ml_dsa" THEN TimesMod(TimesMod(a, b), 8265825)
    ELSE LET u == Int16(((a * b) % 65536) * QInv(s))
         IN  (a * b - u * Modulus(s)) \div 65536

(* barrett_reduce, with 20159 = (2^26 + Q/2) / Q and with 2^13 for Q. *)
Barrett(s, a) ==
    CASE s = "kyber"     -> Int16(a - ((20159 * a + 33554432) \div 67108864) * 3329)
      [] s = "aigis_enc" -> Int16(a - ((a + 4096) \div 8192) * 7681)

Store(s, x) == IF s = "ml_dsa" THEN x % 8380417 ELSE Int16(x)

-----------------------------------------------------------------------------
(* The loops over len, outermost first, and those that reduce the sums. *)
Lens(s) == IF s = "kyber" THEN <<128, 64, 32, 16, 8, 4, 2>>
                          ELSE <<128, 64, 32, 16, 8, 4, 2, 1>>
Loops(s) == Len(Lens(s))
InvLen(s, l) == Lens(s)[Loops(s) + 1 - l]
ReducesSum(s, l) == s = "aigis_enc" /\ l \in {2, 5, 8}
InvReducesSum(s, l) == \/ s = "kyber"
                       \/ s = "aigis_enc" /\ l \in {2, 4, 6}

(* zetas[k++] from 1, or zetas[++k] from 0: the same entries. *)
FirstRoot == 0

(* Mutant: the entry that no loop uses. *)
UnusedZeta == 0

FirstZeta == 1

Zetas(s) == CASE s = "kyber" -> KyberZetas [] s = "aigis_enc" -> AigisZetas
              [] s = "ml_dsa" -> DSAZetas

(* Blocks of 2*len coefficients, each with the next entry of the table. *)
Butterflies(s, v, len, k, reduces) ==
    LET zs == Zetas(s)
        T(j) == FqMul(s, zs[k + j \div (2 * len) + 1], v[j + len])
        Put(x) == IF reduces THEN Barrett(s, Int16(x)) ELSE Store(s, x)
    IN  [j \in 0 .. 255 |-> IF j % (2 * len) < len THEN Put(v[j] + T(j))
                                                   ELSE Put(v[j - len] - T(j - len))]

(* zetas_inv[k++] from 0 in the KEMs, -zetas[--k] from 256 in ML-DSA. *)
InvRoot(s, k) == CASE s = "kyber" -> KyberZetasInv[k + 1]
                   [] s = "aigis_enc" -> AigisZetasInv[k + 1]
                   [] s = "ml_dsa" -> -DSAZetas[256 - k]

(* Aigis-enc keeps the difference in an int32_t. *)
InvButterflies(s, v, len, k, reduces) ==
    LET roots == [b \in 0 .. 128 \div len - 1 |-> InvRoot(s, k + b)]
        last  == s = "aigis_enc" /\ len = 128
        Diff(x) == IF s = "aigis_enc" THEN x ELSE Store(s, x)
        Sum(x) == CASE reduces -> Barrett(s, Int16(x))
                    [] last    -> FqMul(s, 256, Int16(x))
                    [] OTHER   -> Store(s, x)
    IN  [j \in 0 .. 255 |-> IF j % (2 * len) < len THEN Sum(v[j] + v[j + len])
                            ELSE FqMul(s, roots[j \div (2 * len)], Diff(v[j - len] - v[j]))]

(* The multiplication after the loops, by 2^16 or 2^32 squared over 2^7 or *)
(* 2^8; Aigis-enc has it in the last loop and in its last root.            *)
Finish(s, v) == CASE s = "kyber"  -> [j \in 0 .. 255 |-> FqMul(s, v[j], KyberZetasInv[128])]
                  [] s = "ml_dsa" -> [j \in 0 .. 255 |-> FqMul(s, v[j], 41978)]
                  [] OTHER        -> v

(* Kyber's transform stops at polynomials of degree one, modulo X^2 - zeta *)
(* and X^2 + zeta in turn.                                                 *)
BaseMul(a, b) ==
    LET s == "kyber"
        zs == KyberZetas
        Zeta(j) == IF j % 4 < 2 THEN zs[65 + j \div 4] ELSE -zs[65 + j \div 4]
    IN  [j \in 0 .. 255 |->
            IF j % 2 = 0
            THEN Int16(FqMul(s, FqMul(s, a[j + 1], b[j + 1]), Zeta(j)) + FqMul(s, a[j], b[j]))
            ELSE Int16(FqMul(s, a[j - 1], b[j]) + FqMul(s, a[j], b[j - 1]))]

(* polyvec_pointwise_acc with one pair. *)
Pointwise(s, a, b) ==
    CASE s = "kyber" -> LET r == BaseMul(a, b) IN [j \in 0 .. 255 |-> Barrett(s, r[j])]
      [] s = "aigis_enc" -> [j \in 0 .. 255 |-> Barrett(s, FqMul(s, a[j], FqMul(s, 5569, b[j])))]
      [] s = "ml_dsa" -> [j \in 0 .. 255 |-> FqMul(s, a[j], b[j])]

-----------------------------------------------------------------------------
(* 2^16 or 2^32 modulo Q.  Entries of the tables are roots times this,     *)
(* since montgomery_reduce divides their products by it.                   *)
Mont(s) == CASE s = "kyber" -> 2285 [] s = "aigis_enc" -> 4088 [] s = "ml_dsa" -> -4186625

(* How the entries of the tables fit each other.  Each of zetas is a root  *)
(* of the one half way before it, or of its negative, and the first of -1. *)
Zeta(s, i) == Zetas(s)[i + 1]
Entries(s) == 256 \div InvLen(s, 1)
Small(s, x) == x \in Int /\ (s # "ml_dsa" => x \in -3840 .. 3840)
Congruent(s, x, y) == (x - y) % Modulus(s) = 0
Square(s, i) == FqMul(s, Zeta(s, i), Zeta(s, i))

RootsFit(s) ==
    /\ \A i \in 1 .. Entries(s) - 1 : Small(s, Zeta(s, i))
    /\ Congruent(s, Square(s, 1), -Mont(s))
    /\ \A i \in 1 .. Entries(s) \div 2 - 1 :
          Congruent(s, Square(s, 2 * i), Zeta(s, i)) /\ Congruent(s, Square(s, 2 * i + 1), -Zeta(s, i))

(* Those of the way back are the inverses for the same block, in the last  *)
(* loop of Aigis-enc times the last factor; Kyber's ends with that factor. *)
InverseFits(s, blocks, i) ==
    LET root == InvRoot(s, Entries(s) - 2 * blocks + i)
    IN  /\ Small(s, root)
        /\ Congruent(s, FqMul(s, root, Zeta(s, blocks + i)),
                        IF s = "aigis_enc" /\ blocks = 1 THEN 256 ELSE Mont(s))

TableFits(s) ==
    /\ RootsFit(s)
    /\ \A l \in 1 .. Loops(s) : \A i \in 0 .. 128 \div Lens(s)[l] - 1 :
          InverseFits(s, 128 \div Lens(s)[l], i)
    /\ s = "kyber" => KyberZetasInv[128] = 1441

TablesFit == \A s \in Schemes : TableFits(s)

-----------------------------------------------------------------------------
VARIABLES
    job,        \* the scheme and the exponent of the first factor
    pc,
    loop,       \* loops over len done in the transform at hand
    k,          \* index into zetas or zetas_inv
    a, b        \* the coefficients

vars == <<job, pc, loop, k, a, b>>

Power(i) == [j \in 0 .. 255 |-> IF j = i THEN 1 ELSE 0]

Init ==
    /\ job \in [of : Schemes, exponent : Exponents]
    /\ pc = "ntt a" /\ loop = 0 /\ k = FirstZeta
    /\ a = Power(job.exponent) /\ b = Factors[job.of]

Transform(v) == Butterflies(job.of, v, Lens(job.of)[loop + 1], k, ReducesSum(job.of, loop + 1))

(* poly_ntt of Kyber reduces every coefficient after the last loop. *)
AfterLoops(v) == IF job.of = "kyber" /\ loop + 1 = Loops("kyber")
                 THEN [j \in 0 .. 255 |-> Barrett("kyber", v[j])] ELSE v

NttLoop ==
    /\ \/ pc = "ntt a" /\ a' = AfterLoops(Transform(a)) /\ b' = b
       \/ pc = "ntt b" /\ b' = AfterLoops(Transform(b)) /\ a' = a
    /\ IF loop + 1 < Loops(job.of)
       THEN loop' = loop + 1 /\ k' = k + 128 \div Lens(job.of)[loop + 1] /\ pc' = pc
       ELSE loop' = 0 /\ k' = FirstZeta /\ pc' = IF pc = "ntt a" THEN "ntt b" ELSE "multiply"
    /\ job' = job

Multiply ==
    /\ pc = "multiply"
    /\ a' = Pointwise(job.of, a, b)
    /\ pc' = "invntt" /\ loop' = 0 /\ k' = FirstRoot
    /\ UNCHANGED <<job, b>>

InvNttLoop ==
    /\ pc = "invntt" /\ loop < Loops(job.of)
    /\ LET len == InvLen(job.of, loop + 1)
       IN  /\ a' = InvButterflies(job.of, a, len, k, InvReducesSum(job.of, loop + 1))
           /\ k' = k + 128 \div len
    /\ loop' = loop + 1
    /\ UNCHANGED <<job, pc, b>>

InvNttFinish ==
    /\ pc = "invntt" /\ loop = Loops(job.of)
    /\ a' = Finish(job.of, a)
    /\ pc' = "done"
    /\ UNCHANGED <<job, loop, k, b>>

Next == NttLoop \/ Multiply \/ InvNttLoop \/ InvNttFinish

Spec == Init /\ [][Next]_vars

-----------------------------------------------------------------------------
(* The product of the schemes' ring: X^i turns the coefficients by i       *)
(* places, and those that pass X^256 = -1 change their sign.               *)
ShiftedBy(i, v) == [j \in 0 .. 255 |-> IF j >= i THEN v[j - i] ELSE -v[j + 256 - i]]

(* After both transforms, the products and the way back, the coefficients  *)
(* are those of the product modulo Q: the tables, their running index, the *)
(* factors left by montgomery_reduce and the last factor fit each other.   *)
DomainMultiplies ==
    pc = "done" =>
        LET product == ShiftedBy(job.exponent, Factors[job.of])
        IN  \A j \in 0 .. 255 : (a[j] - product[j]) % Modulus(job.of) = 0

=============================================================================
