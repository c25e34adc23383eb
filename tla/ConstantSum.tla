---------------------------- MODULE ConstantSum ----------------------------
(***************************************************************************)
(* encode of sphincs-a/std/wots.c.  A WOTS message x becomes L digits      *)
(* below W whose sum is L (W - 1) / 2, in the order of the messages.  The  *)
(* table dp[i][j] counts the words of i digits with sum j; it is a static, *)
(* filled by the first call behind the flag done, without any lock, so the *)
(* model has threads and steps as fine as the code's reads and writes of a *)
(* table entry.                                                            *)
(***************************************************************************)
EXTENDS Integers, Sequences, FiniteSets

CONSTANTS Threads,
          L,            \* SPX_WOTS_LEN
          W,            \* SPX_WOTS_W
          Base,         \* 2^64: values of a limb
          MessageLimbs  \* SPX_N / 8: limbs that hold the message

HalfSum == (L * (W - 1)) \div 2

CodeAssumption ==
    /\ L \in Nat \ {0} /\ W \in Nat \ {0}
    /\ Base \in Nat \ {0} /\ MessageLimbs \in 1 .. 4

-----------------------------------------------------------------------------
(* uintx.c: numbers of two and of four limbs, the lowest limb first.       *)
Limb == 0 .. Base - 1
U256 == [1 .. 4 -> Limb]

Zero256 == <<0, 0, 0, 0>>
One256  == <<1, 0, 0, 0>>

less_u128(v, w) == v[2] < w[2] \/ (v[2] = w[2] /\ v[1] < w[1])

add_u128(v, w) ==
    LET c == IF v[1] > Base - 1 - w[1] THEN 1 ELSE 0
    IN  <<(v[1] + w[1]) % Base, (v[2] + w[2] + c) % Base>>

sub_u128(v, w) ==
    LET c == IF v[1] < w[1] THEN 1 ELSE 0
    IN  <<(v[1] - w[1]) % Base, (v[2] - w[2] - c) % Base>>

less_u256(v, w) ==
    \E n \in 1 .. 4 : v[n] < w[n] /\ \A o \in n + 1 .. 4 : v[o] = w[o]

Low(v)  == <<v[1], v[2]>>
High(v) == <<v[3], v[4]>>

(* The carry out of the low half, from UINT128_MAX - y0 < x0.              *)
add_u256(v, w) ==
    LET tmp == sub_u128(<<Base - 1, Base - 1>>, Low(w))
        c   == <<IF less_u128(tmp, Low(v)) THEN 1 ELSE 0, 0>>
    IN  add_u128(Low(v), Low(w)) \o add_u128(add_u128(High(v), High(w)), c)

sub_u256(v, w) ==
    LET c == <<IF less_u128(Low(v), Low(w)) THEN 1 ELSE 0, 0>>
    IN  sub_u128(Low(v), Low(w)) \o sub_u128(sub_u128(High(v), High(w)), c)

(* The limbs that SPX_N bytes fill; the others are zero.                   *)
Messages == {v \in U256 : \A n \in MessageLimbs + 1 .. 4 : v[n] = 0}

-----------------------------------------------------------------------------
VARIABLES done, dp,             \* the statics
          pc,
          i, j, k,              \* loop indices, per thread
          x, s, out,            \* the rest of the message and of the sum; the digits
          message               \* ghost: the argument

vars == <<done, dp, pc, i, j, k, x, s, out, message>>

Init ==
    /\ done = FALSE
    /\ dp = [row \in 0 .. L |-> [sum \in 0 .. HalfSum |-> Zero256]]
    /\ pc = [t \in Threads |-> "idle"]
    /\ i = [t \in Threads |-> 0] /\ j = i /\ k = i /\ s = i
    /\ x = [t \in Threads |-> Zero256] /\ message = x
    /\ out = [t \in Threads |-> << >>]

Goto(t, label) == pc' = [pc EXCEPT ![t] = label]
Set(f, t, value) == [f EXCEPT ![t] = value]

Call(t, msg) ==
    /\ pc[t] \in {"idle", "return"}
    /\ message' = Set(message, t, msg) /\ x' = Set(x, t, msg)
    /\ s' = Set(s, t, HalfSum) /\ out' = Set(out, t, << >>)
    /\ Goto(t, "test")
    /\ UNCHANGED <<done, dp, i, j, k>>

(* if (!done) set1_u256(&dp[0][0]) *)
TestDone(t) ==
    /\ pc[t] = "test"
    /\ IF done
       THEN /\ i' = Set(i, t, L - 1) /\ j' = Set(j, t, 0)
            /\ Goto(t, "scan")
            /\ UNCHANGED dp
       ELSE /\ dp' = [dp EXCEPT ![0][0] = One256]
            /\ i' = Set(i, t, 1) /\ j' = Set(j, t, 0)
            /\ Goto(t, "clear")
    /\ UNCHANGED <<done, k, x, s, out, message>>

Clear(t) ==
    /\ pc[t] = "clear"
    /\ dp' = [dp EXCEPT ![i[t]][j[t]] = Zero256]
    /\ k' = Set(k, t, 0)
    /\ Goto(t, "add")
    /\ UNCHANGED <<done, i, j, x, s, out, message>>

(* A digit that leaves the others a sum they can have. *)
DigitFits(digit, sum) == digit < W /\ digit <= sum

Add(t) ==
    /\ pc[t] = "add" /\ DigitFits(k[t], j[t])
    /\ dp' = [dp EXCEPT ![i[t]][j[t]] = add_u256(@, dp[i[t] - 1][j[t] - k[t]])]
    /\ k' = Set(k, t, k[t] + 1)
    /\ UNCHANGED <<done, pc, i, j, x, s, out, message>>

(* The ends of the loops over k, j and i; then done = 1.                   *)
NextEntry(t) ==
    /\ pc[t] = "add" /\ ~DigitFits(k[t], j[t])
    /\ CASE j[t] < HalfSum ->
              /\ j' = Set(j, t, j[t] + 1) /\ Goto(t, "clear")
              /\ UNCHANGED <<done, i>>
         [] j[t] = HalfSum /\ i[t] < L ->
              /\ i' = Set(i, t, i[t] + 1) /\ j' = Set(j, t, 0) /\ Goto(t, "clear")
              /\ UNCHANGED done
         [] OTHER ->
              /\ done' = TRUE
              /\ i' = Set(i, t, L - 1) /\ j' = Set(j, t, 0) /\ Goto(t, "scan")
    /\ UNCHANGED <<dp, k, x, s, out, message>>

-----------------------------------------------------------------------------
(* The words that begin with this digit are behind us. *)
SkipDigit(t) ==
    /\ pc[t] = "scan" /\ DigitFits(j[t], s[t])
    /\ LET words == dp[i[t]][s[t] - j[t]]
       IN  /\ ~less_u256(x[t], words)
           /\ x' = Set(x, t, sub_u256(x[t], words))
    /\ j' = Set(j, t, j[t] + 1)
    /\ UNCHANGED <<done, dp, pc, i, k, s, out, message>>

(* out[i] = t *)
BeforeDigits(word, digit) == <<digit>> \o word

(* out[l - 1 - i] = t, with i going down *)
AfterDigits(word, digit) == Append(word, digit)

TakeDigit(t) ==
    /\ pc[t] = "scan" /\ DigitFits(j[t], s[t])
    /\ less_u256(x[t], dp[i[t]][s[t] - j[t]])
    /\ out' = Set(out, t, AfterDigits(out[t], j[t]))
    /\ s' = Set(s, t, s[t] - j[t])
    /\ i' = Set(i, t, i[t] - 1) /\ j' = Set(j, t, 0)
    /\ IF i[t] = 0 THEN Goto(t, "return") ELSE UNCHANGED pc
    /\ UNCHANGED <<done, dp, k, x, message>>

(* No digit was found: the assertion fails.                                *)
OutOfDigits(t) == pc[t] = "scan" /\ ~DigitFits(j[t], s[t])

Next == \E t \in Threads :
            \/ \E msg \in Messages : Call(t, msg)
            \/ TestDone(t) \/ Clear(t) \/ Add(t) \/ NextEntry(t)
            \/ SkipDigit(t) \/ TakeDigit(t)

Spec == Init /\ [][Next]_vars

-----------------------------------------------------------------------------
(* Reference: the words of the code, and their order.                      *)
SumOf(word) == LET sum[n \in 0 .. Len(word)] == IF n = 0 THEN 0 ELSE sum[n - 1] + word[n]
               IN  sum[Len(word)]

Words(n, sum) == {word \in [1 .. n -> 0 .. W - 1] : SumOf(word) = sum}

Value(v) == v[1] + Base * (v[2] + Base * (v[3] + Base * v[4]))

(* There are words enough. *)
EveryMessageHasAWord == Cardinality(Messages) <= Cardinality(Words(L, HalfSum))

(* Four limbs hold the counts that are read; not those of the last row,    *)
(* which is filled and never read.                                         *)
RowsFit ==
    \A row \in 0 .. L - 1, sum \in 0 .. HalfSum :
        Cardinality(Words(row, sum)) < (Base * Base) * (Base * Base)

Before(v, w) == \E n \in DOMAIN w : v[n] < w[n] /\ \A o \in 1 .. n - 1 : v[o] = w[o]

(* Counters of the fill and of the scan keep to the table.                 *)
TypeOK ==
    /\ done \in BOOLEAN
    /\ dp \in [0 .. L -> [0 .. HalfSum -> U256]]
    /\ \A t \in Threads :
           /\ pc[t] \in {"idle", "test", "clear", "add", "scan", "return"}
           /\ i[t] \in -1 .. L /\ j[t] \in 0 .. HalfSum + 1 /\ k[t] \in 0 .. W
           /\ x[t] \in U256 /\ s[t] \in 0 .. HalfSum
           /\ Len(out[t]) <= L

(* assert(t != -1): whatever the message, every position finds its digit.  *)
(* The code has room for each message of n bytes only because the sum in   *)
(* the middle is the most frequent one.                                    *)
DigitFound == \A t \in Threads : ~OutOfDigits(t)

(* Once done is set the rows that are read hold the counts, for good; the  *)
(* last row may exceed 256 bits and is not read.                           *)
TableComplete ==
    done => \A row \in 0 .. L - 1, sum \in 0 .. HalfSum :
                Value(dp[row][sum]) = Cardinality(Words(row, sum))

(* The digits returned are the message-th word of the code: all have the   *)
(* sum L (W - 1) / 2, so no signature can be advanced to another message,  *)
(* and different messages get different words.                             *)
EncodesByRank ==
    /\ TypeOK /\ TableComplete
    /\ \A t \in Threads :
           pc[t] = "return" =>
               /\ out[t] \in Words(L, HalfSum)
               /\ Cardinality({v \in Words(L, HalfSum) : Before(v, out[t])}) = Value(message[t])

=============================================================================
