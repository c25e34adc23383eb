----------------------------- MODULE Hypertree -----------------------------
(***************************************************************************)
(* The hypertree of SLH-DSA: sign.c, merkle.c, wots.c, wotsx1.c and        *)
(* address.c.  A signature walks up Depth layers of trees; on each a       *)
(* one-time key signs the root below it.  Signer and verifier keep their   *)
(* hash addresses in structures that they change field by field.           *)
(*                                                                         *)
(* Hashes are ideal: a value is the query that gave it, its address and    *)
(* its input.  prf_addr is the same function of the address, on the secret *)
(* seed.  What bytes a value is made of is drawn when they are first read. *)
(* Module TreeHash has shown what treehashx1 and compute_root compute, for *)
(* FORS as well, so that FORS has one tree of one leaf here.               *)
(***************************************************************************)
EXTENDS Integers, Sequences, FiniteSets

CONSTANTS Depth,        \* SPX_D
          Height,       \* SPX_TREE_HEIGHT
          LogW,         \* SPX_WOTS_LOGW, a divisor of 8
          Len1, Len2,   \* SPX_WOTS_LEN1, SPX_WOTS_LEN2
          Messages,     \* the bytes that a root may have
          Indices,      \* what hash_message may give: tree and leaf of layer 0
          None,         \* no value yet, or an uninitialised one
          NoLeaf,       \* ~0: no leaf signs
          MaxSignatures \* bound

W == 2^LogW
WotsLen == Len1 + Len2
Chains == 0 .. WotsLen - 1
Leaves == 0 .. 2^Height - 1

(* The fields of an address have one byte each for layer, chain, height and *)
(* hash; the digits of the checksum hold the largest one.                  *)
ASSUME HypertreeAssumption ==
    /\ Depth \in Nat \ {0} /\ Height \in Nat \ {0}
    /\ LogW \in {1, 2, 4, 8} /\ Len1 \in Nat \ {0} /\ Len2 \in Nat \ {0}
    /\ 8 <= Len1 * LogW /\ (Len1 * LogW) % 8 = 0
    /\ Depth <= 256 /\ Height <= 255 /\ WotsLen <= 256
    /\ Len1 * (W - 1) < 2^(LogW * Len2)
    /\ Messages \subseteq [1 .. (Len1 * LogW) \div 8 -> 0 .. 255]
    /\ Indices \subseteq [tree : 0 .. 2^(Height * (Depth - 1)) - 1, leaf : Leaves]

(* A tree has at most 2^9 leaves. *)
ASSUME NoLeafAssumption == NoLeaf \notin Leaves

(* The provers know nothing of powers. *)
MaxExponent == 8 * Len2 + Height * Depth + 8

ASSUME PowerAssumption ==
    /\ 2^0 = 1 /\ 2^1 = 2
    /\ \A a \in 0 .. MaxExponent : \A b \in 0 .. MaxExponent - a :
           2^a \in Nat \ {0} /\ 2^(a + b) = 2^a * 2^b
    /\ \A n \in 0 .. Len2 : 256^n = 2^(8 * n)

-----------------------------------------------------------------------------
(* Addresses.  The chain address and the tree height are one byte; the     *)
(* hash address is the last byte of the tree index.                        *)
WOTS == 0
WOTSPK == 1
HASHTREE == 2
FORSTREE == 3
FORSPK == 4
WOTSPRF == 5
FORSPRF == 6

Zero == [layer |-> 0, tree |-> 0, type |-> 0, keypair |-> 0, chain |-> 0, index |-> 0]

SetLayer(a, layer) == [a EXCEPT !.layer = layer % 256]
SetTree(a, tree) == [a EXCEPT !.tree = tree]
SetType(a, type) == [a EXCEPT !.type = type]
SetKeypair(a, keypair) == [a EXCEPT !.keypair = keypair]
SetChain(a, chain) == [a EXCEPT !.chain = chain % 256]
SetHash(a, hash) == [a EXCEPT !.index = (@ - (@ % 256)) + (hash % 256)]
SetNode(a, height, index) == [SetChain(a, height) EXCEPT !.index = index]
CopySubtree(a, from) == [SetTree(a, from.tree) EXCEPT !.layer = from.layer]

(* The key pair forgotten, and copied. *)
CopyTreeOnly(a, from) == CopySubtree(a, from)

CopyKeypair(a, from) == SetKeypair(CopySubtree(a, from), from.keypair)

(* The input is a sequence of values; prf_addr has no value before it.     *)
Thash(a, in) == [addr |-> a, in |-> in]
Prf(a) == Thash(a, << >>)

-----------------------------------------------------------------------------
(* base_w: the digits of a string of bytes, the highest bits first.        *)
BaseW(bytes, digits) ==
    [i \in 0 .. digits - 1 |->
        (bytes[(i * LogW) \div 8 + 1] \div 2^(8 - LogW - ((i * LogW) % 8))) % W]

(* csum << ((8 - ((LEN2 * LOGW) % 8)) % 8) *)
AlignedChecksum(sum) == sum * 2^((8 - ((Len2 * LogW) % 8)) % 8)

ChecksumBytes(sum) ==
    LET n == (Len2 * LogW + 7) \div 8
    IN  [i \in 1 .. n |-> (AlignedChecksum(sum) \div 256^(n - i)) % 256]

ChainLengths(msg) ==
    LET d == BaseW(msg, Len1)
        left[i \in 0 .. Len1] == IF i = 0 THEN 0 ELSE left[i - 1] + W - 1 - d[i - 1]
        c == BaseW(ChecksumBytes(left[Len1]), Len2)
    IN  [i \in Chains |-> IF i < Len1 THEN d[i] ELSE c[i - Len1]]

(* The values of a chain from one position to the last one. *)
Chain(a, start, value) ==
    LET v[k \in start .. W - 1] ==
            IF k = start THEN value ELSE Thash(SetHash(a, k - 1), <<v[k - 1]>>)
    IN  v

(* The ends of all chains, the input of a leaf. *)
Tops(chains) == [i \in 1 .. WotsLen |-> chains[i - 1][W - 1]]

(* The secret seed's address of type WOTS as well. *)
SecretAddressUntyped(a, chain) == SetHash(SetChain(a, chain), 0)

SecretAddress(a, chain) == SetType(SetHash(SetChain(a, chain), 0), WOTSPRF)

(* wots_gen_leafx1: all chains of a key pair, and its leaf.                *)
GenLeaf(leafAddr, pkAddr, idx) ==
    LET a == SetKeypair(leafAddr, idx)
        chains == [i \in Chains |->
                      Chain(SetType(SetChain(a, i), WOTS), 0, Prf(SecretAddress(a, i)))]
    IN  [chains |-> chains,
         leaf |-> Thash(SetKeypair(pkAddr, idx), Tops(chains))]

Sibling(x) == IF x % 2 = 0 THEN x + 1 ELSE x - 1

(* treehashx1: the nodes at each height. *)
Nodes(a, leaves) ==
    LET node[h \in 0 .. Height] ==
            IF h = 0 THEN leaves
            ELSE LET below == node[h - 1]
                 IN  [x \in 0 .. 2^(Height - h) - 1 |->
                         Thash(SetNode(a, h, x), <<below[2 * x], below[2 * x + 1]>>)]
    IN  node

(* The tree that merkle_sign builds under the addresses it is given: its   *)
(* key pairs, its nodes, and every query made.                             *)
Subtree(wotsAddr, treeAddr) ==
    LET leafAddr == CopySubtree(Zero, wotsAddr)
        pkAddr == CopySubtree(SetType(Zero, WOTSPK), wotsAddr)
        keys == [x \in Leaves |-> GenLeaf(leafAddr, pkAddr, x)]
        nodes == Nodes(SetType(treeAddr, HASHTREE), [x \in Leaves |-> keys[x].leaf])
    IN  [keys |-> keys,
         nodes |-> nodes,
         queries |-> {keys[x].chains[i][k] : x \in Leaves, i \in Chains, k \in 0 .. W - 1}
                     \cup UNION {{nodes[h][x] : x \in DOMAIN nodes[h]} : h \in 0 .. Height}]

(* compute_root: from a leaf up along its path; every node on the way. *)
Climb(a, leaf, idx, auth) ==
    LET up[h \in 0 .. Height] ==
            IF h = 0 THEN leaf
            ELSE LET x == idx \div 2^(h - 1)
                 IN  Thash(SetNode(a, h, x \div 2),
                           IF x % 2 = 0 THEN <<up[h - 1], auth[h - 1]>>
                                        ELSE <<auth[h - 1], up[h - 1]>>)
    IN  up

-----------------------------------------------------------------------------
VARIABLES pc,
          pubRoot,              \* the root in the key pair
          index,                \* tree and leaf that the message hashes to
          layer, tree, leaf,    \* of the running loop
          wotsAddr, treeAddr, pkAddr,
          root,
          forsSig, sig,         \* the signature: layer -> chains and path
          bytes,                \* values -> their bytes, as far as read
          signatures,           \* how many were made
          hashed, revealed      \* ghosts: all queries; what one-time keys signed

vars == <<pc, pubRoot, index, layer, tree, leaf, wotsAddr, treeAddr, pkAddr, root,
          forsSig, sig, bytes, signatures, hashed, revealed>>

Init ==
    /\ pc = "new" /\ pubRoot = None
    /\ index = [tree |-> 0, leaf |-> 0]
    /\ layer = 0 /\ tree = 0 /\ leaf = 0
    /\ wotsAddr = Zero /\ treeAddr = Zero /\ pkAddr = Zero
    /\ root = None /\ forsSig = None /\ sig = << >>
    /\ bytes = << >> /\ signatures = 0 /\ hashed = {} /\ revealed = {}

(* leaf_idx == info->wots_sign_leaf: what the key pairs of a tree show of  *)
(* their chains when one of them signs.                                    *)
Shown(keys, signLeaf, message, steps) ==
    {[key |-> keys[x].chains[0][0], message |-> message, steps |-> steps] :
        x \in {y \in Leaves : y = signLeaf}}

(* crypto_sign_seed_keypair: merkle_gen_root signs whatever root holds,    *)
(* with a leaf that does not exist.                                        *)
KeyPair ==
    /\ pc = "new"
    /\ LET top == SetLayer(Zero, Depth - 1)
           t == Subtree(top, top)
       IN  /\ pubRoot' = t.nodes[Height][0]
           /\ hashed' = t.queries
           /\ \E msg \in Messages :
                  revealed' = Shown(t.keys, NoLeaf, root, ChainLengths(msg))
    /\ pc' = "ready"
    /\ UNCHANGED <<index, layer, tree, leaf, wotsAddr, treeAddr, pkAddr, root,
                   forsSig, sig, bytes, signatures>>

(* Both loops begin with the indices and addresses of layer 0. *)
StartLoop ==
    /\ layer' = 0 /\ tree' = index'.tree /\ leaf' = index'.leaf
    /\ wotsAddr' = SetKeypair(SetTree(SetType(Zero, WOTS), tree'), leaf')
    /\ treeAddr' = SetType(Zero, HASHTREE)
    /\ pkAddr' = SetType(Zero, WOTSPK)

(* fors_sign and fors_pk_from_sig: secret value, leaf and public key.      *)
ForsLeaf(a, secret) == Thash(SetType(CopyKeypair(Zero, a), FORSTREE), <<secret>>)
ForsKey(a, secret) == Thash(SetType(CopyKeypair(Zero, a), FORSPK), <<ForsLeaf(a, secret)>>)
ForsSecret(a) == Prf(SetType(CopyKeypair(Zero, a), FORSPRF))

StartSign ==
    /\ pc \in {"ready", "verified"} /\ signatures < MaxSignatures
    /\ index' \in Indices
    /\ StartLoop
    /\ forsSig' = ForsSecret(wotsAddr')
    /\ root' = ForsKey(wotsAddr', forsSig')
    /\ hashed' = hashed \cup {forsSig', ForsLeaf(wotsAddr', forsSig'), root'}
    /\ sig' = << >>
    /\ pc' = "sign"
    /\ UNCHANGED <<pubRoot, bytes, signatures, revealed>>

(* The tree of a layer left out of its addresses. *)
LayerOnly(a) == SetLayer(a, layer)

LayerAddress(a) == SetTree(SetLayer(a, layer), tree)

KeyAddress(a) == SetKeypair(CopySubtree(a, LayerAddress(treeAddr)), leaf)

(* A function with a value put in or replaced. *)
Put(f, x, value) == [y \in {x} \cup DOMAIN f |-> IF y = x THEN value ELSE f[y]]

(* The bytes of the root that is signed or checked: read before, or now.   *)
Read(value, msg) ==
    /\ msg \in IF value \in DOMAIN bytes THEN {bytes[value]} ELSE Messages
    /\ bytes' = Put(bytes, value, msg)

(* The leaf is the low end of what is left of the tree. *)
NextIndices ==
    /\ leaf' = tree % 2^Height
    /\ tree' = tree \div 2^Height

(* The address of the last node hashed. *)
AtRoot(a) == SetNode(SetType(a, HASHTREE), Height, 0)

(* An iteration of the loop of crypto_sign_signature, with merkle_sign.    *)
SignLayer ==
    /\ pc = "sign"
    /\ LET wa == KeyAddress(wotsAddr)
           t == Subtree(wa, LayerAddress(treeAddr))
           key == t.keys[leaf].chains
       IN  \E msg \in Messages :
               /\ Read(root, msg)
               /\ LET steps == ChainLengths(msg)
                  IN  /\ sig' = Put(sig, layer,
                                    [chains |-> [i \in Chains |-> key[i][steps[i]]],
                                     auth |-> [h \in 0 .. Height - 1 |->
                                                  t.nodes[h][Sibling(leaf \div 2^h)]]])
                      /\ revealed' = revealed \cup Shown(t.keys, leaf, root, steps)
               /\ root' = t.nodes[Height][0]
               /\ hashed' = hashed \cup t.queries
               /\ wotsAddr' = wa
               /\ treeAddr' = AtRoot(LayerAddress(treeAddr))
    /\ layer' = layer + 1
    /\ NextIndices
    /\ IF layer' = Depth THEN pc' = "signed" /\ signatures' = signatures + 1
                         ELSE UNCHANGED <<pc, signatures>>
    /\ UNCHANGED <<pubRoot, index, pkAddr, forsSig>>

StartVerify ==
    /\ pc = "signed"
    /\ index' = index
    /\ StartLoop
    /\ root' = ForsKey(wotsAddr', forsSig)
    /\ hashed' = hashed \cup {ForsLeaf(wotsAddr', forsSig), root'}
    /\ pc' = "verify"
    /\ UNCHANGED <<pubRoot, forsSig, sig, bytes, signatures, revealed>>

(* An iteration of the loop of crypto_sign_verify.  The checksum leaves no *)
(* message without a step to make, so the last hash address is W - 2.      *)
VerifyLayer ==
    /\ pc = "verify"
    /\ \E msg \in Messages :
           /\ Read(root, msg)
           /\ LET wa == KeyAddress(wotsAddr)
                  pa == CopyKeypair(pkAddr, wa)
                  steps == ChainLengths(msg)
                  chains == [i \in Chains |->
                                Chain(SetChain(wa, i), steps[i], sig[layer].chains[i])]
                  node == Thash(pa, Tops(chains))
                  up == Climb(LayerAddress(treeAddr), node, leaf, sig[layer].auth)
              IN  /\ root' = up[Height]
                  /\ hashed' = hashed \cup {up[h] : h \in 0 .. Height}
                                 \cup UNION {{chains[i][k] : k \in steps[i] .. W - 1} : i \in Chains}
                  /\ wotsAddr' = SetHash(SetChain(wa, WotsLen - 1), W - 2)
                  /\ pkAddr' = pa
                  /\ treeAddr' = AtRoot(LayerAddress(treeAddr))
    /\ layer' = layer + 1
    /\ NextIndices
    /\ pc' = IF layer' = Depth THEN "verified" ELSE pc
    /\ UNCHANGED <<pubRoot, index, forsSig, sig, signatures, revealed>>

Next == KeyPair \/ StartSign \/ SignLayer \/ StartVerify \/ VerifyLayer

Spec == Init /\ [][Next]_vars

-----------------------------------------------------------------------------
(* From every leaf of the hypertree the verifier climbs to the root in the *)
(* public key.                                                             *)
VerifierReachesRoot == pc = "verified" => root = pubRoot

(* No address is ever used for two inputs, in key generation, signing or   *)
(* verification, whichever fields the structures still hold from the last  *)
(* use.                                                                    *)
OneInputPerAddress == Cardinality({q.addr : q \in hashed}) = Cardinality(hashed)

(* A one-time key never signs two messages, over all signatures made and   *)
(* the garbage that key generation passes to merkle_sign; and what a       *)
(* signature reveals of the chains reaches no other message: some chain    *)
(* would have to be followed backwards.                                    *)
AllLengths == {ChainLengths(m) : m \in [1 .. (Len1 * LogW) \div 8 -> 0 .. 255]}

OneMessagePerKey ==
    \A r \in revealed :
        /\ \A s \in revealed : r.key = s.key => r.message = s.message
        /\ \A lengths \in AllLengths :
               (\A i \in Chains : lengths[i] >= r.steps[i]) => lengths = r.steps

=============================================================================
