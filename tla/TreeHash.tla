------------------------------ MODULE TreeHash -------------------------------
(***************************************************************************)
(* treehashx1 of the SPHINCS schemes, which builds a tree leaf by leaf on  *)
(* a stack with one entry for each height, and compute_root, with which a  *)
(* verifier climbs from a leaf.  They run for a sequence of trees with     *)
(* running offsets, as fors_sign and fors_pk_from_sig do; a tree of the    *)
(* hypertree is the case of one tree.                                      *)
(*                                                                         *)
(* What a tree of 2^Height leaves is, whoever computes it.  Hashes are     *)
(* ideal: a node is the tuple of its address and what was hashed.          *)
(* idx_offset counts the leaves of the trees to the left, as FORS does.    *)
(***************************************************************************)
EXTENDS Integers, Sequences, FiniteSets

CONSTANT Height

HeightAssumption == Height \in Nat \ {0}

(* The provers know nothing of powers. *)
PowerAssumption ==
    /\ 2^0 = 1 /\ 2^1 = 2
    /\ \A a \in 0 .. Height + 1 : \A b \in 0 .. Height + 1 - a :
           2^a \in Nat \ {0} /\ 2^(a + b) = 2^a * 2^b

Leaves == 0 .. 2^Height - 1

Shift(x, n) == x \div 2^n

(* a ^ b == 1 *)
Siblings(a, b) == a \div 2 = b \div 2 /\ a # b

Sibling(a) == IF a % 2 = 0 THEN a + 1 ELSE a - 1

(* The tree index counts the nodes of all trees at that height. *)
Address(height, index) == <<height, index>>

Leaf(index) == <<Address(0, index)>>
Hash(address, left, right) == <<address, left, right>>

(* All nodes of a tree: Tree(offset)[h][x] is the x-th node at height h. *)
Tree(offset) ==
    LET level[h \in 0 .. Height] ==
            [x \in 0 .. 2^(Height - h) - 1 |->
                IF h = 0 THEN Leaf(offset + x)
                ELSE Hash(Address(h, x + Shift(offset, h)),
                          level[h - 1][2 * x], level[h - 1][2 * x + 1])]
    IN  level

Root(offset) == Tree(offset)[Height][0]

Path(offset, leaf) == [h \in 0 .. Height - 1 |-> Tree(offset)[h][Sibling(Shift(leaf, h))]]

-----------------------------------------------------------------------------

CONSTANTS Trees,        \* SPX_FORS_TREES
          NoLeaf,       \* ~0: no authentication path is wanted
          None

TreesAssumption == Trees \in Nat \ {0} /\ NoLeaf \in Nat /\ NoLeaf >= 2^(Height + 1)

TreeSet == 0 .. Trees - 1

VARIABLES pc,
          indices,      \* message_to_indices: the leaf to reveal in each tree
          tree,         \* i of the loop over the trees
          idx, h,       \* of treehashx1; h is i of compute_root
          current, stack,
          auth, roots,  \* what the signer wrote
          buffer,       \* the verifier's pair, left and right
          recovered,    \* the roots the verifier computed
          hashed        \* ghost: addresses of leaves and nodes, in the order hashed

vars == <<pc, indices, tree, idx, h, current, stack, auth, roots, buffer, recovered, hashed>>

(* i * (1 << SPX_FORS_HEIGHT) *)
Offset == tree * 2^Height

NoNodes == [height \in 0 .. Height - 1 |-> None]

Init ==
    /\ indices \in [TreeSet -> Leaves \cup {NoLeaf}]
    /\ pc = "leaf" /\ tree = 0 /\ idx = 0 /\ h = 0
    /\ current = None /\ stack = NoNodes /\ buffer = <<None, None>>
    /\ auth = [t \in TreeSet |-> NoNodes]
    /\ roots = [t \in TreeSet |-> None] /\ recovered = roots
    /\ hashed = << >>

-----------------------------------------------------------------------------
GenLeaf ==
    /\ pc = "leaf"
    /\ current' = Leaf(idx + Offset)
    /\ hashed' = Append(hashed, Address(0, idx + Offset))
    /\ h' = 0
    /\ pc' = "climb"
    /\ UNCHANGED <<indices, tree, idx, stack, auth, roots, buffer, recovered>>

(* The next tree starts with a new stack; after the last one it is the     *)
(* verifier's turn, with the signature's leaf and path.                    *)
ReachTop ==
    /\ pc = "climb" /\ h = Height
    /\ roots' = [roots EXCEPT ![tree] = current]
    /\ idx' = 0
    /\ stack' = NoNodes
    /\ IF tree < Trees - 1 THEN tree' = tree + 1 /\ pc' = "leaf"
                           ELSE tree' = 0 /\ pc' = "verify"
    /\ UNCHANGED <<indices, h, current, auth, buffer, recovered, hashed>>

(* The position of the leaf itself taken for that of its sibling. *)
OwnPosition(node, leaf) == node = leaf

OnPath(node, leaf) == Siblings(node, leaf)

PathAfter == IF OnPath(Shift(idx, h), Shift(indices[tree], h))
             THEN [auth EXCEPT ![tree][h] = current]
             ELSE auth

(* (internal_idx & 1) == 0 && idx < max_idx *)
IsLeft == Shift(idx, h) % 2 = 0 /\ idx < 2^Height - 1

(* A left node waits on the stack for its right neighbour. *)
Push ==
    /\ pc = "climb" /\ h < Height /\ IsLeft
    /\ auth' = PathAfter
    /\ stack' = [stack EXCEPT ![h] = current]
    /\ idx' = idx + 1
    /\ pc' = "leaf"
    /\ UNCHANGED <<indices, tree, h, current, roots, buffer, recovered, hashed>>

(* Every tree counted from zero. *)
NodeIndexAlone(node, height) == node

(* internal_idx/2 + internal_idx_offset, both shifted once more per height *)
NodeIndex(node, height) == node + Shift(Offset, height)

Combine ==
    /\ pc = "climb" /\ h < Height /\ ~IsLeft
    /\ auth' = PathAfter
    /\ LET address == Address(h + 1, NodeIndex(Shift(idx, h + 1), h + 1))
       IN  /\ current' = Hash(address, stack[h], current)
           /\ hashed' = Append(hashed, address)
    /\ h' = h + 1
    /\ UNCHANGED <<pc, indices, tree, idx, stack, roots, buffer, recovered>>

-----------------------------------------------------------------------------
(* A node and its path neighbour, in the order of the node's parity. *)
Beside(node, index, neighbour) ==
    IF index % 2 = 1 THEN <<neighbour, node>> ELSE <<node, neighbour>>

(* Only trees of which a leaf was revealed are verified. *)
StartRoot ==
    /\ pc = "verify" /\ indices[tree] # NoLeaf
    /\ buffer' = Beside(Leaf(indices[tree] + Offset), indices[tree], auth[tree][0])
    /\ h' = 0
    /\ pc' = "root"
    /\ UNCHANGED <<indices, tree, idx, current, stack, auth, roots, recovered, hashed>>

ParentOf(height) ==
    Hash(Address(height, NodeIndex(Shift(indices[tree], height), height)), buffer[1], buffer[2])

ClimbRoot ==
    /\ pc = "root" /\ h < Height - 1
    /\ buffer' = Beside(ParentOf(h + 1), Shift(indices[tree], h + 1), auth[tree][h + 1])
    /\ h' = h + 1
    /\ UNCHANGED <<pc, indices, tree, idx, current, stack, auth, roots, recovered, hashed>>

(* One tree short. *)
NextTreeShort == IF tree < Trees - 2 THEN tree' = tree + 1 /\ pc' = "verify"
                                     ELSE tree' = 0 /\ pc' = "done"

NextTree == IF tree < Trees - 1 THEN tree' = tree + 1 /\ pc' = "verify"
                                ELSE tree' = 0 /\ pc' = "done"

(* The last hash takes no path node. *)
FinishRoot ==
    /\ pc = "root" /\ h = Height - 1
    /\ recovered' = [recovered EXCEPT ![tree] = ParentOf(Height)]
    /\ NextTree
    /\ UNCHANGED <<indices, idx, h, current, stack, auth, roots, buffer, hashed>>

SkipTree ==
    /\ pc = "verify" /\ indices[tree] = NoLeaf
    /\ NextTree
    /\ UNCHANGED <<indices, idx, h, current, stack, auth, roots, buffer, recovered, hashed>>

Next == GenLeaf \/ ReachTop \/ Push \/ Combine
        \/ StartRoot \/ ClimbRoot \/ FinishRoot \/ SkipTree

Spec == Init /\ [][Next]_vars /\ WF_vars(Next)

-----------------------------------------------------------------------------
TypeOK ==
    /\ pc \in {"leaf", "climb", "verify", "root", "done"}
    /\ tree \in TreeSet /\ idx \in Leaves /\ h \in 0 .. Height
    /\ DOMAIN stack = 0 .. Height - 1 /\ Len(buffer) = 2

(* What waits on the stack at a height is the left neighbour of the node   *)
(* that will be combined with it: an entry is never overwritten too early  *)
(* or used twice.                                                          *)
StackHoldsLeft ==
    pc \in {"leaf", "climb"} =>
        \A height \in 0 .. Height - 1 :
            LET done == IF pc = "leaf" THEN 0 ELSE h
            IN  height >= done /\ Shift(idx, height) % 2 = 1 =>
                    stack[height] = Tree(Offset)[height][Shift(idx, height) - 1]

(* A finished tree has the root of the definition and the authentication   *)
(* path of the leaf that was asked for, every level of it; with ~0 nothing *)
(* is written as a path.                                                   *)
TreeCorrect ==
    /\ TypeOK /\ StackHoldsLeft
    /\ \A t \in TreeSet :
           roots[t] # None =>
               /\ roots[t] = Root(t * 2^Height)
               /\ auth[t] = IF indices[t] = NoLeaf THEN NoNodes
                                                   ELSE Path(t * 2^Height, indices[t])

(* Whatever leaf was revealed, the verifier climbs to the signer's root.   *)
RootsRecovered ==
    \A t \in TreeSet : recovered[t] # None => recovered[t] = roots[t]

(* No two leaves or nodes, of one tree or of different trees of a key      *)
(* pair, are hashed under the same address.                                *)
AddressesOnce ==
    \A a, b \in DOMAIN hashed : hashed[a] = hashed[b] => a = b

(* Neither side is left waiting, and from every revealed leaf the verifier *)
(* has climbed to the signer's root.                                       *)
AllVerified ==
    <>(pc = "done" /\ \A t \in TreeSet : indices[t] # NoLeaf => recovered[t] = roots[t])

==============================================================================
