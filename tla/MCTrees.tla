------------------------------ MODULE MCTrees ------------------------------
(***************************************************************************)
(* The trees of the SPHINCS schemes.  A behaviour is one of treehashx1 and *)
(* compute_root, in two neighbouring trees of eight leaves, or one of the  *)
(* hypertree: two layers of trees with four leaves, six chains of three    *)
(* steps.                                                                  *)
(***************************************************************************)
EXTENDS Hypertree

CONSTANTS TreeHeight, Trees     \* of TreeHash, with the same NoLeaf

MCMessages == {<<27>>, <<200>>}

MCIndices == {[tree |-> t, leaf |-> l] : t \in {0, 1, 2}, l \in {0, 3}}

VARIABLES walk,     \* which of the two
          phase, indices, number, idx, height, current, stack, paths, roots,
          buffer, recovered, addresses      \* of TreeHash

Single == INSTANCE TreeHash WITH
            Height <- TreeHeight, pc <- phase, tree <- number, h <- height,
            auth <- paths, hashed <- addresses

ASSUME TreesAssumption ==
    Single!HeightAssumption /\ Single!TreesAssumption /\ Single!PowerAssumption

treeVars == <<phase, indices, number, idx, height, current, stack, paths, roots,
              buffer, recovered, addresses>>

NoTree ==
    /\ indices = [t \in Single!TreeSet |-> NoLeaf]
    /\ phase = "done" /\ number = 0 /\ idx = 0 /\ height = 0
    /\ current = None /\ stack = Single!NoNodes /\ buffer = <<None, None>>
    /\ paths = [t \in Single!TreeSet |-> Single!NoNodes]
    /\ roots = [t \in Single!TreeSet |-> None] /\ recovered = roots
    /\ addresses = << >>

MCInit ==
    /\ Init
    /\ \/ walk = "tree" /\ Single!Init
       \/ walk = "hypertree" /\ NoTree

MCNext ==
    /\ \/ walk = "tree" /\ Single!Next /\ UNCHANGED vars
       \/ walk = "hypertree" /\ Next /\ UNCHANGED treeVars
    /\ UNCHANGED walk

(* The fairness of TreeHash. *)
MCSpec ==
    /\ MCInit /\ [][MCNext]_<<walk, vars, treeVars>>
    /\ WF_treeVars(walk = "tree" /\ Single!Next)

(* Signer and verifier meet in the root: that of each tree (treehashx1 and *)
(* compute_root) and, layer by layer, the public root of the hypertree     *)
(* (sign.c).                                                               *)
RootsMeet == Single!TreeCorrect /\ Single!RootsRecovered /\ VerifierReachesRoot

(* No hash address is used for two inputs: leaves and nodes of the trees   *)
(* (utilsx1.c), secrets, chains and keys of the hypertree (wotsx1.c).      *)
AddressesUsedOnce == Single!AddressesOnce /\ OneInputPerAddress

(* In each tree both loops come to their end, with one root (utilsx1.c,    *)
(* utils.c).                                                               *)
AllVerified == Single!AllVerified
=============================================================================
