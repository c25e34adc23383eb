----------------------------- MODULE MCProvider -----------------------------
(* Two contexts and two algorithms, the lengths of one between those of the  *)
(* other.                                                                  *)
EXTENDS Provider, TLC

CONSTANTS one, two

MCContexts == {one, two}
MCAlgs == {"sig1", "sig3"}
MCPkLen == "sig1" :> 1 @@ "sig3" :> 2
MCSkLen == "sig1" :> 2 @@ "sig3" :> 3
MCSigLen == "sig1" :> 2 @@ "sig3" :> 3
Symmetry == Permutations(MCContexts)

=============================================================================
