------------------------------- MODULE MCKEM -------------------------------
(* KEM with two recipients over 97 residues; a few matrices, none of them  *)
(* symmetric, and noise at its bounds.                                     *)
EXTENDS KEM

CONSTANTS alice, bob

MCUsers == {alice, bob}
MCVariants == {"ml_kem", "kyber", "aigis"}

MCMatrices == {<< <<1, 60>>, <<33, 96>> >>, << <<0, 5>>, <<71, 48>> >>}

Nonces(seq) == [n \in 0 .. Len(seq) - 1 |-> seq[n + 1]]

MCKeyNoise == {Nonces(<<1, -1, 1, 1>>), Nonces(<<0, 1, -1, 0>>)}
MCCoinNoise == {Nonces(<<1, 1, -1, -1, 1>>), Nonces(<<-1, 0, 1, 0, -1>>),
                Nonces(<<0, 0, 0, 0, 0>>)}

=============================================================================
