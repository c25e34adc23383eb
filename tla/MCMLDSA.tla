------------------------------ MODULE MCMLDSA ------------------------------
(* MLDSA on a ring of 41 residues with five high parts. *)
EXTENDS MLDSA

(* Small, wrapping and mixed entries; rows that agree and that differ. *)
MCMatrices == {<< <<1, 9>>, <<17, 40>> >>, << <<5, 0>>, <<20, 12>> >>}

MCMasks == {-3, -1, 0, 2, 4}

(* Byte strings such that two different pairs have the same concatenation. *)
MCMessages == {<<7>>, <<1, 7>>}
MCContexts == {<< >>, <<1>>, <<1, 7, 1>>}

=============================================================================
