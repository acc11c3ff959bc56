------------------------------ MODULE MCPartyHub ------------------------------
(* Model values and symmetry for the model checking of PartyHub. *)
EXTENDS PartyHub, TLC

Symmetry ==
  Permutations(Ids) \cup Permutations(Names) \cup Permutations(Codes)
    \cup Permutations(Conns) \cup Permutations(Objs)
=============================================================================
